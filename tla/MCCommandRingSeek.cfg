SPECIFICATION Spec
CONSTANTS
  MaxOps = 3
  NoPtr = NoPtr
  Sizes = {0, 1, 2}
  MaxAdds = 7
INVARIANTS
  SeekStaysInside
CHECK_DEADLOCK FALSE
