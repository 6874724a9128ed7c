SPECIFICATION Spec
CONSTANTS
  MaxOps = 3
  NoPtr = NoPtr
  Sizes = {0, 1, 2}
  MaxAdds = 7
INVARIANTS
  TypeOK
  RetainsLast
  FindMatchesConcat
  SeekLandsOnByte
  SeekOvershootBounded
  LengthMatchesConcat
PROPERTIES
  FreesTheOldest
CHECK_DEADLOCK FALSE
