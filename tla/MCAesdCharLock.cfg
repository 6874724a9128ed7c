SPECIFICATION Spec
CONSTANTS
  MaxOps = 2
  NoPtr = NoPtr
  p1 = p1
  p2 = p2
  f1 = f1
  a = a
  b = b
  nl = nl
  Procs = {p1, p2}
  Files = {f1}
  NoFile = NoFile
  Holders <- Shared
  Readable = {f1}
  Free = Free
  Ptrs = {q1, q2, q3}
  Byte = {a, nl}
  Newline = nl
  Junk = Junk
  Payloads <- ShortPayloads
  ReadCounts = {2}
  SeekOffsets = {1}
  SeekCmds = {1}
  CmdOffsets = {1}
  MaxPending = 1
  AllocFails = {}
  CopyFails = TRUE
SYMMETRY Pointers
INVARIANTS
  ReturnsUnlocked
CHECK_DEADLOCK FALSE
