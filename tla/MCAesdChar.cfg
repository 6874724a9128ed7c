SPECIFICATION Spec
CONSTANTS
  MaxOps = 2
  NoPtr = NoPtr
  p1 = p1
  p2 = p2
  f1 = f1
  a = a
  b = b
  nl = nl
  Procs = {p1, p2}
  Files = {f1}
  NoFile = NoFile
  Holders <- Shared
  Readable = {f1}
  Free = Free
  Ptrs = {q1, q2, q3, q4}
  Byte = {a, b, nl}
  Newline = nl
  Junk = Junk
  Payloads <- MCPayloads
  ReadCounts = {2}
  SeekOffsets <- BothWays
  SeekCmds = {0, 2}
  CmdOffsets = {1}
  MaxPending = 1
  AllocFails = {"fresh"}
  CopyFails = TRUE
SYMMETRY Pointers
INVARIANTS
  TypeOK
  MutualExclusion
  MemorySafe
  ReadInBounds
  CommandBlocksReachable
  PositionsNatural
  PendingWasWritten
PROPERTIES
  DeviceSpec
CHECK_DEADLOCK FALSE
