SPECIFICATION FairSpecMark
CONSTANTS
  MaxOps = 1
  NoPtr = NoPtr
  p1 = p1
  p2 = p2
  f1 = f1
  f2 = f2
  a = a
  nl = nl
  Procs = {p1, p2}
  Files = {f1, f2}
  NoFile = NoFile
  Holders <- Private
  Readable = {f1}
  Free = Free
  Ptrs = {q1, q2}
  Byte = {a, nl}
  Newline = nl
  Junk = Junk
  Payloads <- ShortPayloads
  ReadCounts = {2}
  SeekOffsets = {0}
  SeekCmds = {0}
  CmdOffsets = {1}
  MaxPending = 1
  AllocFails = {"fresh", "grow"}
  CopyFails = FALSE
INVARIANTS
  MemorySafe
  ReturnsUnlocked
PROPERTIES
  
  EveryCallReturns
