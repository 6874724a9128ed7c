SPECIFICATION FairSpec
CONSTANTS
  c1 = c1
  c2 = c2
  c3 = c3
  a = a
  b = b
  nl = nl
  iocseekto = iocseekto
  comma = comma
  Command <- SeekToCommand
  Comma = comma
  Newline = nl
  Width = 4
  Clients = {c1, c2}
  Stampers = {s1}
  Null = Null
  DummyNode = DummyNode
  Script <- OneChunkEach
  MaxOps = 1
  ReadSize = 2
  Builds = {"device", "file"}
  MaxStarts = 1
  Faults = {"accept", "create", "send", "signal"}
PROPERTIES
  EveryThreadEnds
  ExitsAtNextConnection
CHECK_DEADLOCK FALSE
