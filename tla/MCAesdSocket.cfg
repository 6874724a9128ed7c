SPECIFICATION Spec
CONSTANTS
  c1 = c1
  c2 = c2
  c3 = c3
  a = a
  b = b
  nl = nl
  iocseekto = iocseekto
  comma = comma
  Command <- SeekToCommand
  Comma = comma
  Newline = nl
  Width = 4
  Clients = {c1, c2, c3}
  Stampers = {}
  Null = Null
  DummyNode = DummyNode
  Script <- Packets
  MaxOps = 2
  ReadSize = 3
  Builds = {"device"}
  MaxStarts = 1
  Faults = {"open"}
SYMMETRY Interchangeable
INVARIANTS
  TypeOK
  PacketsWhole
  EchoHoldsPacket
  ListIsThreads

  
CHECK_DEADLOCK FALSE
