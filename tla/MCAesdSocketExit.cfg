SPECIFICATION FairSpec
CONSTANTS
  c1 = c1
  c2 = c2
  c3 = c3
  a = a
  b = b
  nl = nl
  iocseekto = iocseekto
  comma = comma
  Command <- SeekToCommand
  Comma = comma
  Newline = nl
  Width = 4
  Clients = {c1, c2}
  Stampers = {}
  Null = Null
  DummyNode = DummyNode
  Script <- PacketAndSeek
  MaxOps = 1
  ReadSize = 2
  Builds = {"device"}
  MaxStarts = 1
  Faults = {"signal"}
PROPERTIES
  SignalExits
CHECK_DEADLOCK FALSE
