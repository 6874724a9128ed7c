SPECIFICATION Spec
CONSTANTS
  cmd = cmd
  colon = colon
  comma = comma
  nl = nl
  Command <- CommandText
  Comma = comma
  Newline = nl
  Width = 4
  Bytes <- Alphabet
  BufferSize = 5
  MaxLength = 6
INVARIANTS
  FindsWhatIsMeant
CHECK_DEADLOCK FALSE
