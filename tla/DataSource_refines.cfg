CONSTANTS
  MaxRead = 3
  MaxFaults = 1
  SeekFaults = FALSE
  Sizes = {}
  Chunk = 2
  MagicSize = 1
  HeaderSize = 1
  FieldSize = 2
  RestartFaults = FALSE
  Files <- MCFiles
  Calls <- MCCalls
SPECIFICATION DsSpec
CHECK_DEADLOCK FALSE
INVARIANTS
  ResultAtPosition
  BufferAtPosition
PROPERTIES
  CallsReturn
  SizeSettled
  ImplementsContent
