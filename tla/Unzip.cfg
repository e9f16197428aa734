CONSTANTS
  Archives <- MCArchives
  Names = {"a", "c"}
  Calls <- MCCalls
  BufSize = 2
  Block = 2
  MaxBack = 7
  SigSize = 2
  Item = 2
  Local = 1
SPECIFICATION Spec
CHECK_DEADLOCK FALSE
INVARIANT CurrentIsAt
PROPERTIES
  ImplementsEntry
  SearchTells
  LocatesLast
  AlarmsAreTrue
