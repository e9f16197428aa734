CONSTANTS
  Half = 8
  MapSize = 2
  Sizes = {0, 3, 5}
  Blind = FALSE
  Calls <- MCCalls
SPECIFICATION Spec
CHECK_DEADLOCK FALSE
INVARIANT PositionInFile
PROPERTIES
  ImplementsFile
