CONSTANTS
  FileSize = 5
  BufSize = 3
  PipeSize = 2
  MaxItems = 2
  OutSize = 1
  MaxFeeds = 4
  MaxSent = 3
SPECIFICATION Spec
CHECK_DEADLOCK FALSE
INVARIANTS
  OneAtATime
  NothingLeft
  ReceivedInOrder
  Watched
PROPERTIES
  MethodReturns
