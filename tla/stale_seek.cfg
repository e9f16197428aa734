CONSTANTS
  NumPlugins = 2
  InProcess <- NoInProcess
  FileSize = 1
  ShmSize = 1
  MaxSeek = 2
  MaxFiles = 2
  MaxRequests = 1
  ClientAborts = FALSE
  IOErrors = FALSE
SPECIFICATION Spec
CHECK_DEADLOCK FALSE
INVARIANT
  OnlySeekersMoved
