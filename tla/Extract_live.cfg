CONSTANTS
  NumPlugins = 2
  InProcess <- NoInProcess
  FileSize = 2
  ShmSize = 1
  MaxSeek = 2
  MaxFiles = 2
  MaxRequests = 1
  ClientAborts = FALSE
  IOErrors = FALSE
SPECIFICATION FairSpec
CHECK_DEADLOCK FALSE
PROPERTIES
  SeekServed
