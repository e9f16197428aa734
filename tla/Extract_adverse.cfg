CONSTANTS
  NumPlugins = 2
  InProcess <- NoInProcess
  FileSize = 1
  ShmSize = 1
  MaxSeek = 2
  MaxFiles = 2
  MaxRequests = 1
  ClientAborts = TRUE
  IOErrors = FALSE
SPECIFICATION FairSpec
CHECK_DEADLOCK FALSE
INVARIANTS
  NoOrphans
  NoCallbackAfterAbort
PROPERTIES
  ExtractReturns
