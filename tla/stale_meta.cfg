CONSTANTS
  NumPlugins = 2
  InProcess <- NoInProcess
  FileSize = 1
  ShmSize = 1
  MaxSeek = 0
  MaxFiles = 2
  MaxRequests = 2
  ClientAborts = TRUE
  IOErrors = FALSE
SPECIFICATION Spec
CHECK_DEADLOCK FALSE
INVARIANT
  MetaFromCurrentFile
