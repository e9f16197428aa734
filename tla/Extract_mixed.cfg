CONSTANTS
  NumPlugins = 2
  InProcess <- LastInProcess
  FileSize = 2
  ShmSize = 1
  MaxSeek = 4
  MaxFiles = 2
  MaxRequests = 2
  ClientAborts = TRUE
  IOErrors = TRUE
SPECIFICATION FairSpec
CHECK_DEADLOCK FALSE
INVARIANTS
  TypeOK
PROPERTIES
  ExtractReturns
