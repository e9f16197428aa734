CONSTANTS
  NumPlugins = 2
  InProcess <- NoInProcess
  FileSize = 3
  ShmSize = 2
  MaxSeek = 3
  MaxFiles = 2
  MaxRequests = 2
  ClientAborts = FALSE
  IOErrors = FALSE
SPECIFICATION Spec
CHECK_DEADLOCK FALSE
INVARIANTS
  Handshake
  ProtocolFollowed
  SeekTargetInRange
  ShmStable
  MetaFromCurrentFile
  QuiescentAtReturn
  NoLostRequest
PROPERTIES
  CrashIsolation
  MovesServe
