CONSTANTS
  Scripts <- MCScripts
  InitialSize = 2
  MaxMetaData = 6
  MaxMime = 2
  SeekSize = 2
  MetaSize = 2
SPECIFICATION Spec
CHECK_DEADLOCK FALSE
INVARIANTS
  NothingLost
  RequestKept
PROPERTIES
  KilledForCause
  EveryMessageTaken
