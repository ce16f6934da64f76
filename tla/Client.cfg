CONSTANTS
  Topics = {t1, t2}
  NoTopic = NoTopic
  MaxCalls = 4
  MaxPublished = 2
SPECIFICATION FairSpec
INVARIANTS
  TypeOK
  CrashOnlyAfter
  HandlersMatch
  OneLateCallback
  SilentOnceStopped
PROPERTIES
  DisconnectReturnsOrIoWaits
  MessageReachesHandler
CHECK_DEADLOCK FALSE
