CONSTANTS
  Topics = {t1}
  NoTopic = NoTopic
  MaxCalls = 3
  MaxPublished = 1
SPECIFICATION FairSpec
PROPERTIES
  DisconnectReturns
CHECK_DEADLOCK FALSE
