CONSTANTS
  t1 = t1
  t2 = t2
  t3 = t3
  t4 = t4
  t5 = t5
  Topics = {t1, t2, t3, t4, t5}
  NoTopic = NoTopic
  Bad = Bad
  Cut = Cut
  Empty = {t2}
  Long = {t3}
  Oversized = {t4}
  Misread = Misread
  Dropped = Dropped
  Devices <- TwoDevices
  MaxCalls = 8
  MaxPublished = 0
SPECIFICATION BridgeFairSpec
INVARIANTS
  BridgeTypeOK
  NothingLostWhileUp
  FirstLinesForwarded
PROPERTIES
  ImplementsRelay
  LineForwarded
CHECK_DEADLOCK FALSE
