CONSTANTS
  s1 = s1
  s2 = s2
  s3 = s3
  c = c
  d = d
  t = t
  u = u
  NoSession = NoSession
  NoClient = NoClient
  NoTopic = NoTopic
  Sessions = {s1, s2, s3}
  ClientIds = {c, d}
  Topics = {t}
  Identity <- Reconnecting
  ThreadPoolSize = 2
  MaxPackets <- TwoOneTwo
  MaxWriteFailures = 1
SPECIFICATION Spec
INVARIANTS
  AcknowledgedState
  QuietIsRegistered
PROPERTIES
  ServesEachPeer
