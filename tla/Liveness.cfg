CONSTANTS
  s1 = s1
  s2 = s2
  s3 = s3
  c = c
  d = d
  t = t
  u = u
  NoSession = NoSession
  NoClient = NoClient
  NoTopic = NoTopic
  Sessions = {s1, s2}
  ClientIds = {c}
  Topics = {t}
  Identity <- SameClient
  ThreadPoolSize = 2
  MaxPackets <- Two
  MaxWriteFailures = 1
SPECIFICATION FairSpec
PROPERTIES
  HandlersReturn
  DeadPeerForgotten
