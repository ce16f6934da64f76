CONSTANTS
  PoolSize = 2
  MaxSignals = 2
  MaxThrows = 2
SPECIFICATION FairSpec
INVARIANTS
  TypeOK
  CrashOnlyBySignal
  CleanExit
  KeepsAccepting
PROPERTIES
  ClearedAfterHandlers
  EnterEnds
  SignalStopsPool
CHECK_DEADLOCK FALSE
