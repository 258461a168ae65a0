SPECIFICATION Spec
CONSTANTS
  Rounds = 2
  TxDepth = 8
  Faults <- StrayEvents
INVARIANTS
  TypeOK
  NoMissedWakeup
  CompletionsNotLost
  ServerRepostsOnLiveQp
  NothingLeaked
  ContextOutlivesCallbacks
PROPERTIES
  ClientNeverFallsBack
  ImplementsPingPong
