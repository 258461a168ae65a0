SPECIFICATION Spec
CONSTANTS
  Rounds = 1
  TxDepth = 1
  Faults <- FaultsAndSignal
INVARIANTS
  QueuesWithinDepth
  
  LeaksAreKnown
CHECK_DEADLOCK FALSE
