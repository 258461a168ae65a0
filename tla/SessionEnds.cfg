SPECIFICATION FairSpec
CONSTANTS
  Rounds = 1
  TxDepth = 8
  Faults <- SetupFaults
PROPERTIES
  ClientStops
  ServerStops
