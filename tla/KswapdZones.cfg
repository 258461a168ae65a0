SPECIFICATION FairSpec
CONSTANTS
  Procs = {p1}
  NrZones = 2
  Normal = 0
  Size = 3
  Managed <- EqualZones
  Min = 1
  Low = 1
  High = 1
  Gap = 1
  LowmemReserve = 1
  Suited = 2
  DefPriority = 1
  Classzones = {0, 1}
  FsModes = {TRUE}
  Mortal = {p1}
  MaxOrder = 0
INVARIANTS TypeOK NoneThrottledAsleep
PROPERTY ThrottleEnds
