SPECIFICATION FairSpec
CONSTANTS
  Procs = {p1}
  NrZones = 1
  Normal = 0
  Size = 4
  Managed <- EqualZones
  Min = 1
  Low = 1
  High = 1
  Gap = 1
  LowmemReserve = 1
  Suited = 2
  DefPriority = 2
  Mortal = {p1}
  FsModes = {TRUE, FALSE}
  MaxOrder = 1
  Classzones = {0}
PROPERTY KswapdRests
