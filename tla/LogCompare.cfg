SPECIFICATION ExperimentSpec
CONSTANTS
  Experiments <- AllExperiments
  Entries = {e1, e2}
  Unset = Unset
  Contents = {c1, c2}
  NumberOfArrays = 2
  MaxSizeArray = 2
  MaxAdds = 6
  Scanned = 3
INVARIANTS TypeOK LogKeepsOrder OverrunIsOneSlot CountIsExact VerdictIsRight
CHECK_DEADLOCK FALSE
