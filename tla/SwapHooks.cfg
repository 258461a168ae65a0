SPECIFICATION Spec
CONSTANTS
  t1 = t1
  t2 = t2
  Threads = {t1, t2}
  table <- OneTable
  NumberOfArrays = 2
  MaxSizeArray = 2
  Entries = {e1, e2}
  Unset = Unset
  MaxAdds = 5
  Copied = {e1, e2}
  MaxFilled = 2
SYMMETRY Names
INVARIANTS  QuietLogInOrder SlotsWhole
 
CHECK_DEADLOCK FALSE
