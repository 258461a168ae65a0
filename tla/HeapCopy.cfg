SPECIFICATION Spec
CONSTANTS
  a = a
  b = b
  Table = 2
  PageSize = 2
  Values = {a, b}
  Contents <- AsAndBs
INVARIANTS DoneIsExchange  RunsOffUnaligned
CHECK_DEADLOCK FALSE
