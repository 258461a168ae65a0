SPECIFICATION FairSpec
CONSTANTS
  m1 = m1
  m2 = m2
  t1 = t1
  t2 = t2
  Mms = {m1}
  Threads = {t1}
  mm <- OnlyT1
  Pages = {p1, p2}
  Swaps = {e1}
  Values = {zero, one}
  Zero = zero
  Nil = Nil
  Forks <- NoForks
  ZapThreads = {t1}
  Pinners = {m1}
  ChargeFails = TRUE
PROPERTIES KeepsMemory PageLocksReleased
