SPECIFICATION Spec
CONSTANTS
  m1 = m1
  m2 = m2
  t1 = t1
  t2 = t2
  Mms = {m1, m2}
  Threads = {t1, t2}
  mm <- OneEach
  Pages = {p1, p2}
  Swaps = {e1}
  Values = {zero, one}
  Zero = zero
  Nil = Nil
  Forks <- T1ForksM2
  ZapThreads = {}
  Pinners = {}
  ChargeFails = FALSE
SYMMETRY Frames
INVARIANTS SwapCountsExact
PROPERTIES KeepsMemory HookCopiesSwappedPage
