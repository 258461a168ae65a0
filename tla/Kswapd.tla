------------------------------- MODULE Kswapd -------------------------------
(***************************************************************************)
(* The page-out daemon of one memory node and the processes it serves.     *)
(* Allocators wake kswapd without a lock; those that find the emergency    *)
(* reserve too low sleep on pfmemalloc_wait until kswapd wakes them, while *)
(* kswapd sleeps on kswapd_wait until they wake it.  A step is one access  *)
(* to what the two sides share: a wait queue, the request fields of the    *)
(* node, the watermarks of the zones.  What shrink_zone() frees is left    *)
(* open, and a process that exits frees what it held.                      *)
(***************************************************************************)
EXTENDS Integers, FiniteSets

CONSTANTS
  Procs,
  NrZones, Normal,      \* zones 0 .. NrZones - 1; the last one below highmem
  Size, Managed,        \* pages of a zone that are tracked; its managed_pages
  Min, Low, High,       \* watermarks of a zone
  Gap,                  \* balance_gap of kswapd_shrink_zone()
  LowmemReserve,        \* what a zone keeps from requests that could use a higher one
  Suited,               \* free pages above which compaction_suitable() does not skip
  DefPriority,          \* DEF_PRIORITY (12)
  MaxOrder,
  Classzones,           \* zones a request may ask for at best
  FsModes,              \* whether a request may enter the file system (__GFP_FS)
  Mortal                \* the processes that may be killed or exit

ASSUME KswapdAssumption ==
  /\ NrZones \in Nat \ {0} /\ Normal \in 0 .. NrZones - 1
  /\ Classzones \subseteq 0 .. NrZones - 1 /\ Mortal \subseteq Procs
  /\ FsModes \subseteq BOOLEAN
  /\ DefPriority \in Nat \ {0} /\ MaxOrder \in Nat /\ Size \in Nat
  /\ {Min, Low, High, Gap, LowmemReserve, Suited} \subseteq Nat /\ 0 < Min /\ Min <= Low /\ Low <= High

VARIABLES
  free, large,          \* free pages of each zone; zones with a block of a higher order
  dead,                 \* zones scanned so often without progress that they are given up
  maxOrder, reqZone,    \* pgdat->kswapd_max_order, pgdat->classzone_idx
  queued, state,        \* kswapd: is it on kswapd_wait, is it "running" or "sleeping"
  k,                    \* kswapd: where it is, and the locals of its functions
  waiting, dozing,      \* processes on pfmemalloc_wait; those set to sleep
  p                     \* of each process: where it is, and its request

zoneVars == <<free, large, dead>>
askVars == <<maxOrder, reqZone>>
kswapdVars == <<queued, state, k>>
procVars == <<waiting, dozing, p>>
vars == <<zoneVars, askVars, kswapdVars, procVars>>

Zones == 0 .. NrZones - 1
Top == NrZones - 1
Least(a, b) == IF a < b THEN a ELSE b
Sets == INSTANCE FiniteSetsExt
Total(f, S) == Sets!MapThenSumSet(LAMBDA z : f[z], S)

-----------------------------------------------------------------------------
(* Watermarks *)

\* zone_watermark_ok() for a request of that order that could use zones up to cz.
WatermarkOk(z, order, mark, cz) ==
  /\ free[z] - (2^order - 1) > mark + (IF z < cz THEN LowmemReserve ELSE 0)
  /\ order > 0 => z \in large

Reclaimable(z) == z \notin dead /\ free[z] < Size

ZoneBalanced(z, order, gap, cz) ==
  /\ WatermarkOk(z, order, High + gap, cz)
  /\ order > 0 => free[z] > Suited

PgdatBalanced(order, cz) ==
  LET settled == {z \in 0 .. cz : Reclaimable(z) => ZoneBalanced(z, order, 0, z)}
  IN IF order = 0 THEN settled = 0 .. cz
     ELSE 4 * Total(Managed, settled) >= Total(Managed, 0 .. cz)

\* pfmemalloc_watermark_ok() without the wake-up at its end.
PfmemallocOk ==
  LET usable == {z \in 0 .. Normal : free[z] < Size}
  IN usable = {} \/ 2 * Total(free, usable) > Min * Cardinality(usable)

\* A zone gains pages, and perhaps a larger block; its scan counter starts anew.
Freed(f) ==
  /\ free' = f
  /\ large' \in {s \in SUBSET Zones : large \subseteq s /\ \A z \in s \ large : MaxOrder > 0 /\ f[z] >= 2}
  /\ dead' = {z \in dead : f[z] = free[z]}

\* shrink_zone(): pages are freed, or the scan counter may pass its limit.
ShrinkZone(z) ==
  \/ \E n \in 1 .. Least(2, Size - free[z]) : Freed([free EXCEPT ![z] = @ + n])
  \/ free[z] < Size /\ dead' \in {dead, dead \cup {z}} /\ UNCHANGED <<free, large>>
  \/ free[z] = Size /\ UNCHANGED zoneVars

-----------------------------------------------------------------------------
(* Allocators; the page allocator itself is not in the repository *)

Idle == [pc |-> "idle", order |-> 0, zone |-> 0, cz |-> 0, fs |-> TRUE,
         over |-> FALSE, killed |-> FALSE]
ProcTo(q, pc) == p' = [p EXCEPT ![q].pc = pc]

\* The page is taken from a zone above the mark.
TakePage(q, mark) ==
  \E z \in 0 .. p[q].cz :
    /\ WatermarkOk(z, p[q].order, mark, p[q].cz)
    /\ free' = [free EXCEPT ![z] = @ - 2^p[q].order]
    /\ large' \in {s \in SUBSET large : \A y \in s : free'[y] >= 2}
    /\ ProcTo(q, "idle")
    /\ UNCHANGED <<dead, askVars, kswapdVars, waiting, dozing>>

Allocate(q) ==
  /\ p[q].pc = "idle"
  /\ \E order \in 0 .. MaxOrder, cz \in Classzones, fs \in FsModes :
       p' = [p EXCEPT ![q] = [@ EXCEPT !.pc = "fast", !.order = order, !.zone = cz, !.cz = cz, !.fs = fs]]
  /\ UNCHANGED <<zoneVars, askVars, kswapdVars, waiting, dozing>>

FastPath(q) == p[q].pc = "fast" /\ TakePage(q, Low)

SlowPath(q) ==
  /\ p[q].pc = "fast"
  /\ \A z \in 0 .. p[q].cz : ~ WatermarkOk(z, p[q].order, Low, p[q].cz)
  /\ ProcTo(q, "request")
  /\ UNCHANGED <<zoneVars, askVars, kswapdVars, waiting, dozing>>

\* wakeup_kswapd() for each zone of the request: it leaves the request ...
Request(q) ==
  /\ p[q].pc = "request"
  /\ IF maxOrder < p[q].order
     THEN maxOrder' = p[q].order /\ reqZone' = Least(reqZone, p[q].cz)
     ELSE UNCHANGED askVars
  /\ ProcTo(q, "wake")
  /\ UNCHANGED <<zoneVars, kswapdVars, waiting, dozing>>

\* A wake-up runs a sleeping task and takes it off the queue.
WakeKswapd ==
  IF queued /\ state = "sleeping" THEN state' = "running" /\ queued' = FALSE
  ELSE UNCHANGED <<queued, state>>

\* ... and wakes kswapd, if it is queued and the zone is short.
WakeupKswapd(q) ==
  /\ p[q].pc = "wake"
  /\ IF queued /\ ~ ZoneBalanced(p[q].zone, p[q].order, 0, 0) THEN WakeKswapd
     ELSE UNCHANGED <<queued, state>>
  /\ p' = [p EXCEPT ![q].pc = IF p[q].zone = 0 THEN "get" ELSE "request",
                    ![q].zone = IF @ = 0 THEN 0 ELSE @ - 1]
  /\ UNCHANGED <<zoneVars, askVars, k, waiting, dozing>>

GetPage(q) == p[q].pc = "get" /\ TakePage(q, Min)

\* try_to_free_pages() begins with throttle_direct_reclaim().
TryToFreePages(q) ==
  /\ p[q].pc = "get"
  /\ \A z \in 0 .. p[q].cz : ~ WatermarkOk(z, p[q].order, Min, p[q].cz)
  /\ ProcTo(q, "throttle")
  /\ UNCHANGED <<zoneVars, askVars, kswapdVars, waiting, dozing>>

\* A process about to be killed is not throttled; the others test the reserve.
Throttle(q) ==
  /\ p[q].pc = "throttle"
  /\ ProcTo(q, IF p[q].killed THEN "dying" ELSE IF PfmemallocOk THEN "reclaim" ELSE "poke")
  /\ UNCHANGED <<zoneVars, askVars, kswapdVars, waiting, dozing>>

\* The end of pfmemalloc_watermark_ok(): kswapd must be awake.
Poke(q, then) ==
  /\ IF queued THEN reqZone' = Least(reqZone, Normal) /\ WakeKswapd
     ELSE UNCHANGED <<reqZone, queued, state>>
  /\ ProcTo(q, then)
  /\ UNCHANGED <<zoneVars, maxOrder, k, waiting, dozing>>

PokeFirst(q) == p[q].pc = "poke" /\ Poke(q, "enter")

\* Mutant of TestWatermark: the wait does not see to it that kswapd is awake.
TestWatermarkAlone(q) ==
  /\ p[q].pc = "test"
  /\ ProcTo(q, IF PfmemallocOk \/ p[q].killed \/ p[q].over THEN "leave" ELSE "doze")
  /\ UNCHANGED <<zoneVars, askVars, kswapdVars, waiting, dozing>>

\* wait_event_killable(), or with a timeout when the file system may not be entered:
\* each round enters the queue, unless killed, tests the condition, and sleeps.
EnterWait(q) ==
  /\ p[q].pc = "enter"
  /\ IF p[q].killed THEN UNCHANGED <<waiting, dozing>>
     ELSE waiting' = waiting \cup {q} /\ dozing' = dozing \cup {q}
  /\ ProcTo(q, "test")
  /\ UNCHANGED <<zoneVars, askVars, kswapdVars>>

TestWatermark(q) ==
  /\ p[q].pc = "test"
  /\ ProcTo(q, IF PfmemallocOk THEN "leave" ELSE "pokeagain")
  /\ UNCHANGED <<zoneVars, askVars, kswapdVars, waiting, dozing>>

\* (A process killed since it entered would sleep once more, at once to return.)
PokeAgain(q) ==
  p[q].pc = "pokeagain" /\ Poke(q, IF p[q].killed \/ p[q].over THEN "leave" ELSE "doze")

\* schedule() returns once the process is not set to sleep.
Awake(q) ==
  /\ p[q].pc = "doze" /\ q \notin dozing
  /\ ProcTo(q, "enter")
  /\ UNCHANGED <<zoneVars, askVars, kswapdVars, waiting, dozing>>

\* The timed wait is over, after a second or with any signal.
Timeout(q) ==
  /\ p[q].pc = "doze" /\ ~ p[q].fs /\ q \in dozing
  /\ dozing' = dozing \ {q}
  /\ p' = [p EXCEPT ![q].over = TRUE]
  /\ UNCHANGED <<zoneVars, askVars, kswapdVars, waiting>>

\* finish_wait(), then the test of check_pending.
FinishWait(q) ==
  /\ p[q].pc = "leave"
  /\ waiting' = waiting \ {q} /\ dozing' = dozing \ {q}
  /\ p' = [p EXCEPT ![q].pc = IF p[q].killed THEN "dying" ELSE "reclaim", ![q].over = FALSE]
  /\ UNCHANGED <<zoneVars, askVars, kswapdVars>>

DirectReclaim(q) ==
  /\ p[q].pc = "reclaim"
  /\ \E z \in 0 .. p[q].cz : ShrinkZone(z)
  /\ ProcTo(q, "get")
  /\ UNCHANGED <<askVars, kswapdVars, waiting, dozing>>

\* A fatal signal also ends the sleep.
Kill(q) ==
  /\ q \in Mortal /\ p[q].pc # "idle" /\ ~ p[q].killed
  /\ p' = [p EXCEPT ![q].killed = TRUE]
  /\ dozing' = dozing \ {q}
  /\ UNCHANGED <<zoneVars, askVars, kswapdVars, waiting>>

\* A process exits and its memory is free at once; another one takes its place.
Exit(q) ==
  /\ q \in Mortal /\ p[q].pc \in {"idle", "dying"}
  /\ \E f \in [Zones -> 0 .. Size] : (\A z \in Zones : f[z] >= free[z]) /\ Freed(f)
  /\ p' = [p EXCEPT ![q] = Idle]
  /\ UNCHANGED <<askVars, kswapdVars, waiting, dozing>>

-----------------------------------------------------------------------------
(* balance_pgdat() *)

\* order .. newZone, balanced, balancedZone are locals of kswapd(), remaining of
\* kswapd_try_to_sleep(), the others of balance_pgdat().
Start ==
  [pc |-> "loop", order |-> 0, newOrder |-> 0, zone |-> Top, newZone |-> Top,
   balanced |-> 0, balancedZone |-> Top, remaining |-> FALSE,
   at |-> 0, end |-> 0, priority |-> 0, got |-> 0, raise |-> FALSE, compact |-> FALSE]

Init ==
  /\ free \in [Zones -> 0 .. Size]
  /\ large = IF MaxOrder = 0 THEN {} ELSE {z \in Zones : free[z] >= 2}
  /\ dead = {}
  /\ maxOrder = 0 /\ reqZone = Top
  /\ queued = FALSE /\ state = "running" /\ k = Start
  /\ waiting = {} /\ dozing = {} /\ p = [q \in Procs |-> Idle]

At(pc) == k.pc = pc
Goto(pc) == k' = [k EXCEPT !.pc = pc]

\* Mutant of Skipped: a zone given up is not even polled.
SkippedAtOnce(z) == ~ Reclaimable(z)

\* The call, with classzone_idx in zone.
BalancePgdat ==
  /\ At("balance")
  /\ k' = [k EXCEPT !.pc = "find", !.balanced = k.order, !.balancedZone = k.zone,
                    !.priority = DefPriority]
  /\ UNCHANGED <<zoneVars, askVars, queued, state, procVars>>

Skipped(z) == k.priority # DefPriority /\ ~ Reclaimable(z)

\* The highest zone that is not balanced is where the scan will end; with none, the
\* call is over, and end_zone is that of the round before, at first 0.
FindEndZone ==
  /\ At("find")
  /\ LET short == {z \in Zones : ~ Skipped(z) /\ ~ ZoneBalanced(z, k.balanced, 0, 0)}
     IN \/ /\ short = {}
           /\ Goto("out")
        \/ \E end \in short :
             /\ \A z \in short : z <= end
             /\ k' = [k EXCEPT !.pc = "shrink", !.end = end, !.at = 0, !.got = 0, !.raise = TRUE,
                        !.compact = /\ k.balanced > 0
                                    /\ \A z \in 0 .. end : ~ WatermarkOk(z, k.balanced, Low, k.balancedZone)]
  /\ UNCHANGED <<zoneVars, askVars, queued, state, procVars>>

TestOrder(z) == IF free[z] > Suited THEN 0 ELSE k.balanced

NextZone(z, raise, got) ==
  [k EXCEPT !.pc = IF z = k.end THEN "unthrottle" ELSE "shrink", !.at = z + 1,
            !.raise = raise, !.got = Least(@ + got, 2 * 2^MaxOrder)]

SkipZone ==
  /\ At("shrink") /\ Skipped(k.at)
  /\ k' = NextZone(k.at, k.raise, 0)
  /\ UNCHANGED <<zoneVars, askVars, queued, state, procVars>>

\* kswapd_shrink_zone(): true for a zone well above its watermark, else whether enough
\* pages were scanned.
KswapdShrinkZone ==
  /\ At("shrink") /\ ~ Skipped(k.at)
  /\ IF ZoneBalanced(k.at, TestOrder(k.at), Gap, k.end)
     THEN k' = NextZone(k.at, FALSE, 0) /\ UNCHANGED zoneVars
     ELSE /\ ShrinkZone(k.at)
          /\ k' \in {NextZone(k.at, raise, free'[k.at] - free[k.at]) : raise \in {k.raise, FALSE}}
  /\ UNCHANGED <<askVars, queued, state, procVars>>

WakeUpAll == dozing' = dozing \ waiting /\ waiting' = waiting \ dozing /\ UNCHANGED p

UnthrottleOrNot ==
  /\ At("unthrottle")
  /\ IF waiting # {} /\ PfmemallocOk THEN WakeUpAll ELSE UNCHANGED procVars
  /\ Goto("again")
  /\ UNCHANGED <<zoneVars, askVars, queued, state>>

\* The order is given up once twice its pages were reclaimed.
DropOrder == IF k.balanced > 0 /\ k.got >= 2 * 2^k.balanced THEN 0 ELSE k.balanced

\* compact_pgdat() may join free pages into a larger block; whether enough was
\* reclaimed to call it is left open.
Compact ==
  \/ UNCHANGED large
  \/ /\ k.compact /\ k.got > 0
     /\ large' \in {s \in SUBSET Zones : large \subseteq s /\ \A z \in s : free[z] >= 2}

\* The end of the loop: the priority rises without progress.
PriorityNext == IF k.raise \/ k.got = 0 THEN k.priority - 1 ELSE k.priority

\* Mutant of PriorityLeft: one round too many.
PriorityLeftAtZero == PriorityNext >= 0
PriorityLeft == PriorityNext >= 1

LoopOrOut ==
  /\ At("again")
  /\ Compact
  /\ k' = [k EXCEPT !.balanced = DropOrder, !.priority = PriorityNext,
             !.pc = IF PriorityLeft /\ ~ PgdatBalanced(DropOrder, k.balancedZone) THEN "find" ELSE "out"]
  /\ UNCHANGED <<free, dead, askVars, queued, state, procVars>>

BalanceReturns ==
  /\ At("out")
  /\ k' = [k EXCEPT !.pc = "loop", !.balancedZone = k.end, !.at = 0, !.end = 0, !.priority = 0,
             !.got = 0, !.raise = FALSE, !.compact = FALSE]
  /\ UNCHANGED <<zoneVars, askVars, queued, state, procVars>>

-----------------------------------------------------------------------------
(* kswapd() and kswapd_try_to_sleep() *)

\* A request made meanwhile is read when the last one was met ...
KswapdLoop ==
  /\ At("loop")
  /\ k' = IF k.balancedZone >= k.newZone /\ k.balanced = k.newOrder
          THEN [k EXCEPT !.pc = "clear", !.newOrder = maxOrder, !.newZone = reqZone]
          ELSE [k EXCEPT !.pc = "decide"]
  /\ UNCHANGED <<zoneVars, askVars, queued, state, procVars>>

\* Mutant of ClearRequest: the request stays.
ClearRequestForgotten ==
  /\ k.pc \in {"clear", "clearwoken"}
  /\ Goto(IF At("clear") THEN "decide" ELSE "balance")
  /\ UNCHANGED <<zoneVars, askVars, queued, state, procVars>>

\* ... and cleared, in a step of its own.
ClearRequest ==
  /\ k.pc \in {"clear", "clearwoken"}
  /\ maxOrder' = 0 /\ reqZone' = Top
  /\ Goto(IF At("clear") THEN "decide" ELSE "balance")
  /\ UNCHANGED <<zoneVars, queued, state, procVars>>

Decide ==
  /\ At("decide")
  /\ k' = IF k.order < k.newOrder \/ k.zone > k.newZone
          THEN [k EXCEPT !.pc = "balance", !.order = k.newOrder, !.zone = k.newZone]
          ELSE [k EXCEPT !.pc = "prepare"]
  /\ UNCHANGED <<zoneVars, askVars, queued, state, procVars>>

\* prepare_to_wait(), before the first and again before the second test.
PrepareToWait ==
  /\ k.pc \in {"prepare", "prepareagain"}
  /\ queued' = TRUE /\ state' = "sleeping"
  /\ Goto(IF At("prepare") THEN "unblock" ELSE "unblockagain")
  /\ UNCHANGED <<zoneVars, askVars, procVars>>

\* prepare_kswapd_sleep(): nobody may stay throttled ...
Unblock ==
  /\ k.pc \in {"unblock", "unblockagain"} /\ ~ k.remaining
  /\ IF waiting # {} THEN WakeUpAll ELSE UNCHANGED procVars
  /\ Goto(IF At("unblock") THEN "ready" ELSE "readyagain")
  /\ UNCHANGED <<zoneVars, askVars, queued, state>>

\* ... and the node must be balanced for what was last reclaimed for.
Ready ==
  /\ k.pc \in {"ready", "readyagain"}
  /\ Goto(IF ~ PgdatBalanced(k.balanced, k.balancedZone)
          THEN IF At("ready") THEN "unblockagain" ELSE "finish"
          ELSE IF At("ready") THEN "nap" ELSE "sleep")
  /\ UNCHANGED <<zoneVars, askVars, queued, state, procVars>>

\* The short sleep ends by its timeout or early, with time remaining.
Nap ==
  /\ At("nap")
  /\ \/ state = "running" /\ k' = [k EXCEPT !.pc = "prepareagain", !.remaining = TRUE]
     \/ Goto("prepareagain")
  /\ state' = "running" /\ queued' = FALSE
  /\ UNCHANGED <<zoneVars, askVars, procVars>>

Premature ==
  /\ At("unblockagain") /\ k.remaining
  /\ Goto("finish")
  /\ UNCHANGED <<zoneVars, askVars, queued, state, procVars>>

Sleep ==
  /\ At("sleep") /\ state = "running"
  /\ Goto("finish")
  /\ UNCHANGED <<zoneVars, askVars, queued, state, procVars>>

\* Back in kswapd(), which takes the request that woke it.
Finish ==
  /\ At("finish")
  /\ queued' = FALSE /\ state' = "running"
  /\ k' = [k EXCEPT !.pc = "clearwoken", !.remaining = FALSE,
             !.order = maxOrder, !.newOrder = maxOrder, !.zone = reqZone, !.newZone = reqZone]
  /\ UNCHANGED <<zoneVars, askVars, procVars>>

-----------------------------------------------------------------------------

KswapdStep ==
  \/ KswapdLoop \/ ClearRequest \/ Decide
  \/ PrepareToWait \/ Unblock \/ Ready \/ Nap \/ Premature \/ Sleep \/ Finish
  \/ BalancePgdat \/ FindEndZone \/ SkipZone \/ KswapdShrinkZone
  \/ UnthrottleOrNot \/ LoopOrOut \/ BalanceReturns

\* What a process does of itself once it has asked for a page.
ProcStep(q) ==
  \/ FastPath(q) \/ SlowPath(q) \/ Request(q) \/ WakeupKswapd(q) \/ GetPage(q)
  \/ TryToFreePages(q) \/ Throttle(q) \/ PokeFirst(q) \/ EnterWait(q) \/ TestWatermark(q)
  \/ PokeAgain(q) \/ Awake(q) \/ FinishWait(q) \/ DirectReclaim(q)

Next ==
  \/ KswapdStep
  \/ \E q \in Procs : ProcStep(q) \/ Allocate(q) \/ Timeout(q) \/ Kill(q) \/ Exit(q)

Spec == Init /\ [][Next]_vars

\* The scheduler runs every task that can run, and what is in use can be reclaimed:
\* a scan that comes again and again frees pages in the end.
Frees(z) == At("shrink") /\ k.at = z /\ KswapdShrinkZone /\ free'[z] > free[z]
Fairness ==
  /\ WF_vars(KswapdStep)
  /\ \A q \in Procs : WF_vars(ProcStep(q))
  /\ \A z \in Zones : SF_vars(Frees(z))

FairSpec == Spec /\ Fairness

-----------------------------------------------------------------------------
(* Properties *)

\* The types of the state; the priority is 0 only where the loop has ended.
TypeOK ==
  /\ free \in [Zones -> 0 .. Size]
  /\ large \subseteq {z \in Zones : free[z] >= 2} /\ dead \subseteq Zones
  /\ maxOrder \in 0 .. MaxOrder /\ reqZone \in Zones
  /\ waiting \subseteq Procs /\ dozing \subseteq Procs
  /\ k.order \in 0 .. MaxOrder /\ k.balanced \in 0 .. MaxOrder
  /\ k.zone \in Zones /\ k.balancedZone \in Zones
  /\ k.priority \in 0 .. DefPriority
  /\ k.pc \in {"find", "shrink", "unthrottle", "again"} => k.priority > 0 /\ k.end \in Zones

Throttled(q) == p[q].pc = "doze" /\ q \in dozing

\* "If kswapd is going to sleep, no process should be sleeping on pfmemalloc_wait"
\* (prepare_kswapd_sleep()): neither side sees the other's sleep too late, although
\* each looks at the other's queue without its lock.
NoneThrottledAsleep ==
  state = "sleeping" /\ k.pc \in {"nap", "sleep"} => \A q \in Procs : ~ Throttled(q)

\* The throttle of throttle_direct_reclaim() is no trap: a process leaves it, with or
\* without a signal, unless others take the pages that come free again and again.
ThrottleEnds ==
  \A q \in Procs :
    <>[](p[q].pc \in {"poke", "enter", "test", "pokeagain", "doze", "leave"})
      => []<><<\E o \in Procs \ {q} : FastPath(o) \/ GetPage(o)>>_vars

\* kswapd comes to rest when nobody asks for pages any more, also after a request for
\* an order that no reclaim can produce: "Fragmentation may mean that the system cannot
\* be rebalanced for high-order allocations" (balance_pgdat()).
KswapdRests ==
  <>[](\A q \in Procs : p[q].pc = "idle") => <>[](k.pc = "sleep" /\ state = "sleeping")

\* What two comments say and the code does not do: TLC finds it violated (README).
\* "This verifies that ... watermarks have been met" (prepare_kswapd_sleep()), "For
\* order-0, all zones must be balanced!" (pgdat_balanced()): kswapd does not find
\* itself ready to sleep while some zone is short.
SleepsBalanced ==
  [][Ready /\ k'.pc \in {"nap", "sleep"} /\ k.balanced = 0
       => \A z \in Zones : Reclaimable(z) => ZoneBalanced(z, 0, 0, z)]_vars

=============================================================================
