---------------------------- MODULE KswapdProofs ----------------------------
(***************************************************************************)
(* No process sleeps in the throttle while kswapd sleeps, for any number   *)
(* of processes and zones.  The argument is that of two parties who each   *)
(* enter their own queue before they look at the other's: once kswapd is   *)
(* on its queue and has woken everybody, a process that starts to wait     *)
(* still has the test of kswapd's queue before it, and wakes kswapd there. *)
(* Then the types: the free pages of the zones and the locals of kswapd.   *)
(***************************************************************************)
EXTENDS Kswapd, TLAPS

\* Where a process that is set to sleep can be; it is on the queue then.
Dozing ==
  /\ dozing \subseteq waiting
  /\ dozing \subseteq Procs
  /\ \A q \in dozing : p[q].pc \in {"test", "pokeagain", "doze", "leave"}

\* Where kswapd can be when it is set to sleep; it is on its queue then.
Registered ==
  state = "sleeping" =>
    /\ queued
    /\ k.pc \in {"unblock", "unblockagain", "ready", "readyagain", "nap", "sleep", "finish"}

\* After kswapd has woken everybody.
Unblocked ==
  state = "sleeping" /\ k.pc \in {"ready", "readyagain", "nap", "sleep"} =>
    \A q \in dozing : p[q].pc # "doze"

Shape == /\ DOMAIN p = Procs /\ \A q \in Procs : "pc" \in DOMAIN p[q]
         /\ "pc" \in DOMAIN k

WakeInv == Shape /\ Dozing /\ Registered /\ Unblocked

\* The invariant holds at the start.
LEMMA WakeInit == Init => WakeInv
  BY DEF Init, WakeInv, Shape, Dozing, Registered, Unblocked, Idle, Start

\* A step of a process that neither sleeps nor wakes anybody, and does not go to sleep.
LEMMA Moves ==
  ASSUME WakeInv, NEW q \in Procs, NEW pc,
         p[q].pc \notin {"test", "pokeagain", "doze", "leave"} \/
           pc \in {"test", "pokeagain", "leave"} \/ q \notin dozing,
         ProcTo(q, pc), UNCHANGED <<kswapdVars, waiting, dozing>>
  PROVE  WakeInv'
<1>1. Shape' BY DEF WakeInv, Shape, ProcTo, kswapdVars
<1>2. Dozing' BY DEF WakeInv, Shape, Dozing, ProcTo
<1>3. Registered' BY DEF WakeInv, Registered, kswapdVars
<1>4. Unblocked' BY DEF WakeInv, Shape, Dozing, Unblocked, ProcTo, kswapdVars
<1> QED BY <1>1, <1>2, <1>3, <1>4 DEF WakeInv

\* A wake-up of kswapd, on the way to the sleep or not.
LEMMA Pokes ==
  ASSUME WakeInv, NEW q \in Procs, NEW pc, Poke(q, pc),
         q \notin dozing \/ pc \in {"doze", "leave"}
  PROVE  WakeInv'
<1>1. Shape' BY DEF WakeInv, Shape, Poke, ProcTo
<1>2. Dozing' BY DEF WakeInv, Shape, Dozing, Poke, ProcTo
<1>3. state' # "sleeping"
  BY DEF WakeInv, Registered, Poke, WakeKswapd
<1> QED BY <1>1, <1>2, <1>3 DEF WakeInv, Registered, Unblocked

\* A step after which no more processes are set to sleep, and those that are have not
\* moved.
LEMMA Quiet ==
  ASSUME WakeInv, Shape', UNCHANGED kswapdVars,
         dozing' \subseteq dozing, dozing' \subseteq waiting',
         \A q \in dozing' : p'[q].pc = p[q].pc
  PROVE  WakeInv'
<1>1. Dozing' BY DEF WakeInv, Dozing
<1>2. Registered' BY DEF WakeInv, Registered, kswapdVars
<1>3. Unblocked' BY DEF WakeInv, Unblocked, kswapdVars
<1> QED BY <1>1, <1>2, <1>3 DEF WakeInv

\* The invariant holds after a step of a process.
LEMMA ProcKeeps ==
  ASSUME WakeInv, NEW q \in Procs, ProcStep(q)
  PROVE  WakeInv'
<1> USE DEF WakeInv
<1>1. CASE FastPath(q) BY <1>1, Moves DEF FastPath, TakePage
<1>2. CASE SlowPath(q) BY <1>2, Moves DEF SlowPath
<1>3. CASE Request(q) BY <1>3, Moves DEF Request
<1>4. CASE WakeupKswapd(q)
  <2>1. /\ p[q].pc = "wake" /\ UNCHANGED <<k, waiting, dozing>>
        /\ \/ ~ (state = "sleeping" /\ queued) /\ UNCHANGED <<queued, state>>
           \/ state' = "running" /\ queued' = FALSE
           \/ UNCHANGED <<queued, state>>
    BY <1>4 DEF WakeupKswapd, WakeKswapd
  <2>2. q \notin dozing BY <2>1 DEF Dozing
  <2>3. Shape' BY <1>4, <2>1 DEF WakeupKswapd, Shape
  <2>4. \A r \in dozing : p'[r] = p[r] BY <1>4, <2>2 DEF WakeupKswapd, Dozing, Shape
  <2>5. Dozing' BY <2>1, <2>4 DEF Dozing
  <2>6. Registered' BY <2>1 DEF Registered
  <2>7. Unblocked' BY <2>1, <2>4 DEF Unblocked
  <2> QED BY <2>3, <2>5, <2>6, <2>7
<1>5. CASE GetPage(q) BY <1>5, Moves DEF GetPage, TakePage
<1>6. CASE TryToFreePages(q) BY <1>6, Moves DEF TryToFreePages
<1>7. CASE Throttle(q) BY <1>7, Moves DEF Throttle
<1>8. CASE PokeFirst(q)
  <2>1. q \notin dozing BY <1>8 DEF PokeFirst, Dozing
  <2> QED BY <1>8, <2>1, Pokes DEF PokeFirst
<1>9. CASE EnterWait(q)
  <2>1. /\ p[q].pc = "enter" /\ ProcTo(q, "test") /\ UNCHANGED kswapdVars
        /\ dozing \subseteq dozing' /\ dozing' \subseteq dozing \cup {q}
        /\ waiting \subseteq waiting' /\ dozing' \subseteq waiting'
    BY <1>9 DEF EnterWait, Dozing
  <2>2. Shape' BY <2>1 DEF Shape, ProcTo, kswapdVars
  <2>3. /\ \A r \in Procs : r # q => p'[r] = p[r]
        /\ p'[q].pc = "test"
    BY <2>1 DEF ProcTo, Shape
  <2>4. Dozing' BY <2>1, <2>3 DEF Dozing
  <2>5. Registered' BY <2>1 DEF Registered, kswapdVars
  <2>6. Unblocked' BY <2>1, <2>3 DEF Unblocked, kswapdVars, Dozing
  <2> QED BY <2>2, <2>4, <2>5, <2>6
<1>10. CASE TestWatermark(q) BY <1>10, Moves DEF TestWatermark
<1>11. CASE PokeAgain(q) BY <1>11, Pokes DEF PokeAgain
<1>12. CASE Awake(q) BY <1>12, Moves DEF Awake
<1>13. CASE FinishWait(q)
  <2>1. Shape' BY <1>13 DEF FinishWait, Shape, kswapdVars
  <2>2. /\ dozing' \subseteq dozing /\ dozing' \subseteq waiting' /\ q \notin dozing'
    BY <1>13 DEF FinishWait, Dozing
  <2>3. \A r \in dozing' : p'[r].pc = p[r].pc BY <1>13, <2>2 DEF FinishWait, Dozing, Shape
  <2> QED BY <1>13, <2>1, <2>2, <2>3, Quiet DEF FinishWait
<1>14. CASE DirectReclaim(q) BY <1>14, Moves DEF DirectReclaim
<1> QED BY <1>1, <1>2, <1>3, <1>4, <1>5, <1>6, <1>7, <1>8, <1>9, <1>10, <1>11, <1>12,
           <1>13, <1>14 DEF ProcStep

\* The invariant holds after a process starts, dies, is killed or has waited long enough.
LEMMA EnvironmentKeeps ==
  ASSUME WakeInv, NEW q \in Procs, Allocate(q) \/ Timeout(q) \/ Kill(q) \/ Exit(q)
  PROVE  WakeInv'
<1>1. UNCHANGED kswapdVars BY DEF Allocate, Timeout, Kill, Exit
<1>2. /\ dozing' \subseteq dozing /\ dozing' \subseteq waiting'
  BY DEF Allocate, Timeout, Kill, Exit, WakeInv, Dozing
<1>3. Shape'
  <2>1. CASE Allocate(q) BY <2>1 DEF Allocate, WakeInv, Shape, kswapdVars
  <2>2. CASE Timeout(q) BY <2>2 DEF Timeout, WakeInv, Shape, kswapdVars
  <2>3. CASE Kill(q) BY <2>3 DEF Kill, WakeInv, Shape, kswapdVars
  <2>4. CASE Exit(q) BY <2>4 DEF Exit, WakeInv, Shape, Idle, kswapdVars
  <2> QED BY <2>1, <2>2, <2>3, <2>4
<1>4. \A r \in dozing' : p'[r].pc = p[r].pc
  <2>1. CASE Allocate(q) BY <2>1 DEF Allocate, WakeInv, Shape, Dozing
  <2>2. CASE Timeout(q) BY <2>2 DEF Timeout, WakeInv, Shape, Dozing
  <2>3. CASE Kill(q) BY <2>3 DEF Kill, WakeInv, Shape, Dozing
  <2>4. CASE Exit(q) BY <2>4 DEF Exit, WakeInv, Shape, Dozing
  <2> QED BY <2>1, <2>2, <2>3, <2>4
<1> QED BY <1>1, <1>2, <1>3, <1>4, Quiet

\* kswapd moves on and is not set to sleep afterwards, or stays so where nothing is
\* promised.
LEMMA KswapdMoves ==
  ASSUME WakeInv, "pc" \in DOMAIN k', UNCHANGED procVars,
         \/ state' # "sleeping"
         \/ state' = state /\ queued' = queued /\ k'.pc \in {"unblock", "unblockagain", "finish"}
         \/ state' = "sleeping" /\ queued' /\ k'.pc \in {"unblock", "unblockagain"}
         \/ /\ state' = state /\ queued' = queued
            /\ k.pc \in {"ready", "readyagain"} /\ k'.pc \in {"nap", "sleep"}
  PROVE  WakeInv'
<1>1. Shape' BY DEF WakeInv, Shape, procVars
<1>2. Dozing' BY DEF WakeInv, Dozing, procVars
<1>3. Registered' BY DEF WakeInv, Registered
<1>4. Unblocked' BY DEF WakeInv, Unblocked, procVars
<1> QED BY <1>1, <1>2, <1>3, <1>4 DEF WakeInv

\* Nobody is set to sleep after the wake-up of everybody.
LEMMA WakeUpAllEmpties ==
  ASSUME WakeInv, IF waiting # {} THEN WakeUpAll ELSE UNCHANGED procVars
  PROVE  dozing' = {} /\ p' = p
  BY DEF WakeInv, Dozing, WakeUpAll, procVars

\* The invariant holds after a step of kswapd.
LEMMA KswapdKeeps ==
  ASSUME WakeInv, KswapdStep
  PROVE  WakeInv'
<1>a. "pc" \in DOMAIN k BY DEF WakeInv, Shape
<1>b. state = "sleeping" =>
        k.pc \in {"unblock", "unblockagain", "ready", "readyagain", "nap", "sleep", "finish"}
  BY DEF WakeInv, Registered
<1>1. CASE KswapdLoop BY <1>1, <1>a, <1>b, KswapdMoves DEF KswapdLoop, At
<1>2. CASE ClearRequest BY <1>2, <1>a, <1>b, KswapdMoves DEF ClearRequest, Goto
<1>3. CASE Decide BY <1>3, <1>a, <1>b, KswapdMoves DEF Decide, At
<1>4. CASE PrepareToWait
  <2>1. k'.pc \in {"unblock", "unblockagain"} /\ "pc" \in DOMAIN k'
    BY <1>4, <1>a DEF PrepareToWait, Goto
  <2> QED BY <1>4, <2>1, KswapdMoves DEF PrepareToWait
<1>5. CASE Unblock
  <2>1. dozing' = {} /\ p' = p BY <1>5, WakeUpAllEmpties DEF Unblock
  <2>2. k'.pc \in {"ready", "readyagain"} /\ "pc" \in DOMAIN k'
    BY <1>5, <1>a DEF Unblock, Goto
  <2>3. Shape' BY <2>1, <2>2 DEF WakeInv, Shape
  <2>4. Registered' BY <1>5, <2>2 DEF WakeInv, Registered, Unblock
  <2> QED BY <2>1, <2>3, <2>4 DEF WakeInv, Dozing, Unblocked
<1>6. CASE Ready
  <2>1. /\ k.pc \in {"ready", "readyagain"}
        /\ k'.pc \in {"unblockagain", "finish", "nap", "sleep"} /\ "pc" \in DOMAIN k'
    BY <1>6, <1>a DEF Ready, Goto, At
  <2> QED BY <1>6, <2>1, KswapdMoves DEF Ready
<1>7. CASE Nap
  <2>1. "pc" \in DOMAIN k' BY <1>7, <1>a DEF Nap, Goto
  <2> QED BY <1>7, <2>1, KswapdMoves DEF Nap
<1>8. CASE Premature BY <1>8, <1>a, KswapdMoves DEF Premature, Goto
<1>9. CASE Sleep BY <1>9, <1>a, KswapdMoves DEF Sleep, Goto
<1>10. CASE Finish
  <2>1. "pc" \in DOMAIN k' BY <1>10, <1>a DEF Finish
  <2> QED BY <1>10, <2>1, KswapdMoves DEF Finish
<1>11. CASE BalancePgdat BY <1>11, <1>a, <1>b, KswapdMoves DEF BalancePgdat, At
<1>12. CASE FindEndZone
  <2>1. "pc" \in DOMAIN k' BY <1>12, <1>a DEF FindEndZone, Goto
  <2>2. state' # "sleeping" BY <1>12, <1>b DEF FindEndZone, At
  <2> QED BY <1>12, <2>1, <2>2, KswapdMoves DEF FindEndZone
<1>13. CASE SkipZone BY <1>13, <1>a, <1>b, KswapdMoves DEF SkipZone, NextZone, At
<1>14. CASE KswapdShrinkZone
  <2>1. "pc" \in DOMAIN k' BY <1>14, <1>a DEF KswapdShrinkZone, NextZone
  <2>2. state' # "sleeping" BY <1>14, <1>b DEF KswapdShrinkZone, At
  <2> QED BY <1>14, <2>1, <2>2, KswapdMoves DEF KswapdShrinkZone
<1>15. CASE UnthrottleOrNot
  <2>1. dozing' \subseteq dozing /\ dozing' \subseteq waiting' /\ p' = p
    BY <1>15 DEF UnthrottleOrNot, WakeUpAll, WakeInv, Dozing, procVars
  <2>2. "pc" \in DOMAIN k' BY <1>15, <1>a DEF UnthrottleOrNot, Goto
  <2>3. state' # "sleeping" BY <1>15, <1>b DEF UnthrottleOrNot, At
  <2>4. Shape' BY <2>1, <2>2 DEF WakeInv, Shape
  <2> QED BY <2>1, <2>3, <2>4 DEF WakeInv, Dozing, Registered, Unblocked
<1>16. CASE LoopOrOut BY <1>16, <1>a, <1>b, KswapdMoves DEF LoopOrOut, At
<1>17. CASE BalanceReturns BY <1>17, <1>a, <1>b, KswapdMoves DEF BalanceReturns, At
<1> QED BY <1>1, <1>2, <1>3, <1>4, <1>5, <1>6, <1>7, <1>8, <1>9, <1>10, <1>11, <1>12,
           <1>13, <1>14, <1>15, <1>16, <1>17 DEF KswapdStep

\* No process sleeps in throttle_direct_reclaim() while kswapd sleeps, short or long.
THEOREM NobodyForgotten == Spec => []NoneThrottledAsleep
<1>1. WakeInv /\ [Next]_vars => WakeInv'
  <2> SUFFICES ASSUME WakeInv, [Next]_vars PROVE WakeInv'
    OBVIOUS
  <2>1. CASE KswapdStep BY <2>1, KswapdKeeps
  <2>2. ASSUME NEW q \in Procs, ProcStep(q) PROVE WakeInv' BY <2>2, ProcKeeps
  <2>3. ASSUME NEW q \in Procs, Allocate(q) \/ Timeout(q) \/ Kill(q) \/ Exit(q)
        PROVE  WakeInv'
    BY <2>3, EnvironmentKeeps
  <2>4. CASE UNCHANGED vars
    <3>1. /\ p' = p /\ dozing' = dozing /\ waiting' = waiting /\ UNCHANGED kswapdVars
      BY <2>4 DEF vars, procVars
    <3>2. Shape' BY <3>1 DEF WakeInv, Shape, kswapdVars
    <3> QED BY <3>1, <3>2, Quiet DEF WakeInv, Dozing
  <2> QED BY <2>1, <2>2, <2>3, <2>4 DEF Next
<1>2. WakeInv => NoneThrottledAsleep
  BY DEF WakeInv, Unblocked, Dozing, NoneThrottledAsleep, Throttled
<1> QED BY <1>1, <1>2, WakeInit, PTL DEF Spec
-----------------------------------------------------------------------------
(* The types, for any number of processes, zones and orders                *)

ProcPcs == {"idle", "fast", "request", "wake", "get", "throttle", "dying", "reclaim", "poke",
            "enter", "test", "pokeagain", "doze", "leave"}
ProcRecord ==
  [pc : ProcPcs, order : 0 .. MaxOrder, zone : Zones, cz : Zones, fs : BOOLEAN,
   over : BOOLEAN, killed : BOOLEAN]

KswapdPcs == {"loop", "clear", "clearwoken", "decide", "balance", "prepare", "prepareagain",
              "unblock", "unblockagain", "ready", "readyagain", "nap", "sleep", "finish",
              "find", "shrink", "unthrottle", "again", "out"}
KswapdRecord ==
  [pc : KswapdPcs, order : 0 .. MaxOrder, newOrder : 0 .. MaxOrder, zone : Zones,
   newZone : Zones, balanced : 0 .. MaxOrder, balancedZone : Zones, remaining : BOOLEAN,
   at : Nat, end : Zones, priority : 0 .. DefPriority, got : Int, raise : BOOLEAN,
   compact : BOOLEAN]

\* A zone with a larger block has the pages for one.
ZonesOk ==
  /\ free \in [Zones -> 0 .. Size]
  /\ large \subseteq {z \in Zones : free[z] >= 2}
  /\ dead \subseteq Zones

\* The priority is spent, and the walk over the zones past its end, only outside of the
\* loop of balance_pgdat().
LoopOk ==
  /\ k.pc \in {"find", "shrink", "unthrottle", "again"} => k.priority > 0
  /\ k.pc = "shrink" => k.at <= k.end

AskOk == maxOrder \in 0 .. MaxOrder /\ reqZone \in Zones
KswapdOk == k \in KswapdRecord /\ LoopOk
ProcsOk == waiting \subseteq Procs /\ dozing \subseteq Procs /\ p \in [Procs -> ProcRecord]

TypeInv == ZonesOk /\ AskOk /\ KswapdOk /\ ProcsOk

\* A fact of arithmetic, for which the provers have no rules.
Powers == \A n \in 0 .. MaxOrder : 2^n \in Nat \ {0}

LEMMA ZoneNumbers ==
  /\ NrZones \in Nat \ {0} /\ 0 \in Zones /\ Top \in Zones /\ Normal \in Zones
  /\ Classzones \subseteq Zones
  /\ \A a, b \in Zones : Least(a, b) \in Zones
  /\ \A a \in Zones : \A b \in 0 .. a : b \in Zones
  BY KswapdAssumption DEF Zones, Top, Least

\* What a zone gives back keeps the counts within the zone.
LEMMA FreedKeeps ==
  ASSUME ZonesOk, NEW f \in [Zones -> 0 .. Size], \A z \in Zones : f[z] >= free[z], Freed(f)
  PROVE  ZonesOk'
<1>1. free' \in [Zones -> 0 .. Size] /\ dead' \subseteq Zones
  BY DEF Freed, ZonesOk
<1>2. PICK s \in SUBSET Zones :
        large' = s /\ large \subseteq s /\ \A z \in s \ large : MaxOrder > 0 /\ f[z] >= 2
  BY DEF Freed
<1>3. ASSUME NEW z \in large'
      PROVE  z \in Zones /\ free'[z] >= 2
  <2>1. z \in Zones /\ free'[z] = f[z] /\ f[z] >= free[z]
    BY <1>2, <1>3 DEF Freed
  <2>2. CASE z \in large
    <3>1. free[z] >= 2 /\ free[z] \in Int /\ f[z] \in Int
      BY <2>1, <2>2 DEF ZonesOk
    <3> QED BY <2>1, <3>1
  <2>3. CASE z \notin large
    BY <1>2, <1>3, <2>1, <2>3
  <2> QED BY <2>1, <2>2, <2>3
<1> QED BY <1>1, <1>3 DEF ZonesOk

LEMMA ShrinkKeeps ==
  ASSUME ZonesOk, NEW z \in Zones, ShrinkZone(z)
  PROVE  ZonesOk' /\ free'[z] \in Int
<1>1. CASE \E n \in 1 .. Least(2, Size - free[z]) : Freed([free EXCEPT ![z] = @ + n])
  <2>1. PICK n \in 1 .. Least(2, Size - free[z]) : Freed([free EXCEPT ![z] = @ + n])
    BY <1>1
  <2> DEFINE f == [free EXCEPT ![z] = @ + n]
  <2>2. free[z] \in 0 .. Size /\ Size \in Int
    BY KswapdAssumption DEF ZonesOk
  <2>3. n \in Nat /\ free[z] + n \in 0 .. Size
    BY <2>2 DEF Least
  <2>4. f \in [Zones -> 0 .. Size]
    BY <2>3 DEF ZonesOk
  <2>5. \A y \in Zones : f[y] >= free[y]
    BY <2>2, <2>3 DEF ZonesOk
  <2>6. Freed(f)
    BY <2>1
  <2> HIDE DEF f
  <2>7. ZonesOk'
    BY <2>4, <2>5, <2>6, FreedKeeps
  <2> QED BY <2>7 DEF ZonesOk
<1>2. CASE free' = free /\ large' = large /\ dead' \subseteq Zones
  BY <1>2 DEF ZonesOk
<1>3. CASE free[z] < Size /\ dead' \in {dead, dead \cup {z}} /\ UNCHANGED <<free, large>>
  BY <1>2, <1>3 DEF ZonesOk
<1>4. CASE UNCHANGED zoneVars
  BY <1>2, <1>4 DEF ZonesOk, zoneVars
<1> QED BY <1>1, <1>3, <1>4 DEF ShrinkZone
\* A zone above a mark has the pages that are taken from it.
LEMMA TakeKeeps ==
  ASSUME Powers, TypeInv, NEW q \in Procs, NEW mark \in Nat, TakePage(q, mark)
  PROVE  ZonesOk'
<1>1. PICK z \in 0 .. p[q].cz :
        /\ WatermarkOk(z, p[q].order, mark, p[q].cz)
        /\ free' = [free EXCEPT ![z] = @ - 2^p[q].order]
        /\ large' \in {s \in SUBSET large : \A y \in s : free'[y] >= 2}
        /\ dead' = dead
  BY DEF TakePage
<1> DEFINE n == 2^p[q].order
<1>2. p[q].cz \in Zones /\ p[q].order \in 0 .. MaxOrder
  BY DEF TypeInv, ProcsOk, ProcRecord
<1>3. z \in Zones /\ n \in Nat \ {0} /\ LowmemReserve \in Nat
  BY <1>2, ZoneNumbers, KswapdAssumption DEF Powers
<1>4. free[z] \in 0 .. Size /\ Size \in Nat
  BY <1>3, KswapdAssumption DEF TypeInv, ZonesOk
<1>5. free[z] - (n - 1) > mark + (IF z < p[q].cz THEN LowmemReserve ELSE 0)
  BY <1>1 DEF WatermarkOk
<1>6. free' = [free EXCEPT ![z] = @ - n]
  BY <1>1
<1> HIDE DEF n
<1>7. free[z] - n \in 0 .. Size
  <2> DEFINE r == IF z < p[q].cz THEN LowmemReserve ELSE 0
  <2>1. r \in Nat /\ free[z] - (n - 1) > mark + r
    BY <1>3, <1>5
  <2> HIDE DEF r
  <2> QED BY <1>3, <1>4, <2>1
<1>8. free' \in [Zones -> 0 .. Size]
  BY <1>3, <1>6, <1>7 DEF TypeInv, ZonesOk
<1> QED BY <1>1, <1>8 DEF TypeInv, ZonesOk

\* A process that goes to another place keeps its type.
LEMMA ProcToKeeps ==
  ASSUME ProcsOk, NEW q \in Procs, NEW pc \in ProcPcs, ProcTo(q, pc)
  PROVE  p' \in [Procs -> ProcRecord]
  BY DEF ProcsOk, ProcRecord, ProcTo

LEMMA PokeKeeps ==
  ASSUME TypeInv, NEW q \in Procs, NEW pc \in ProcPcs, Poke(q, pc)
  PROVE  TypeInv'
<1>1. p' \in [Procs -> ProcRecord]
  BY ProcToKeeps DEF TypeInv, Poke
<1>2. AskOk'
  BY ZoneNumbers DEF TypeInv, AskOk, Poke
<1> QED BY <1>1, <1>2 DEF TypeInv, ProcsOk, ZonesOk, KswapdOk, LoopOk, Poke, zoneVars

LEMMA ProcTypes ==
  ASSUME Powers, TypeInv, NEW q \in Procs,
         ProcStep(q) \/ Allocate(q) \/ Timeout(q) \/ Kill(q) \/ Exit(q)
  PROVE  TypeInv'
<1>1. ProcsOk /\ p[q] \in ProcRecord /\ p[q].order \in 0 .. MaxOrder /\ p[q].cz \in Zones
      /\ p[q].zone \in Zones /\ p[q].pc \in ProcPcs
  BY DEF TypeInv, ProcsOk, ProcRecord
\* The steps that only move the process.
<1>2. ASSUME NEW pc \in ProcPcs, ProcTo(q, pc), waiting' \subseteq Procs, dozing' \subseteq Procs
      PROVE  ProcsOk'
  BY <1>1, <1>2, ProcToKeeps DEF ProcsOk
<1>3. ASSUME UNCHANGED <<askVars, kswapdVars>>
      PROVE  AskOk' /\ KswapdOk'
  BY <1>3 DEF TypeInv, AskOk, KswapdOk, LoopOk, askVars, kswapdVars
<1>4. ASSUME UNCHANGED zoneVars
      PROVE  ZonesOk'
  BY <1>4 DEF TypeInv, ZonesOk, zoneVars
<1>5. ASSUME NEW mark \in Nat, TakePage(q, mark)
      PROVE  TypeInv'
  <2>1. ZonesOk'
    BY <1>5, TakeKeeps
  <2>2. ProcTo(q, "idle") /\ UNCHANGED <<askVars, kswapdVars, waiting, dozing>>
    BY <1>5 DEF TakePage
  <2>3. p' \in [Procs -> ProcRecord]
    BY <1>1, <2>2, ProcToKeeps DEF ProcPcs
  <2> QED BY <1>1, <1>3, <2>1, <2>2, <2>3 DEF TypeInv, ProcsOk
<1>6. CASE FastPath(q)
  BY <1>5, <1>6, KswapdAssumption DEF FastPath
<1>7. CASE GetPage(q)
  BY <1>5, <1>7, KswapdAssumption DEF GetPage
<1>8. CASE SlowPath(q) \/ TryToFreePages(q) \/ Throttle(q) \/ TestWatermark(q) \/ Awake(q)
  <2>1. /\ UNCHANGED <<zoneVars, askVars, kswapdVars, waiting, dozing>>
        /\ \E pc \in {"request", "throttle", "dying", "reclaim", "poke", "leave", "pokeagain", "enter"} :
             ProcTo(q, pc)
    BY <1>8 DEF SlowPath, TryToFreePages, Throttle, TestWatermark, Awake
  <2>2. PICK pc \in ProcPcs : ProcTo(q, pc)
    BY <2>1 DEF ProcPcs
  <2>3. ProcsOk'
    BY <1>1, <1>2, <2>1, <2>2 DEF ProcsOk
  <2> QED BY <1>3, <1>4, <2>1, <2>3 DEF TypeInv
<1>9. CASE Request(q)
  <2>1. UNCHANGED <<zoneVars, kswapdVars, waiting, dozing>> /\ ProcTo(q, "wake")
    BY <1>9 DEF Request
  <2>2. p' \in [Procs -> ProcRecord]
    BY <1>1, <2>1, ProcToKeeps DEF ProcPcs
  <2>3. AskOk'
    BY <1>1, <1>9, ZoneNumbers DEF Request, TypeInv, AskOk, askVars
  <2>4. KswapdOk'
    BY <2>1 DEF TypeInv, KswapdOk, LoopOk, kswapdVars
  <2> QED BY <1>1, <1>4, <2>1, <2>2, <2>3, <2>4 DEF TypeInv, ProcsOk
<1>10. CASE WakeupKswapd(q)
  <2>1. UNCHANGED <<zoneVars, askVars, k, waiting, dozing>>
    BY <1>10 DEF WakeupKswapd
  <2> DEFINE pc == IF p[q].zone = 0 THEN "get" ELSE "request"
             zone == IF p[q].zone = 0 THEN 0 ELSE p[q].zone - 1
  <2>2. p' = [p EXCEPT ![q] = [[p[q] EXCEPT !.pc = pc] EXCEPT !.zone = zone]]
    BY <1>1, <1>10 DEF WakeupKswapd, ProcsOk, ProcRecord
  <2>3. pc \in ProcPcs /\ zone \in Zones
    <3>1. pc \in ProcPcs
      BY DEF ProcPcs
    <3>2. p[q].zone \in 0 .. NrZones - 1 /\ NrZones \in Nat \ {0}
      BY <1>1, ZoneNumbers DEF Zones
    <3>3. zone \in 0 .. NrZones - 1
      BY <3>2
    <3> QED BY <3>1, <3>3 DEF Zones
  <2> HIDE DEF pc, zone
  <2>4. [[p[q] EXCEPT !.pc = pc] EXCEPT !.zone = zone] \in ProcRecord
    BY <1>1, <2>3 DEF ProcRecord
  <2>5. p' \in [Procs -> ProcRecord]
    BY <1>1, <2>2, <2>4 DEF ProcsOk
  <2>6. AskOk' /\ KswapdOk'
    BY <2>1 DEF TypeInv, AskOk, KswapdOk, LoopOk, askVars
  <2> QED BY <1>1, <1>4, <2>1, <2>5, <2>6 DEF TypeInv, ProcsOk
<1>11. CASE PokeFirst(q)
  BY <1>11, PokeKeeps DEF PokeFirst, ProcPcs
<1>12. CASE PokeAgain(q)
  <2>1. PICK pc \in {"leave", "doze"} : Poke(q, pc)
    BY <1>12 DEF PokeAgain
  <2>2. pc \in ProcPcs
    BY DEF ProcPcs
  <2> QED BY <2>1, <2>2, PokeKeeps
<1>13. CASE EnterWait(q)
  <2>1. /\ UNCHANGED <<zoneVars, askVars, kswapdVars>> /\ ProcTo(q, "test")
        /\ waiting' \subseteq waiting \cup {q} /\ dozing' \subseteq dozing \cup {q}
    BY <1>13 DEF EnterWait
  <2>2. p' \in [Procs -> ProcRecord]
    BY <1>1, <2>1, ProcToKeeps DEF ProcPcs
  <2> QED BY <1>1, <1>3, <1>4, <2>1, <2>2 DEF TypeInv, ProcsOk
<1>14. CASE FinishWait(q)
  <2>1. /\ UNCHANGED <<zoneVars, askVars, kswapdVars>>
        /\ waiting' = waiting \ {q} /\ dozing' = dozing \ {q}
    BY <1>14 DEF FinishWait
  <2> DEFINE pc == IF p[q].killed THEN "dying" ELSE "reclaim"
  <2>2. p' = [p EXCEPT ![q] = [[p[q] EXCEPT !.pc = pc] EXCEPT !.over = FALSE]]
    BY <1>1, <1>14 DEF FinishWait, ProcsOk, ProcRecord
  <2>3. pc \in ProcPcs
    BY DEF ProcPcs
  <2> HIDE DEF pc
  <2>4. [[p[q] EXCEPT !.pc = pc] EXCEPT !.over = FALSE] \in ProcRecord
    BY <1>1, <2>3 DEF ProcRecord
  <2>5. p' \in [Procs -> ProcRecord]
    BY <1>1, <2>2, <2>4 DEF ProcsOk
  <2> QED BY <1>1, <1>3, <1>4, <2>1, <2>5 DEF TypeInv, ProcsOk
<1>15. CASE DirectReclaim(q)
  <2>1. PICK z \in 0 .. p[q].cz : ShrinkZone(z)
    BY <1>15 DEF DirectReclaim
  <2>2. z \in Zones
    BY <1>1, ZoneNumbers
  <2>3. ZonesOk'
    BY <2>1, <2>2, ShrinkKeeps DEF TypeInv
  <2>4. ProcTo(q, "get") /\ UNCHANGED <<askVars, kswapdVars, waiting, dozing>>
    BY <1>15 DEF DirectReclaim
  <2>5. p' \in [Procs -> ProcRecord]
    BY <1>1, <2>4, ProcToKeeps DEF ProcPcs
  <2> QED BY <1>1, <1>3, <2>3, <2>4, <2>5 DEF TypeInv, ProcsOk
<1>16. CASE Allocate(q)
  <2>1. PICK order \in 0 .. MaxOrder, cz \in Classzones, fs \in FsModes :
          p' = [p EXCEPT ![q] = [@ EXCEPT !.pc = "fast", !.order = order, !.zone = cz,
                                          !.cz = cz, !.fs = fs]]
    BY <1>16 DEF Allocate
  <2>2. cz \in Zones /\ fs \in BOOLEAN /\ "fast" \in ProcPcs
    BY ZoneNumbers, KswapdAssumption DEF ProcPcs
  <2>3. [p[q] EXCEPT !.pc = "fast", !.order = order, !.zone = cz, !.cz = cz, !.fs = fs]
          \in ProcRecord
    BY <1>1, <2>2 DEF ProcRecord
  <2>4. p' \in [Procs -> ProcRecord]
    BY <1>1, <2>1, <2>3 DEF ProcsOk
  <2>5. UNCHANGED <<zoneVars, askVars, kswapdVars, waiting, dozing>>
    BY <1>16 DEF Allocate
  <2> QED BY <1>1, <1>3, <1>4, <2>4, <2>5 DEF TypeInv, ProcsOk
<1>17. CASE Timeout(q) \/ Kill(q)
  <2>1. UNCHANGED <<zoneVars, askVars, kswapdVars, waiting>> /\ dozing' = dozing \ {q}
    BY <1>17 DEF Timeout, Kill
  <2>2. p' = [p EXCEPT ![q].over = TRUE] \/ p' = [p EXCEPT ![q].killed = TRUE]
    BY <1>17 DEF Timeout, Kill
  <2>3. [p[q] EXCEPT !.over = TRUE] \in ProcRecord /\ [p[q] EXCEPT !.killed = TRUE] \in ProcRecord
    BY <1>1 DEF ProcRecord
  <2>4. \/ p' = [p EXCEPT ![q] = [p[q] EXCEPT !.over = TRUE]]
        \/ p' = [p EXCEPT ![q] = [p[q] EXCEPT !.killed = TRUE]]
    BY <2>2
  <2>5. p' \in [Procs -> ProcRecord]
    BY <1>1, <2>3, <2>4 DEF ProcsOk
  <2> QED BY <1>1, <1>3, <1>4, <2>1, <2>5 DEF TypeInv, ProcsOk
<1>18. CASE Exit(q)
  <2>1. PICK f \in [Zones -> 0 .. Size] : (\A z \in Zones : f[z] >= free[z]) /\ Freed(f)
    BY <1>18 DEF Exit
  <2>2. ZonesOk'
    BY <2>1, FreedKeeps DEF TypeInv
  <2>3. Idle \in ProcRecord
    <3>1. 0 \in 0 .. MaxOrder
      BY KswapdAssumption
    <3> QED BY <3>1, ZoneNumbers DEF Idle, ProcRecord, ProcPcs
  <2>4. p' = [p EXCEPT ![q] = Idle] /\ UNCHANGED <<askVars, kswapdVars, waiting, dozing>>
    BY <1>18 DEF Exit
  <2>5. p' \in [Procs -> ProcRecord]
    BY <1>1, <2>3, <2>4 DEF ProcsOk
  <2> QED BY <1>1, <1>3, <2>2, <2>4, <2>5 DEF TypeInv, ProcsOk
<1> QED BY <1>6, <1>7, <1>8, <1>9, <1>10, <1>11, <1>12, <1>13, <1>14, <1>15, <1>16, <1>17,
           <1>18 DEF ProcStep
\* A step of kswapd outside of the loop that only moves it.
LEMMA GotoKeeps ==
  ASSUME KswapdOk, NEW pc \in KswapdPcs, Goto(pc),
         pc \in {"find", "shrink", "unthrottle", "again"} => k.priority > 0, pc # "shrink"
  PROVE  KswapdOk'
<1>1. k' = [k EXCEPT !.pc = pc] /\ k \in KswapdRecord
  BY DEF Goto, KswapdOk
<1>2. k' \in KswapdRecord
  BY <1>1 DEF KswapdRecord
<1>3. k'.pc = pc /\ k'.priority = k.priority
  BY <1>1 DEF KswapdRecord
<1> QED BY <1>2, <1>3 DEF KswapdOk, LoopOk

\* The walk goes on with the next zone, or ends at end_zone.
LEMMA NextZoneKeeps ==
  ASSUME Powers, KswapdOk, At("shrink"), NEW raise \in BOOLEAN, NEW got \in Int,
         k' = NextZone(k.at, raise, got)
  PROVE  KswapdOk'
<1> DEFINE pc == IF k.at = k.end THEN "unthrottle" ELSE "shrink"
           at == k.at + 1
           sum == Least(k.got + got, 2 * 2^MaxOrder)
<1>1. /\ k \in KswapdRecord /\ k.at \in Nat /\ k.end \in Nat /\ k.at <= k.end
      /\ k.priority > 0 /\ k.got \in Int
  <2>1. k \in KswapdRecord /\ k.at \in Nat /\ k.end \in Zones /\ k.got \in Int
    BY DEF KswapdOk, KswapdRecord
  <2> QED BY <2>1, KswapdAssumption DEF KswapdOk, LoopOk, At, Zones
<1>2. pc \in KswapdPcs /\ at \in Nat
  BY <1>1 DEF KswapdPcs
<1>3. sum \in Int
  <2> DEFINE n == 2^MaxOrder
  <2>1. n \in Nat
    BY KswapdAssumption DEF Powers
  <2>2. sum = Least(k.got + got, 2 * n)
    OBVIOUS
  <2> HIDE DEF n, sum
  <2> QED BY <1>1, <2>1, <2>2 DEF Least
<1>4. pc = "shrink" => at <= k.end
  BY <1>1
<1>5. pc \in {"unthrottle", "shrink"}
  OBVIOUS
<1>6. k' = [k EXCEPT !.pc = pc, !.at = at, !.raise = raise, !.got = sum]
  BY <1>1 DEF NextZone, KswapdRecord
<1> HIDE DEF pc, at, sum
<1>7. k' \in KswapdRecord
  BY <1>1, <1>2, <1>3, <1>6 DEF KswapdRecord
<1>8. k'.pc = pc /\ k'.at = at /\ k'.end = k.end /\ k'.priority = k.priority
  BY <1>1, <1>6 DEF KswapdRecord
<1> QED BY <1>1, <1>4, <1>5, <1>7, <1>8 DEF KswapdOk, LoopOk

LEMMA KswapdTypes ==
  ASSUME Powers, TypeInv, KswapdStep
  PROVE  TypeInv'
<1>1. /\ ZonesOk /\ AskOk /\ KswapdOk /\ ProcsOk /\ k \in KswapdRecord /\ LoopOk
      /\ k.pc \in KswapdPcs /\ k.order \in 0 .. MaxOrder /\ k.newOrder \in 0 .. MaxOrder
      /\ k.zone \in Zones /\ k.newZone \in Zones /\ k.balanced \in 0 .. MaxOrder
      /\ k.balancedZone \in Zones /\ k.end \in Zones /\ k.at \in Nat
      /\ k.priority \in 0 .. DefPriority /\ k.raise \in BOOLEAN
  BY DEF TypeInv, KswapdOk, KswapdRecord
<1>2. DefPriority \in Nat \ {0} /\ 0 \in 0 .. MaxOrder
  BY KswapdAssumption
\* Most steps change kswapd's record alone.
<1>3. ASSUME KswapdOk', UNCHANGED <<zoneVars, askVars, procVars>>
      PROVE  TypeInv'
  BY <1>1, <1>3 DEF TypeInv, ZonesOk, AskOk, ProcsOk, zoneVars, askVars, procVars
<1>4. ASSUME NEW pc \in KswapdPcs \ {"find", "shrink", "unthrottle", "again"}, Goto(pc)
      PROVE  KswapdOk'
  BY <1>1, <1>4, GotoKeeps
\* A record outside of the loop.
<1>5. ASSUME k' \in KswapdRecord, k'.pc \notin {"find", "shrink", "unthrottle", "again"}
      PROVE  KswapdOk'
  BY <1>5 DEF KswapdOk, LoopOk
<1>6. CASE KswapdLoop
  <2>1. CASE k' = [k EXCEPT !.pc = "clear", !.newOrder = maxOrder, !.newZone = reqZone]
    <3>1. k' \in KswapdRecord
      BY <1>1, <2>1 DEF KswapdRecord, KswapdPcs, AskOk
    <3>2. k'.pc = "clear"
      BY <1>1, <2>1 DEF KswapdRecord
    <3> QED BY <1>3, <1>5, <1>6, <3>1, <3>2 DEF KswapdLoop
  <2>2. CASE k' = [k EXCEPT !.pc = "decide"]
    <3>1. k' \in KswapdRecord
      BY <1>1, <2>2 DEF KswapdRecord, KswapdPcs
    <3>2. k'.pc = "decide"
      BY <1>1, <2>2 DEF KswapdRecord
    <3> QED BY <1>3, <1>5, <1>6, <3>1, <3>2 DEF KswapdLoop
  <2> QED BY <1>6, <2>1, <2>2 DEF KswapdLoop
<1>7. CASE ClearRequest
  <2>1. PICK pc \in {"decide", "balance"} : Goto(pc)
    BY <1>7 DEF ClearRequest
  <2>2. KswapdOk'
    BY <1>4, <2>1 DEF KswapdPcs
  <2>3. AskOk'
    BY <1>2, <1>7, ZoneNumbers DEF ClearRequest, AskOk
  <2> QED BY <1>1, <1>7, <2>2, <2>3 DEF ClearRequest, TypeInv, ZonesOk, ProcsOk, zoneVars, procVars
<1>8. CASE Decide
  <2>1. CASE k' = [k EXCEPT !.pc = "balance", !.order = k.newOrder, !.zone = k.newZone]
    <3>1. k' \in KswapdRecord
      BY <1>1, <2>1 DEF KswapdRecord, KswapdPcs
    <3>2. k'.pc = "balance"
      BY <1>1, <2>1 DEF KswapdRecord
    <3> QED BY <1>3, <1>5, <1>8, <3>1, <3>2 DEF Decide
  <2>2. CASE k' = [k EXCEPT !.pc = "prepare"]
    <3>1. k' \in KswapdRecord
      BY <1>1, <2>2 DEF KswapdRecord, KswapdPcs
    <3>2. k'.pc = "prepare"
      BY <1>1, <2>2 DEF KswapdRecord
    <3> QED BY <1>3, <1>5, <1>8, <3>1, <3>2 DEF Decide
  <2> QED BY <1>8, <2>1, <2>2 DEF Decide
<1>9. CASE PrepareToWait
  <2>1. PICK pc \in {"unblock", "unblockagain"} : Goto(pc)
    BY <1>9 DEF PrepareToWait
  <2>2. KswapdOk'
    BY <1>4, <2>1 DEF KswapdPcs
  <2> QED BY <1>3, <1>9, <2>2 DEF PrepareToWait
<1>10. CASE Unblock
  <2>1. PICK pc \in {"ready", "readyagain"} : Goto(pc)
    BY <1>10 DEF Unblock
  <2>2. KswapdOk'
    BY <1>4, <2>1 DEF KswapdPcs
  <2>3. ProcsOk'
    BY <1>1, <1>10 DEF Unblock, WakeUpAll, ProcsOk, procVars
  <2> QED BY <1>1, <1>10, <2>2, <2>3 DEF Unblock, TypeInv, ZonesOk, AskOk, zoneVars, askVars
<1>11. CASE Ready
  <2>1. PICK pc \in {"unblockagain", "finish", "nap", "sleep"} : Goto(pc)
    BY <1>11 DEF Ready
  <2>2. KswapdOk'
    BY <1>4, <2>1 DEF KswapdPcs
  <2> QED BY <1>3, <1>11, <2>2 DEF Ready
<1>12. CASE Nap
  <2>1. k' = [k EXCEPT !.pc = "prepareagain", !.remaining = TRUE] \/ k' = [k EXCEPT !.pc = "prepareagain"]
    BY <1>12 DEF Nap, Goto
  <2>2. k' \in KswapdRecord
    <3>1. [k EXCEPT !.pc = "prepareagain", !.remaining = TRUE] \in KswapdRecord
      BY <1>1 DEF KswapdRecord, KswapdPcs
    <3>2. [k EXCEPT !.pc = "prepareagain"] \in KswapdRecord
      BY <1>1 DEF KswapdRecord, KswapdPcs
    <3> QED BY <2>1, <3>1, <3>2
  <2>3. k'.pc = "prepareagain"
    BY <1>1, <2>1 DEF KswapdRecord
  <2> QED BY <1>3, <1>5, <1>12, <2>2, <2>3 DEF Nap
<1>13. CASE Premature \/ Sleep
  <2>1. Goto("finish") /\ UNCHANGED <<zoneVars, askVars, procVars>>
    BY <1>13 DEF Premature, Sleep
  <2>2. KswapdOk'
    BY <1>4, <2>1 DEF KswapdPcs
  <2> QED BY <1>3, <2>1, <2>2
<1>14. CASE Finish
  <2>1. k' = [k EXCEPT !.pc = "clearwoken", !.remaining = FALSE, !.order = maxOrder,
                       !.newOrder = maxOrder, !.zone = reqZone, !.newZone = reqZone]
    BY <1>14 DEF Finish
  <2>2. k' \in KswapdRecord
    BY <1>1, <2>1 DEF KswapdRecord, KswapdPcs, AskOk
  <2>3. k'.pc = "clearwoken"
    BY <1>1, <2>1 DEF KswapdRecord
  <2> QED BY <1>3, <1>5, <1>14, <2>2, <2>3 DEF Finish
<1>15. CASE BalancePgdat
  <2>1. k' = [k EXCEPT !.pc = "find", !.balanced = k.order, !.balancedZone = k.zone,
                       !.priority = DefPriority]
    BY <1>15 DEF BalancePgdat
  <2>2. DefPriority \in 0 .. DefPriority
    BY <1>2
  <2>3. k' \in KswapdRecord
    BY <1>1, <2>1, <2>2 DEF KswapdRecord, KswapdPcs
  <2>4. k'.pc = "find" /\ k'.priority = DefPriority
    BY <1>1, <2>1 DEF KswapdRecord
  <2>5. KswapdOk'
    BY <1>2, <2>3, <2>4 DEF KswapdOk, LoopOk
  <2> QED BY <1>3, <1>15, <2>5 DEF BalancePgdat
<1>16. CASE FindEndZone
  <2>1. CASE Goto("out")
    <3>1. KswapdOk'
      BY <1>4, <2>1 DEF KswapdPcs
    <3> QED BY <1>3, <1>16, <3>1 DEF FindEndZone
  <2>2. CASE ~Goto("out")
    <3>1. PICK end \in Zones :
            k' = [k EXCEPT !.pc = "shrink", !.end = end, !.at = 0, !.got = 0, !.raise = TRUE,
                    !.compact = /\ k.balanced > 0
                                /\ \A z \in 0 .. end : ~ WatermarkOk(z, k.balanced, Low, k.balancedZone)]
      BY <1>16, <2>2 DEF FindEndZone
    <3> DEFINE c == /\ k.balanced > 0
                    /\ \A z \in 0 .. end : ~ WatermarkOk(z, k.balanced, Low, k.balancedZone)
    <3>2. k' = [k EXCEPT !.pc = "shrink", !.end = end, !.at = 0, !.got = 0, !.raise = TRUE,
                         !.compact = c]
      BY <3>1
    <3>3. c \in BOOLEAN
      OBVIOUS
    <3> HIDE DEF c
    <3>4. k' \in KswapdRecord
      <4> DEFINE q == [k EXCEPT !.pc = "shrink", !.end = end]
                 zero == 0
                 r == [q EXCEPT !.at = zero, !.got = zero]
      <4>1. q \in KswapdRecord
        BY <1>1 DEF KswapdRecord, KswapdPcs
      <4>2. k' = [r EXCEPT !.raise = TRUE, !.compact = c]
        BY <1>1, <3>2 DEF KswapdRecord
      <4>3. zero \in Nat /\ zero \in Int
        OBVIOUS
      <4> HIDE DEF q, zero
      <4>4. r \in KswapdRecord
        BY <4>1, <4>3 DEF KswapdRecord
      <4> HIDE DEF r
      <4>5. [r EXCEPT !.raise = TRUE, !.compact = c] \in KswapdRecord
        BY <3>3, <4>4 DEF KswapdRecord
      <4> QED BY <4>2, <4>5
    <3>5. k'.pc = "shrink" /\ k'.end = end /\ k'.at = 0 /\ k'.priority = k.priority
      BY <1>1, <3>2 DEF KswapdRecord
    <3>6. k.priority > 0 /\ 0 <= end
      <4>1. k.pc = "find"
        BY <1>16 DEF FindEndZone, At
      <4>2. end \in 0 .. NrZones - 1 /\ NrZones \in Nat
        BY ZoneNumbers DEF Zones
      <4> QED BY <1>1, <4>1, <4>2 DEF LoopOk
    <3>7. KswapdOk'
      BY <3>4, <3>5, <3>6 DEF KswapdOk, LoopOk
    <3> QED BY <1>3, <1>16, <3>7 DEF FindEndZone
  <2> QED BY <2>1, <2>2
<1>17. CASE SkipZone
  <2>1. KswapdOk'
    BY <1>1, <1>17, NextZoneKeeps DEF SkipZone
  <2> QED BY <1>3, <1>17, <2>1 DEF SkipZone
<1>18. CASE KswapdShrinkZone
  <2>1. /\ At("shrink") /\ UNCHANGED <<askVars, procVars>>
    BY <1>18 DEF KswapdShrinkZone
  <2>2. k.at \in Zones
    BY <1>1, <2>1, KswapdAssumption DEF At, LoopOk, Zones
  <2>3. CASE k' = NextZone(k.at, FALSE, 0) /\ UNCHANGED zoneVars
    <3> DEFINE raise == FALSE
               got == 0
    <3>1. k' = NextZone(k.at, raise, got) /\ raise \in BOOLEAN /\ got \in Int
      BY <2>3
    <3> HIDE DEF raise, got
    <3>2. KswapdOk'
      BY <1>1, <2>1, <3>1, NextZoneKeeps
    <3> QED BY <1>3, <2>1, <2>3, <3>2
  <2>4. CASE /\ ShrinkZone(k.at)
             /\ k' \in {NextZone(k.at, raise, free'[k.at] - free[k.at]) : raise \in {k.raise, FALSE}}
    <3>1. ZonesOk' /\ free'[k.at] \in Int
      BY <1>1, <2>2, <2>4, ShrinkKeeps
    <3>2. free'[k.at] - free[k.at] \in Int
      BY <1>1, <2>2, <3>1 DEF ZonesOk
    <3>3. PICK raise \in {k.raise, FALSE} : k' = NextZone(k.at, raise, free'[k.at] - free[k.at])
      BY <2>4
    <3>4. raise \in BOOLEAN
      BY <1>1
    <3>5. KswapdOk'
      BY <1>1, <2>1, <3>2, <3>3, <3>4, NextZoneKeeps
    <3> QED BY <1>1, <2>1, <3>1, <3>5 DEF TypeInv, AskOk, ProcsOk, askVars, procVars
  <2> QED BY <1>18, <2>3, <2>4 DEF KswapdShrinkZone
<1>19. CASE UnthrottleOrNot
  <2>1. KswapdOk'
    BY <1>1, <1>19, GotoKeeps DEF UnthrottleOrNot, At, LoopOk, KswapdPcs
  <2>2. ProcsOk'
    BY <1>1, <1>19 DEF UnthrottleOrNot, WakeUpAll, ProcsOk, procVars
  <2> QED BY <1>1, <1>19, <2>1, <2>2
          DEF UnthrottleOrNot, TypeInv, ZonesOk, AskOk, zoneVars, askVars
<1>20. CASE LoopOrOut
  <2> DEFINE pc == IF PriorityLeft /\ ~ PgdatBalanced(DropOrder, k.balancedZone) THEN "find" ELSE "out"
  <2>1. k' = [k EXCEPT !.balanced = DropOrder, !.priority = PriorityNext, !.pc = pc]
    BY <1>20 DEF LoopOrOut
  <2>2. DropOrder \in 0 .. MaxOrder
    BY <1>1, <1>2 DEF DropOrder
  <2>3. k.priority > 0
    BY <1>1, <1>20 DEF LoopOrOut, At, LoopOk
  <2>4. PriorityNext \in 0 .. DefPriority
    BY <1>1, <1>2, <2>3 DEF PriorityNext
  <2>5. pc \in {"find", "out"} /\ (pc = "find" => PriorityNext >= 1)
    BY DEF PriorityLeft
  <2> HIDE DEF pc
  <2>6. pc \in KswapdPcs
    BY <2>5 DEF KswapdPcs
  <2>7. k' \in KswapdRecord
    BY <1>1, <2>1, <2>2, <2>4, <2>6 DEF KswapdRecord
  <2>8. k'.pc = pc /\ k'.priority = PriorityNext
    BY <1>1, <2>1 DEF KswapdRecord
  <2>9. KswapdOk'
    BY <2>4, <2>5, <2>7, <2>8 DEF KswapdOk, LoopOk
  <2>10. ZonesOk'
    <3>1. UNCHANGED <<free, dead>>
      BY <1>20 DEF LoopOrOut
    <3>2. large' \subseteq {z \in Zones : free[z] >= 2}
      BY <1>1, <1>20 DEF LoopOrOut, Compact, ZonesOk
    <3> QED BY <1>1, <3>1, <3>2 DEF ZonesOk
  <2> QED BY <1>1, <1>20, <2>9, <2>10 DEF LoopOrOut, TypeInv, AskOk, ProcsOk, askVars, procVars
<1>21. CASE BalanceReturns
  <2>1. k' = [k EXCEPT !.pc = "loop", !.balancedZone = k.end, !.at = 0, !.end = 0,
                       !.priority = 0, !.got = 0, !.raise = FALSE, !.compact = FALSE]
    BY <1>21 DEF BalanceReturns
  <2>2. 0 \in 0 .. DefPriority
    BY <1>2
  <2>3. k' \in KswapdRecord
    <3> DEFINE r == [k EXCEPT !.pc = "loop", !.balancedZone = k.end, !.at = 0, !.end = 0]
               zero == 0
               q == [r EXCEPT !.priority = zero, !.got = zero]
    <3>1. r \in KswapdRecord
      BY <1>1, ZoneNumbers DEF KswapdRecord, KswapdPcs
    <3>2. k' = [q EXCEPT !.raise = FALSE, !.compact = FALSE]
      BY <1>1, <2>1 DEF KswapdRecord
    <3>3. zero \in 0 .. DefPriority /\ zero \in Int
      BY <2>2
    <3> HIDE DEF r, zero
    <3>4. q \in KswapdRecord
      BY <3>1, <3>3 DEF KswapdRecord
    <3> HIDE DEF q
    <3>5. [q EXCEPT !.raise = FALSE, !.compact = FALSE] \in KswapdRecord
      BY <3>4 DEF KswapdRecord
    <3> QED BY <3>2, <3>5
  <2>4. k'.pc = "loop"
    BY <1>1, <2>1 DEF KswapdRecord
  <2> QED BY <1>3, <1>5, <1>21, <2>3, <2>4 DEF BalanceReturns
<1> QED BY <1>6, <1>7, <1>8, <1>9, <1>10, <1>11, <1>12, <1>13, <1>14, <1>15, <1>16, <1>17,
           <1>18, <1>19, <1>20, <1>21 DEF KswapdStep

\* No allocation takes a page that a zone does not have, however requests, kswapd, direct
\* reclaim and exits interleave; a zone with a larger block has the pages for it; and
\* balance_pgdat() does not go round again with its priority spent.
THEOREM TypeCorrect ==
  ASSUME Powers
  PROVE  Spec => []TypeOK
<1>1. Init => TypeInv
  <2> SUFFICES ASSUME Init
               PROVE  TypeInv
    OBVIOUS
  <2>1. 0 \in 0 .. MaxOrder /\ 0 \in 0 .. DefPriority
    BY KswapdAssumption
  <2>2. Start \in KswapdRecord /\ Start.pc = "loop"
    BY <2>1, ZoneNumbers DEF Start, KswapdRecord, KswapdPcs
  <2>3. Idle \in ProcRecord
    BY <2>1, ZoneNumbers DEF Idle, ProcRecord, ProcPcs
  <2>4. ZonesOk
    BY DEF Init, ZonesOk
  <2>5. KswapdOk
    BY <2>2 DEF Init, KswapdOk, LoopOk
  <2>6. AskOk /\ ProcsOk
    BY <2>1, <2>3, ZoneNumbers DEF Init, AskOk, ProcsOk
  <2> QED BY <2>4, <2>5, <2>6 DEF TypeInv
<1>2. TypeInv /\ [Next]_vars => TypeInv'
  <2> SUFFICES ASSUME TypeInv, [Next]_vars
               PROVE  TypeInv'
    OBVIOUS
  <2>1. CASE UNCHANGED vars
    BY <2>1 DEF vars, zoneVars, askVars, kswapdVars, procVars, TypeInv, ZonesOk, AskOk,
                KswapdOk, LoopOk, ProcsOk
  <2> QED BY <2>1, KswapdTypes, ProcTypes DEF Next
<1>3. TypeInv => TypeOK
  BY DEF TypeInv, ZonesOk, AskOk, KswapdOk, ProcsOk, KswapdRecord, LoopOk, TypeOK
<1> QED BY <1>1, <1>2, <1>3, PTL DEF Spec
=============================================================================
