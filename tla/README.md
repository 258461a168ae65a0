# Verification of MegaVM and its experiments

The repository explores sharing memory between machines over Infiniband. It holds two
kernel modules that exchange one buffer over RDMA (`client/`, `server/`), an experiment
that logs which swap entries leave and enter memory (`SharedPageExperiment/`), and a module
that exchanges the heaps of two processes (`heap copy/`). This directory holds TLA+ models
of the parts with logic of their own, TLC configurations that check small instances, and
proofs for TLAPS.

Source paths below are relative to the repository. *Client* and *server* are
`client/megaVM_client.c` and `server/megaVM_server.c`.

## 1. The system

### The two modules and what they share

Each module runs three activities at once, and all three share one `struct ib_context`:

| activity | code | what it does to the shared state |
|---|---|---|
| main thread (the `insmod`) | client `megaVM_doit`, server `initialisation` | sets up and tears down; sleeps in `wait_event_interruptible(context->sem, context->state >= X)` |
| connection callback | `megaVM_cma_event_handler` | one rdma_cm event at a time: writes `state`, then wakes the thread |
| completion callback | `megaVM_cq_event_handler` | arms the completion queue, polls it, writes `state`, posts the next receive, wakes the thread |

There is no lock. `state` is an enum whose *order* matters, because every wait compares it
with `>=`; two callbacks and (on the client) the main thread write it.

A session: the client resolves the server's address, sets up a queue pair and its buffers
and connects. The server, which listens, accepts. The client fills `start_buf`, advertises
it in a message and sleeps. The server reads the buffer and writes what it read back, ten
times, sends a "go ahead" and disconnects. Both give everything back; nothing outlives the
init functions except what leaks.

The modules interact through the RDMA stack only: two reliable queue pairs, each with a
completion queue, and two connection managers that exchange request, answer and
disconnection. The stack is not part of the repository and is modelled from how the two
programs use it.

### The shared page experiment and the kernel around it

`SharedPageExperiment/kernelFiles` holds Linux's `memory.c`, `vmscan.c` and `swap.h` with two
hooks: `do_swap_page` records the swap entry of every fault on a swapped page and copies
every hundredth page, `shrink_page_list` does the same with pages that leave. `pteExp.c`
evaluates what was recorded. The hooks have no lock of their own; they run under whatever
lock the function around them holds. What a recorded entry or a copied page means depends
on the paths that carry the hooks: page faults and reclaim, which share page table entries,
page references, page locks, the swap cache and the translations CPUs hold, and which take
decisions on state they read before they slept. `kswapd` drives reclaim in the
background; allocators wake it, and sleep until it wakes them.

### Inventory

| component | state | operations | what makes it hard | what makes it correct |
|---|---|---|---|---|
| client main thread | where it is, what it allocated | address, queue pair, buffers, connect, advertise, wait, teardown by `err` labels | runs against both callbacks; a state written over an `ERROR` | ends; gives back what it took; never misses a wake-up |
| server main thread | the same, and the loop counter | listen, queue pair, buffers, accept, rounds of read and write, go-ahead, teardown | waits that are already satisfied by the state of the round before; `bind_server` leaving past the labels | data before go-ahead; ends; gives back |
| connection callback | what is left to do of the event | the twelve events | publishes the state before `child_cm_id`, before the wake-up | wakes whoever waits |
| completion callback | what is left to do of the completion | arm, poll, receive, repost, wake, fail | goes deaf in `ERROR`; reposts on a queue pair the thread may have destroyed | loses no completion |
| `struct ib_context` | `state`, `sem`, advertised address, `child_cm_id` | set, wake, wait | order of the enum | falls back only where nobody waits |
| RDMA stack (external) | queue pairs, queues, connection | post, transmit, complete, flush, connect, disconnect | flush and completion order; reads overtaken by later requests | - |
| session | both sides | - | all of the above at once | the client's buffer keeps the ping, nothing touches it after the go-ahead |
| swap entry log | rows, cursor | `addInArray`, allocation on first use | off-by-one guard; runs unlocked in many threads | keeps entries in order while calls do not overlap; the cursor never leaves the log by more than a row |
| page content store | slots, counter | copy of every hundredth page | copied after `unlock_page`; counter protected only by the lock of the page table | a slot holds one page and its entry |
| comparison of the logs | indices | `compTwoArrays`, `init_module` of `pteExp.c` | cursors, early exits, slots never filled | counts what is in both logs; a match is one |
| swap and reclaim paths | page table entry and its lock, cached translations, pages, swap entries | `do_anonymous_page`, `do_swap_page`, `do_wp_page`, fork, zap, `shrink_page_list` and its callees | every value is read before a lock is dropped and used after it is taken again; lockless reference counts; batched flushes | memory holds what was written last |
| kswapd and the throttle | zones, request fields of the node, two wait queues | `kswapd`, `balance_pgdat`, `wakeup_kswapd`, `throttle_direct_reclaim` | each side looks at the other's queue without its lock | nobody is forgotten in the throttle; kswapd comes to rest |
| heap copy | bytes of two heaps | `init_module` of `file_fault.c` | returns half way with locks held; both processes write meanwhile | a completed run is an exchange |

`PROJECT.json` lists the hazards of this code with the line where each bites.

## 2. Modules

| module | models | EXTENDS |
|---|---|---|
| `IbContext` | `struct ib_context`, `enum test_state`, the wait queue, signals; declares all variables of a session | |
| `IbVerbs` | the RDMA stack: `PostSend`, `PostRecv`, adapters, connection managers | `IbContext` |
| `MegaVMHandlers` | both callbacks, for both sides | `IbVerbs` |
| `MegaVMResources` | the main-thread steps both programs share: set-up of buffers, disconnect, teardown | `MegaVMHandlers` |
| `MegaVMClient`, `MegaVMServer` | the two main threads | `MegaVMResources` |
| `MegaVM` | the composition, fairness, all properties | both |
| `PingPong` | the abstract specification of a session | |
| `MCMegaVM` | the sets of faults the runs allow | `MegaVM` |
| `MegaVMProofs` | theorems about `MegaVM`: types, wake-ups, queues and what is left behind, whatever fails; then what holds where no wait is cut short | `MegaVM` |
| `PingPongProofs` | a session implements `PingPong` | `MegaVMProofs` |
| `PteLog` | the swap entry log in one thread | |
| `SwapHooks`, `MCSwapHooks`, `SwapHooksProofs` | the hook of `do_swap_page` in many threads: log and page content store; it instantiates `PteLog` | |
| `LogCompare`, `MCLogCompare`, `LogCompareProofs` | the experiment: two logs and their hooks, and the module that evaluates them; theorems about `PteLog` and about the comparison | `PteLog`, for the log of swap-ins; it instantiates it for that of swap-outs |
| `SwapMemory` | what faults and reclaim share, and the helpers of the kernel the repository does not hold | |
| `SwapFault`, `SwapReclaim` | page faults, fork, zap; reclaim | `SwapMemory` |
| `SwapSystem` | both together, the disk, a driver; fairness and properties | both |
| `SwapSystemProofs`, `SwapContentProofs` | theorems about `SwapSystem`: counts, locks and translations; what memory holds | `SwapSystem`, and the one before |
| `AnonMemory` | the abstract specification of anonymous memory | |
| `MCSwap` | who is in which address space, and who forks | `SwapSystem` |
| `Kswapd`, `MCKswapd`, `KswapdProofs` | kswapd, the allocators it serves, the throttle | |
| `HeapCopy`, `MCHeapCopy`, `HeapCopyProofs` | the heap copy | |

### How state and actions correspond to the code

* `pc[s]` names the next call of side `s`'s main thread; the labels follow the call
  sequence of `megaVM_run_client`/`megaVM_StartServer` and the functions they call. One
  action is one call into the stack, or one look at `state`. Each
  `wait_event_interruptible` is its own action (`WaitEvent`): go on when the condition holds
  or a signal is pending, else join `asleep`; a wake-up takes the thread out of `asleep`
  and it looks again. The check of the state after a wait is a separate action, as the
  state may change between the two.
* `cmh[s]`, `cqh[s]` are the program counters of the two callbacks, which are cut wherever
  the main thread could see a difference: after the state is published, before
  `child_cm_id` is stored, before and after the repost, before the wake-up, between two
  polls. The callbacks of one side and of one kind never overlap: rdma_cm delivers the
  events of one id in turn and holds a new id back while its request is being handled, and
  the stack runs one completion callback per queue at a time. A connection callback and a
  completion callback of one side do overlap.
* `held[s]` is what side `s` has allocated, by kind. Error paths, with the labels they
  jump to, are disjuncts of the step that fails, allowed by the constant `Faults`. An error
  pointer that a NULL check lets through (`ib_get_dma_mr`, and on the server `ib_alloc_pd`
  and `ib_create_cq`) sends the thread to `oops`.
* `sq[s]` is a send queue, oldest request first. A request is `posted`, a read also
  `fetched` (its data on the way), and `done` until it completes in order. A single read may
  be outstanding (`initiator_depth` 1), and since nothing is fenced a write or send behind a
  read may be carried out before the read's data arrives. A send with no posted receive at
  the peer fails (`rnr_retry_count` 0).
* A completion enters `cqe[s]`; if the queue is `armed`, the callback becomes due
  (`cqevent`) and the queue is disarmed. Going to the error state flushes both work queues.
* `conn` is the connection as the two managers see it: `none`, `requested`, `accepted`,
  `established`, `closed`. Events reach a side only while it has the id they are for.
* Contents of buffers are `"junk"` or `"ping"`; `carried`, `misuse` (and `overrun`, `added`
  in `PteLog`) are history variables that no guard reads, except that `PteLog` bounds the
  number of recorded entries by the length of `added`.

In the modules about memory:

* `SwapSystem` follows one anonymous private address in every address space: `pte[m]` is its
  entry, `ptl[m]` the lock of the table where it is held across steps, `tlb[t]` what the CPU
  of thread `t` may access without the table, `mem` the page frames (reference count, lock,
  dirty, writeback, LRU, place in the swap cache) and the swap entries. `fault[t]` is where
  a thread is in the fault handlers, with the locals it carries from one lock to the next
  (the entry it saw, the page it found, the page it allocated); `reclaim` is the same
  for `shrink_page_list`, which works on one page at a time. Steps are cut where a
  lock is dropped, where the code may sleep, and between the lockless tests of reference
  counts. `handle_pte_fault` and `do_wp_page` are each one step with the lock held.
* `SwapHooks` cuts at every access to a shared variable: the test of `firstTime_IN`, each
  `kmalloc`, the read of the cursor, its move, the store, and two halves of the loop that
  copies a page. `hook[t]` holds what a compiler at -O2 keeps in registers during a call. A
  store to a row that does not exist yet is an oops, which ends the thread.
* `Kswapd` cuts at every access to what kswapd and the allocators share. `queued` and `state`
  are kswapd's place on its wait queue and its task state, `waiting` and `dozing` the same for
  the processes in the throttle, so that a wake-up between entering a queue and `schedule()` is
  seen for what it is. `k` and `p[q]` hold program counters and locals; a zone is a number
  of free pages, with the rest reclaimable, plus whether it has a larger block and whether
  it was given up (`zone_reclaimable`).
* `LogCompare` lets the two hooks fill their logs in any order, then runs the nested loops of
  `compTwoArrays` over the rows and cursors they left. A slot that was never stored to, or
  that lies behind the last row, compares either way.
* `HeapCopy` takes a page's look-up, the test of its mapping, and each of the three
  assignments of a byte as steps; the processes may write between any two.

### What the session model leaves out

The printing; the statistics and the fields of the context nothing reads; the parsing of
addresses; the branch for a message of the wrong length (both sides send the one length
there is); `ib_poll_cq` returning an error and opcodes nobody posted; a second client; the
value that the server's `megaVM_init` returns (it has no return statement, so that whether
`insmod` succeeds is undefined; nothing in the session depends on it).

## 3. The abstract specification

`PingPong` has five variables and no threads: a window the client opens and closes, the
buffer, the data on its way, the server's copy, and the number of echoes. The server may
read and write only while the window is open, writes only what the buffer already holds, and
`GoAhead` happens only after `Rounds` echoes. `MegaVM!PP` instantiates it: the window is
open from the moment the client posts its advertisement until its queue pair fails or it
disconnects, the echoes are the writes the client's adapter carried out, and the go-ahead is
the moment the client's adapter takes it in. `ImplementsPingPong` says that every step of
the session is a step of `PingPong` or leaves its variables alone. It needs all of the
above: reads overlap writes in the server's program, and it is only the order of the
queue pair that makes the second echo carry the ping.

`AnonMemory` is what anonymous memory promises a program: an address holds what was written
to it last; a child starts with its parent's memory; memory given back reads as zero. Its only
variable is the content of each address space. `SwapSystem!Anon` instantiates it with
`Contents`, which reads an address the way the hardware and the kernel would: the page, or
the swap cache, or the swap entry. `KeepsMemory` says that a step changes `Contents` only if
it is a write, a fork, an exit or a discard that somebody asked for, and then as `AnonMemory`
says; faults, reclaim, I/O and copies must be stutters. It is an action
property and not `Anon!Spec` so that a step of the kernel cannot pass for a write nobody
made.

`PteLog` is what `SwapHooks` promises as long as no two threads are in the hook at once
(`QuietLogInOrder`).

## 4. Runs

`Rounds` is 10 in the code and 1 or 2 here. Two rounds are what tells first and
later rounds apart: from the second on, the state left over from the round before satisfies
the waits. A third round meets the same states, with more requests outstanding. `TxDepth`
is 64 in the code, where the 21 requests of a session never fill the send queue; 8 is
likewise more than one session posts, and 1 is the tightest queue, where posts are refused.
In each run all interleavings are explored to the end.

| run | instance | distinct states | shows |
|---|---|---|---|
| `session` | 2 rounds, depth 8, stray events for the server | 2.2 M | types; no lost wake-up or completion; no repost on a dead queue pair; nothing leaked, no callback finds its context freed; the client's state never falls back; it implements `PingPong` |
| `session_ends` | 1 round, depth 8, set-up, connect and timeout faults, fairness | 0.3 M | both modules end |
| `session_faults` | 1 round, depth 1, every failure of the stack on both sides (a send of the server is refused only when its queue is full), and a signal for the server | 1.5 M | queues stay within what was asked for, the go-ahead follows the data though no wait holds, only the two known kinds of leak |
| `swap_fork` | 2 address spaces, one forked from the other, 2 frames, 1 swap entry, 2 values | 1.3 M | `KeepsMemory` across fork and exit, swap counts, the page the hook copies is the one that was swapped |
| `swap_threads` | 2 threads of one address space, 2 frames, failing charges and discards | 0.9 M | reference counts, cached translations, no free page reachable, no write lost to I/O, `KeepsMemory` |
| `swap_driver` | 1 thread and a driver that pins the page and writes to it, failing charges and discards, fairness | 0.5 M | `KeepsMemory` with writes the kernel cannot see; every page lock is given back |
| `swap_hooks` | 2 threads, log of 2 by 2, store of 2 slots, 5 records | 3.5 M | the cursor, the log while calls do not overlap, whole slots, oopses only while another thread allocates |
| `log_compare` | two logs of 2 rows of 2 and up to 6 records each; all stores of up to 2 pages in, 3 out | 0.7 M | the logs in order, the one store past their end, the count and the verdict |
| `heap_copy` | 2 pages of 2 bytes, 2 values | 217 k | a completed run exchanges, an early return leaves a prefix, running off the end |
| `kswapd_zones` | 1 process, 2 zones of which one counts for the throttle, fairness | 0.4 M | types; the process does not sleep in the throttle while kswapd sleeps; the throttle ends |
| `kswapd_orders` | 1 process asking for 1 or 2 pages with and without `__GFP_FS`, 1 zone of 4, fairness | 0.3 M | kswapd comes to rest |
| `copy_is_current` | as `swap_fork`, with both threads in one address space | (violation) | see below |

Two frames and one swap entry are the least with which a copy on write, a page in use under
two addresses and a full swap occur, and the scarcity forces their reuse, which is what stale
locals get wrong; two values tell one write from another. In `swap_hooks` a log of two rows of
two slots has a row change and an end, and five records pass both; the real sizes are 20
by 20000, 1000 slots, one page in a hundred. `DEF_PRIORITY` is 12 in the code: it only bounds
how long kswapd tries, and one or two rounds reach both ends of the loop. Zones have three
or four pages, so that each watermark can be missed, met and passed by the gap.

Deadlock is checked where no step but the end of a session lets it stop (`Over`); runs with
`CHECK_DEADLOCK FALSE` allow faults after which a module really hangs or oopses. One round
is enough for the runs about ends and failures, which concern the edges of a session and
the teardown; it keeps each run within minutes. One process is enough in the runs of `Kswapd`
for what they ask; that any number may wait is what `NobodyForgotten` proves.

`copy_is_current` states what a comment of the code says and ends in a counterexample. It is
the one finding of `PROJECT.json`: "If the pte changed, bail out" (`memory.c` 2162), but
`wp_page_copy` takes an equal entry for an unchanged one. While it copies without the lock,
another thread may make the page writable again and write to it, reclaim unmap it and a
fault map it back with an equal entry; the copy, made before the write, replaces it.

Six further properties state comments that the code contradicts. They have no run of their own;
adding one to the configuration named gives the counterexample within a minute.

| property, configuration | the comment | the code |
|---|---|---|
| `ReadWaitHonoured`, `Session` | "Wait for read completion" (server 661) | from the second round on the wait finds `RDMA_WRITE_COMPLETE`, which is `>= RDMA_READ_COMPLETE`: the write is posted while the read is out |
| `GoAheadOnWriteCompletion`, `Session` | "server sends "go ahead" on rdma write completion" (client 77) | for the same reason the go-ahead is posted with writes outstanding |
| `PongGoesToSink`, `Session` | "server rdma writes "pong" data to sink" (client 76) | the client advertises the source only; the pong is written over the ping |
| `WriteAdvLeadsToWriteComplete`, `SessionEnds` | "they cycle through RDMA_READ_ADV, RDMA_WRITE_ADV, and RDMA_WRITE_COMPLETE" (client 85) | the client disconnects at `RDMA_WRITE_ADV` (under fairness) |
| `ConnectionKnownAfterWait`, `Session` | the sleep in `bind_server` ends when the callback "receives a connection" (server 760) | the state is published before `child_cm_id`, so the thread may use a null id |
| `SleepsBalanced`, `KswapdZones` | "verifies that ... watermarks have been met" (`vmscan.c` 3124), "all zones must be balanced" (3066) | `balance_pgdat` hands back the highest zone that was short, 0 if only the lowest was; only zones up to that one are tested before kswapd sleeps |

Every property of a passing run has a mutant in `PROJECT.json`: a plausible slip in a mapped
definition (an operator whose comment begins with *Mutant of*) under which the same run
finds the property violated.

### What the runs also showed

These are limits of the properties above, found by allowing the fault with TLC.

* With `post` faults a session can hang, because a refused send is only logged and the
  next wait waits for a completion that will not come; and junk can be written to the
  client. Liveness and refinement are claimed without them. A refused receive (`recv`) is
  different: it sets `ERROR`, which ends every wait. `ClientStops` and `ServerStops` hold with
  it too (0.64 M states, four minutes: too long for `session_ends`, which leaves it out).
* When `rdma_resolve_route` fails *at once*, the client is woken with `ADDR_RESOLVED`, sleeps
  again, and is never woken. `ClientStops` is claimed without `resolve` faults.
* With a `timeout`, the id of a connection request can stay behind (`LeaksAreKnown` names
  it), and together with `stray` a callback can then find the context freed.
* The client's callback can post a receive on a destroyed queue pair in a session with no
  fault at all: nothing holds the main thread back once `client_recv` set
  `RDMA_WRITE_ADV`. `ServerRepostsOnLiveQp` is therefore stated for the server.
* A signal to the server breaks `CompletionsNotLost`, `ServerRepostsOnLiveQp` and
  `NothingLeaked` (`LeaksAreKnown` still holds); one to the client breaks `ClientNeverFallsBack`,
  while `ImplementsPingPong` and `NoMissedWakeup` survive it.

And about the experiment and the kernel around it:

* Between reclaim's unmapping and its batched flush, and between a zap and its flush, a CPU
  may read and write a page the table no longer shows (`FlushPending`); `TlbShowsMemory` and the
  second part of `KeepsMemory` say what holds otherwise. A zap of an entry that reclaim has
  replaced flushes nothing itself.
* The test of the dirty flag after reclaim has frozen the count is redundant for pages of the
  swap cache under these paths: dropping it violates nothing here, since `pageout` tested the
  count already.
* `SlotsWhole` needs both threads in one page table. With split page table locks two
  address spaces copy at once and a slot may mix two pages: TLC finds that at once when each
  thread has its own table. It also needs that the store is not allocated a second time,
  which two first calls can do.
* The hook copies a page that other threads of the address space cannot have mapped yet, so the
  copy is of the swapped content; a driver that pinned the page can still change it.
* A driver that pinned a page before a fork writes to both address spaces: nothing copies a
  pinned page at the fork, so `KeepsMemory` is claimed for fork or a driver, not for both.
* With the log full, the cursor stays in the row after the last one; the comparison then reads
  a row that does not exist. `CountIsExact` is a pair of bounds in that case.
* The verdict of `init_module` stops at the first page that matches, and counts as a match
  what lies in slots nobody filled; it can miss a match only if an entry was copied out
  twice with different contents.
* The heap copy holds spinlocks that do not exclude the processes' own writes nor faults;
  a write between two assignments is lost or lands in the other heap (`written`). With equal
  process ids it would lock itself out.
* A request to kswapd made between its reading the node's request fields and its clearing them
  is lost; allocators ask again.
* If nothing in a zone can ever be reclaimed and its scan counter is not past its limit, a throttled
  process and kswapd wake each other for ever: `ThrottleEnds` needs that scans
  free pages in the end.

## 5. Fairness

`FairSpec` adds one condition, `WF_vars(Progress)`: the system as a whole does not stand
still while a thread or callback is runnable, an adapter has a request to carry out or
complete, or a connection manager has an answer to deliver. That is the least a scheduler and
a working network give. No thread is preferred, and no fault ever has to
happen or to stop. It suffices since every progress step brings a session nearer to its end:
there are finitely many rounds, events and completions.

`SwapSystem!FairSpec` (for `PageLocksReleased`): a thread that is in a fault goes on, reclaim
goes on with the page it has, the disk answers. Nobody ever has to access memory or to
choose a page. `Kswapd!FairSpec`: kswapd goes on, a process that asked for a page goes on, and
a zone that is shrunk again and again gains pages in the end (strong fairness of `Frees`).
The last is an assumption about the load, not about the scheduler, and the throttle is built
on it. Time-outs, signals and exits are never required.

## 6. Proofs

Everything below holds for every value of the constants that the modules' assumptions allow:
`IbContextAssumption` (`Rounds` and `TxDepth` positive, `Faults` any set of side and kind),
`PteLogAssumption` (positive sizes; a fresh slot is not an entry), `SwapAssumption` (finite sets;
the places where a null, a lock holder or a process could be taken for another differ),
`SwapFaultAssumption`, `SwapHooksAssumption`, `HeapCopyAssumption` and `KswapdAssumption`. Where a
theorem has a hypothesis of its own, it is named below and the run that satisfies it too. No
fairness is used. The larger inductive invariants were given to TLC, as invariants of the run that
checks the property, before they were proved.

### The session

**`MegaVMProofs!TypeCorrect`**: `Spec => []TypeOK`. The part with content is that `round` is at
most `Rounds`, which is not inductive: `TypeInv == TypeOK /\ LoopInv` adds that the labels
inside the loop have `round < Rounds` and those before it `round = 0`. There is a lemma per
group of variables (threads, context, buffers, connection managers, queues, misuse) and in it
one step per component; each first states which form an action gives the variable
(`x' = [x EXCEPT ...]`) and then types that form.

**`MegaVMProofs!WakeupsArrive`**: `Spec => []NoMissedWakeup`, for all sets of faults: when the
state a sleeping thread waits for is there, a callback that will wake it is still running.
`NoMissedWakeup` alone is not inductive. `WakeInv` adds
`TypeInv`; `SleepInv`, that a sleeping thread is at one of its waits (so that no other step of
the thread can move it while it sleeps); and that the server never hears `ADDR_RESOLVED`,
the one event that moves the state without a wake-up. On the client that event is
harmless since `ADDR_RESOLVED` is below every threshold of the client, but it is above
`CONNECT_REQUEST`, for which the server sleeps. The steps fall into four lemmas: a thread
that falls asleep has just looked (`ClientSleeps`, `ServerSleeps`); a callback that changes
the state has its wake-up before it (`CallbackWakes`); all else leaves the state, the
callbacks and the threads alone or ends a sleep (`OtherSleeps`).

**`MegaVMProofs!QueuesFit`**: `Spec => []QueuesWithinDepth`, for all faults, rounds and depths.
The bound on completions does not follow from the queue alone: a completion was a request
or a receive before. `DepthInv` adds up what a side has at once: the receives that are posted,
completed and owed by a callback about to post again are at most one, and the requests and
their completions that were not polled are at most `TxDepth`. A step moves one of
these to the next place, or flushes them all; `Handled` lists the ways, and one lemma on numbers
shows that each keeps the sums.

**`MegaVMProofs!GoAheadIsLast`**: `Spec => []GoAheadFollowsData`. The go-ahead is the last
request the server posts (`SendIsLast`), nothing waits behind it when it is carried out
(`NothingAfterSend`), and the client hears of it only afterwards, through a completion
(`HeardOfSend`). It holds whatever the waits of the server return, hence for all faults.

**`MegaVMProofs!LeavesKnown`**: `Spec => []LeaksAreKnown`, for all faults. `HeldInv` has a table
of what a side may and must hold at each label of its main thread (`Accounted`), and follows
the one id that comes from outside, that of the connection request: it is asked for once, the
server makes a queue pair only for an id it has been given, and a server with a queue
pair destroys the id.

**`MegaVMProofs!ContextOutlives`** and **`LeavesNothing`** need the hypothesis `NothingCutShort`:
no `signal` and no `timeout` among `Faults`, on either side. It is needed: section 4 names the runs
in which an interrupted wait leaves the context freed under a callback. `LeavesNothing` also
excludes `setup` faults, after which `setup_buffers` leaks its mappings. `Session.cfg` satisfies
both hypotheses. `QuietInv` ties the two sides together: no connection event is in a queue
before the client asks (`ConnInv`), until then the client hears of its address and route only
(`ClientQuiet`), the server of the request only, so that it never returns past its labels with an
id in its hands (`ServerQuiet`), and from the first to the last step of a side its context is
there, with no event left at either end (`ContextKept`).

**`MegaVMProofs!NoCompletionLost`**: `Spec => []CompletionsNotLost`, and
**`ClientOnlyAdvances`**: `Spec => ClientNeverFallsBack`, an action property; both under
`NothingCutShort`, for all other faults. The callback alone would keep `Announced`: while it is idle
and not due, the queue is empty and armed, or the side is in the ERROR state in which the callback
returned without arming. The danger is that the ERROR goes away afterwards (`ErrorKept`). That is what
happens when a signal ends the server's wait for the advertisement: the server runs through its calls
and disconnects, the client's callback returns in ERROR with the queue disarmed, and the client, past
its check, overwrites the ERROR with `RDMA_READ_ADV`. Without a signal it could still be an event of the
connection that was on its way.
`SessionInv` excludes it by following the two main threads together. Up to the client's
`ib_post_send` nothing has been posted on either side and the server waits or leaves (`ServerWaits`,
`Fresh`), and `Connecting` gives for each value of `conn` where the client is, what its state is and
which events may be before it. After that no connection comes any more (`Gone`), and the client's
completions are of sends and receives only (`ClientSends`), so that `client_recv` and the error branch
are all that its callback can do to the state.

**`MegaVMProofs!RepostsOnLiveQp`**: `Spec => []ServerRepostsOnLiveQp`, under `NothingCutShort`.
`AdvertInv` follows the client's one message from its post on. It is under way (`UnderWay`), lies in
the server's completion queue (`Arrived`), was polled and its receive is to be posted again
(`Reposting`), or was dealt with or will never come (`Dealt`); each phase leads to itself, the next
or the last (`UnderWayStep` and its companions). In the first three both sides are on
the connection (`Together`): the client waits for the go-ahead and nothing takes it out of its
wait, since the server posts no SEND before its first read is completed, neither side
disconnects, and the completions the client polls are flushes or its own SEND
(`Harmless`). In `Reposting` the server may have seen the new state already, but its first read
completes only through the callback that is busy with the receive. The queue pair is gone only at
the labels after `free_qp` (`Destroyed`), which no phase with a receive to post allows.

**`PingPongProofs!EchoesPing`**: `Spec => ImplementsPingPong`, for every number of rounds, under
`NothingCutShort` and `PostsSucceed`: the server's posts are not refused, neither as a fault nor because its
queue is full (`2 * Rounds <= TxDepth`; in the code 20 and 64). All other faults are allowed.
`PostsSucceed` is needed: a refused `ib_post_send` is only logged, so with a write refused the go-ahead
comes a round too early. `Session.cfg` satisfies both hypotheses.

`EchoInv` adds to `AdvertInv` and `GoAheadInv` what the data are wherever they may be.
`QueuedInv` says so for the queues: the client's requests offer the ping (`Adverts`); the server's
know where to go, a read under way carries the ping, and a write is posted only with the ping in the
server's buffer (`Asks`), or when a queue pair has failed, so that it is never carried out
(`Broken`); its completions say that the copy is there only if it is (`News`). The case that
makes this more than bookkeeping is the second round, where the server does not wait for its read
(`ReadWaitHonoured`): `Copied`, once true, holds on, as each later read brings the same ping.
`ReadsFirst` is the order of the queue pair: a read is answered only when all ahead of it is
done, so that at most one is under way, which is what `Reply` is. `ServerInv` carries the same
through the server's states and labels, `ClientInv` says when the client's end is up and its
buffer registered, so that no access is refused. `CountInv` counts: while nothing is broken, the
writes carried out and those still queued are those the loop has made (so `Rounds` at the
go-ahead), and the requests in use are at most two for each round (so none is refused). The step
simulation is one lemma per kind of step: `ClientMaps` (`Publish`, `Withdraw`), `GoesOutMaps`
(`Fetch`, `Echo`, `GoAhead`), `ComesInMaps` (`Arrive`), `ClientFails` (`Withdraw`) and `OtherMaps`
(`Lose` or a stutter).

### The experiment

**`LogCompareProofs!TypeCorrect`**, **`LogInOrder`**, **`OneSlotTooFar`**: the cursor stays in the
log or one slot past it; the log holds the first `NumberOfArrays * MaxSizeArray` records in
order; exactly one store goes past the end. The inductive invariant `OrderInv` (`Ordered`, which has
the log as a parameter since there are two) ties the cursor to the number of records through the
row-major number of a slot; the arithmetic it needs (rows do not overlap, slots have different
numbers) is in three lemmas.

**`LogCompareProofs!CountExact`**: `ExperimentSpec => []CountIsExact`. The logs are two instances of
`PteLog`, so that each is `Ordered` (`LogsAreLogs`). Slots are numbered row by row: what lies
in a slot up to the cursor is the entry of its number, or, for the one slot behind a log, anything
(`UpToCursor`). `CountInv` says what the loops have done between two iterations: `similarity` is the
number of entries found among the slots looked at (`AtOuter`), and the entry in hand is in none of
the slots of the other log looked at so far (`AtInner`). The loops end with the number of the
cursor reached exactly, which is what an off-by-one at the end of a row or at the cursor would break.
**`VerdictRight`**: `ExperimentSpec => []VerdictIsRight`. `decision` is cleared by a mismatch for the rest of the
slots; `Compared` says that such a mismatch was with a slot of the same entry, behind which
no filled slot can be of that entry if none was copied out twice.

**`SwapHooksProofs!CursorNear`**: `Spec => []CursorStaysNear`, for any number of threads. The cursor
is two variables that threads read and write separately, and a thread stores what it computed
from a stale read. `CursorInv` therefore says of every thread, by its place in the hook, what it
still has to store: below the guard a row in the log, after the move a row at most one
further, and an index within a row. A step of one thread leaves what the others hold.

**`SwapHooksProofs!OopsNeedsAllocation`**: `Spec => OopsOnlyDuringAllocation`, an action property. `AllocInv`:
once some call has cleared `firstTime`, each row and the store are there or some thread is
still to allocate them. A second first call, which throws the log away, is such a thread.

**`SwapHooksProofs!SlotsAreWhole`**: `Spec => []SlotsWhole` under the hypothesis that all threads fault under
one page table page, as in `SwapHooks.cfg` (`OneTable`); section 4 says why it fails otherwise. From the lock
follows that one thread copies at a time, into the slot that comes next (`SlotFree`), and
`PartsWritten` says which parts of it are there; the slots before it are whole.

**`SwapHooksProofs!QuietCallsKeepOrder`**: `Spec => []QuietLogInOrder`. This relates the model with threads to
`PteLog`: as long as no two calls overlapped, the log is between two calls as `PteLog` has it
(`Settled`), and during one it is so but for what that call has still to do (`Half`), by its place
in the hook.

**`HeapCopyProofs!Exchange`** and **`EarlyReturn`**: `WalkInv` says for every byte nobody wrote to
where it is: exchanged before the walk, untouched after it, and at the byte in hand one of the
three states between the assignments, with the missing value in `old_content`. `WalkKeeps`,
`OverKeeps`, `BackKeeps` and `WriteKeeps` are the kinds of steps; both theorems are
read off `WalkInv` at `done` and `failed`. **`RunsOff`**: a heap whose end is at a page boundary is
ahead of the walk or met by it (`Ahead`), so that only two unaligned ends can be missed.

### Faults, reclaim and kswapd

**`SwapSystemProofs!MemoryStaysConsistent`**: `Spec => []IInv`, for any number of address spaces, threads,
frames and swap entries, with fork, `madvise`, reclaim, a driver and the disk. From `IInv` follow the
six invariants of `swap_threads` and `swap_fork`: **`StateIsTyped`** (`TypeOK`),
**`ReferencesAreExact`** (`RefcountsExact`), **`SwapEntriesAreExact`** (`SwapCountsExact`),
**`ReachablePagesAreInUse`** (`NoFreePageInTlb`), **`WritesUnderIoAreSeen`** (`NoStaleWritesDuringIo`) and
**`TranslationsShowMemory`** (`TlbShowsMemory`). None of them is inductive, and they need each other:

* A count is exact after a step that drops a reference only if the one who drops it had one, which
  is what `Shapes` says of the locals of a fault by its place in the code, `ReclaimShape` and
  `DriverShape` of the others. A count that reclaim has frozen stands for two references, the
  cache's and its own, and nobody else may have one while it is frozen (`Frozen`); that nobody
  takes one holds since every way to a page leads through a table, the cache under its
  lock, or a list it has left.
* A page in the cache is written or read by the disk only while it is in the cache, and reclaim
  works on a page only under its lock (`LockInv`, `ReclaimInv`): otherwise a fault could take a page
  out of the cache while reclaim counts on its reference there.
* Why a CPU may still hold a translation is `Backed`: the table has it, with the dirty bit if
  the CPU may write; or reclaim owes the address space a flush and holds the page; or a zap does. Each
  of the three comes with a reference, so that the page is not free; and the second cannot have
  write permission once writeback starts, as `try_to_unmap_flush_dirty` comes before `pageout`.

Counts are integers in `IInv`: that none is negative follows. The sums are never computed: for a
step that changes at most the entry of one address space and the locals of one thread, `Balance`
turns "the count changes by what these two stop and start to hold" (`Balanced`) into exactness.
Helpers such as `try_to_free_swap` have a lemma each that says what they change (`Becomes`), and
`OneStep` puts the parts together, so that the proof of an action states which pages it touches
and what each part of `IInv` needs to know.

**`SwapContentProofs!MemoryIsKept`**: `Spec => KeepsMemory`, and **`HookCopiesWhatWasMapped`**:
`Spec => HookCopiesSwappedPage`, from **`ContentStaysInPlace`**: `Spec => []CInv`. `CInv` adds to `IInv`
where the content of an address is. An address space refers to a page when its table holds the
page, or the swap entry the page is cached for (`Refers`):

* A page that a table or a CPU may write to is referred to by one address space only
  (`Exclusive`), but for a child whose tables are being filled and that does not run yet.
* A clean page in the cache equals its swap entry; or every table that refers to it has it
  mapped and dirty; or a driver has written to it and is about to say so (`Clean`). That is why
  reclaim may throw a clean page away: it does so only without mappings, and with no
  reference but the cache's and its own, so that there is no driver.
* A page the disk has not read yet is mapped nowhere and has no driver (`Unread`).
* A fault knows what its locals are for: a page it made is its own (`Made`), a child it makes
  is a copy and not started (`Forked`), a page it mapped is still what the hook sees
  (`Hooked`, `Sees`).

Most steps leave every content alone: `Calm` says what that takes, page by page, entry by entry
and thread by thread, `CalmStep` concludes `CInv'` from it, and the lemma of an action shows that
the action is calm. The helpers of the kernel are mild (`MildOn`): they change flags and counts but
no content, and drop a page from the cache only when its entry is counted no more or holds the
same. Writes are not calm; `WriteShows` says whose content a write to a page changes.

`MemoryIsKept` and `ContentStaysInPlace` have the hypothesis `Undisturbed`: there is no fork, or
there is neither a driver nor a second thread in an address space. It holds in `SwapThreads.cfg`,
`SwapDriver.cfg` and `SwapFork.cfg`, the runs that check `KeepsMemory`, and it cannot be dropped:
with fork and two threads of an address space `CopyIsCurrent` fails (section 4) and a write is
lost; with fork and a driver, what the driver writes shows in the child as well. TLC finds
`KeepsMemory` violated in both cases. `HookCopiesWhatWasMapped` also needs that there is no driver,
as in `SwapFork.cfg`. **`CopyIsCurrentAlone`** is the other side of the finding: with one thread per
address space and no driver, `Spec => []CopyIsCurrent`.

`copy_pte_range` is guarded in `SwapFault` by that no other thread makes the same child, since a
fork makes an address space of its own; the proof of `Forked` needs it.

**`KswapdProofs!NobodyForgotten`**: `Spec => []NoneThrottledAsleep`, for any number of processes
and zones. `WakeInv` adds that who is set to sleep is on its queue and between entering
it and leaving it (`Dozing`, `Registered`), and that once kswapd has woken everybody while
on its queue, no process is past its own test of that queue (`Unblocked`): a process that starts
to wait afterwards still has that test before it, and wakes kswapd there. Neither
watermarks nor orders matter, so the proof does not look into them.

**`KswapdProofs!TypeCorrect`**: `Spec => []TypeOK`: no allocation takes more than a zone has, whatever
watermark and order it is tested for, and the loop of `balance_pgdat` does not go on with its
priority spent. `TypeInv` types the locals of both sides and adds where the walk over the zones
is. Its hypothesis `Powers`, that `2^n` is a positive number for the orders `n`, is a fact of
arithmetic for which the provers have no rules.

### What is only model-checked

* Liveness, under fairness: out of this prover's reach.
* `ImplementsPingPong` where a wait is cut short: TLC finds that it survives a signal to the client
  (section 4), but the theorem has `NothingCutShort`.
* What a recursive definition computes is out of reach too; nothing here needs one.

## 7. What is not modelled, and the plan

Not modelled, or in part only:

* In the fault and reclaim paths: file and shared pages, KSM, huge pages, migration entries, memory
  poisoning, mlock, the accessed bit as such (a reference is a choice), readahead of
  neighbouring entries, more than one address per address space (so that swap slots of
  neighbours never meet), continuation counts, memory cgroups, congestion and the choice of
  how much to scan. Reclaim is one thread at a time. A failed `kmalloc` in the hooks would
  oops and is left out. The copy in `shrink_page_list` is the hook of `do_swap_page` again, under
  page locks instead of the lock of the table, which do not keep two pages apart.
* `kswapd`: freezing, stopping the thread (memory hot-remove), several nodes, buffer heads, what
  `shrink_zone` does, per-CPU inaccuracy of the counters. The page allocator is external:
  a request wakes kswapd for each zone, tries the lower watermark, then reclaims directly.
  Interruptible waits end by a time-out or a signal, taken together.
* The heap copy assumes each frame mapped once: a page shared by copy on write, the zero page or a
  KSM page would change for everybody. `brk` does not move, and the frames stay mapped.
* A second client of the server; the parts without logic (user programs, scripts,
  generated files); the functions of `memory.c` and `vmscan.c` that the hooks do not
  depend on.

What is left, in this order:

1. The hook of `shrink_page_list` beside that of `do_swap_page`, to say when a pair of copies
   is a pair of one page's contents.
2. A second connection request while a session runs.
3. Slab shrinking and the batched freeing of `mmu_gather`.
