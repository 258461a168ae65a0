------------------------------- MODULE MegaVM -------------------------------
(***************************************************************************)
(* One session of the two modules: a client and a server, each with its    *)
(* main thread and its two callbacks, over the RDMA stack.                 *)
(***************************************************************************)
EXTENDS MegaVMClient, MegaVMServer

Init == InitContext

Callbacks(s) == megaVM_cma_event_handler(s) \/ megaVM_cq_event_handler(s)

\* What nobody owes the system: it may happen where Faults allows it.
Fault == \E s \in Side : Signal(s) \/ StrayEvent(s)

Stopped(s) == pc[s] \in {"done", "oops"}

\* The session is over, or the server listens and no client will come.
Over ==
  /\ Stopped("client")
  /\ Stopped("server") \/ ("server" \in asleep /\ pc["server"] = "request_wait")
  /\ UNCHANGED vars

\* The steps somebody owes: the scheduler runs a runnable thread or callback, the
\* adapters and the connection managers do their work.
Progress ==
  \/ ClientMain
  \/ ServerMain
  \/ \E s \in Side : Callbacks(s) \/ Adapter(s)
  \/ ConnectionEstablished
  \/ ConnectTimeout

Next == Progress \/ Fault \/ Over

Spec == Init /\ [][Next]_vars

\* The weakest fairness that makes anything happen: not everybody stands still
\* while somebody could take a step.
FairSpec == Spec /\ WF_vars(Progress)
-----------------------------------------------------------------------------
ClientLabel == {"start", "bind", "bind_wait", "bind_check", "setup_qp", "setup_buffers",
  "post_recv", "connect", "connect_wait", "connect_check", "advertise", "send",
  "goahead_wait", "disconnect", "free_buffers", "free_qp", "free_cq",
  "destroy_id", "done", "oops"}
ServerLabel == {"start", "bind", "request_wait", "request_check", "setup_qp",
  "setup_buffers", "post_recv", "accept", "accept_wait", "accept_check", "ping_wait",
  "read", "read_wait", "write", "write_wait", "next_round", "go_ahead", "disconnect",
  "free_buffers", "free_qp", "free_cq", "destroy_child",
  "destroy_listener", "done", "oops"}

ThreadTypeOK ==
  /\ pc \in [Side -> ClientLabel \cup ServerLabel]
  /\ asleep \subseteq Side
  /\ signalled \subseteq Side
  /\ round \in 0 .. Rounds

ContextTypeOK ==
  /\ state \in [Side -> TestState]
  /\ advert \in Buffer \cup {NoBuffer}
  /\ child \in {"unset", "set"}
  /\ held \in [Side -> SUBSET Resource]

BufferTypeOK ==
  /\ mem \in [Buffer -> Content]
  /\ rdmaBuf \in Content
  /\ carried \in [Operation -> Nat]

CmTypeOK ==
  /\ cmh \in [Side -> CmPhase]
  /\ cmq \in [Side -> Seq(CmEvent)]
  /\ conn \in {"none", "requested", "accepted", "established", "closed"}

CqTypeOK ==
  /\ cqh \in [Side -> CqPhase]
  /\ cqe \in [Side -> Seq(Wc)]
  /\ armed \subseteq Side
  /\ cqevent \subseteq Side

QpTypeOK ==
  /\ qp \in [Side -> {"none", "init", "rts", "err", "gone"}]
  /\ sq \in [Side -> Seq(Wr)]
  /\ rq \in [Side -> Nat]

\* The type of every variable; the loop of start_MegaVM_server makes no more than
\* Rounds rounds, whatever its waits and posts return.
TypeOK ==
  /\ ThreadTypeOK
  /\ ContextTypeOK
  /\ BufferTypeOK
  /\ CmTypeOK
  /\ CqTypeOK
  /\ QpTypeOK
  /\ misuse \subseteq Side \X {"qp", "context", "child"}

\* Where the server's loop stands: TypeOK needs it, to bound round.
LoopInv ==
  /\ pc["server"] \in {"read", "read_wait", "write", "write_wait", "next_round"} =>
       round < Rounds
  /\ pc["server"] \in {"start", "bind", "request_wait", "request_check", "setup_qp",
                       "setup_buffers", "post_recv", "accept", "accept_wait",
                       "accept_check", "ping_wait"} => round = 0

\* No wake-up is lost: when the state that a sleeping thread waits for is there,
\* the callback that set it has not come to its wake_up_interruptible yet.  The
\* callbacks publish context->state long before they wake, and one of them
\* (ADDR_RESOLVED) does not wake at all.
NoMissedWakeup ==
  \A s \in asleep :
    state[s] >= Threshold[pc[s]] =>
      cmh[s] \in {"child", "wake"} \/ cqh[s] \in {"repost", "wake", "fail"}

\* No completion is left lying in a queue that raises no event: the callback arms
\* the queue before it polls, so one that slips in is announced again.  Only a
\* side in the ERROR state, whose callback returns without arming, is deaf.
CompletionsNotLost ==
  \A s \in Side :
    "cq" \in held[s] /\ cqe[s] # <<>> /\ cqh[s] = "idle" /\ s \notin cqevent
      => state[s] = ERROR

\* ib_create_cq asks for txdepth * 2 entries for both queues of a side, create_qp
\* for two receives: never are more completions waiting or receives posted, however
\* late the callback runs.
QueuesWithinDepth ==
  \A s \in Side : Len(cqe[s]) <= 2 * TxDepth /\ rq[s] <= 2

\* When the client has learned of the go-ahead, the server has no read or write
\* that is still to reach the client's memory: the client may give it back.
GoAheadFollowsData ==
  state["client"] = RDMA_WRITE_ADV =>
    \A k \in 1 .. Len(sq["server"]) : sq["server"][k].phase # "posted"

\* The client's state only grows, so that a wait for >= a state is not undone
\* before its thread looks; only an ERROR may be overwritten.
ClientNeverFallsBack ==
  [][state'["client"] >= state["client"] \/ state["client"] = ERROR]_state

\* The server's callback posts its next receive before the main thread, which goes
\* on as soon as the state is set, has destroyed the queue pair: the first read
\* completes only after that callback.  (On the client nothing holds it back.)
ServerRepostsOnLiveQp == <<"server", "qp">> \notin misuse

\* The callbacks never run on a context that megaVM_doit or initialisation freed.
ContextOutlivesCallbacks == \A s \in Side : <<s, "context">> \notin misuse

\* A session that meets no fault gives back all that it allocated, on the paths
\* through every err label that a rejected or broken connection can take.
NothingLeaked == \A s \in Side : pc[s] = "done" => held[s] = {}

\* Whatever fails, a module that ends leaves at most two kinds of things behind:
\* DMA mappings, by the bail label of setup_buffers, and the id of a connection
\* request, when bind_server returns after it came.
LeaksAreKnown ==
  \A s \in Side : pc[s] = "done" =>
    /\ held[s] \subseteq Mapping \cup {"child"}
    /\ held[s] \cap Mapping # {} => <<s, "setup">> \in Faults
    /\ "child" \in held[s] => qp[s] = "none"

\* The client's buffer as PingPong sees it: open from the moment the client posts
\* its advertisement until its queue pair fails or it disconnects.
Window ==
  IF pc["client"] \in {"start", "bind", "bind_wait", "bind_check", "setup_qp", "setup_buffers",
                       "post_recv", "connect", "connect_wait", "connect_check", "advertise",
                       "send"}
  THEN "private"
  ELSE IF pc["client"] \notin {"goahead_wait", "disconnect"} \/ qp["client"] = "err"
  THEN "closed"
  ELSE IF carried["SEND"] = 0 THEN "open" ELSE "done"

\* The data of the outstanding read, if there is one.
Reply ==
  IF \E k \in 1 .. Len(sq["server"]) : sq["server"][k].phase = "fetched"
  THEN sq["server"][CHOOSE k \in 1 .. Len(sq["server"]) :
                      sq["server"][k].phase = "fetched"].val
  ELSE "none"

\* The session implements PingPong.
PP == INSTANCE PingPong WITH
  window <- Window,
  buffer <- mem["start_buf"],
  reply <- Reply,
  copy <- rdmaBuf,
  echoes <- carried["WRITE"]

\* The client's buffer keeps the ping through all reads and writes of the server,
\* none comes after the go-ahead, and the go-ahead comes after all of them.
ImplementsPingPong == PP!Spec

-----------------------------------------------------------------------------
(* Both modules come to their end.                                         *)

\* The client's init function returns, connected or not.
ClientStops == <>Stopped("client")

\* So does the server's, once a request has come.
ServerStops == conn = "requested" ~> Stopped("server")

-----------------------------------------------------------------------------
(* What comments in the two programs say and the code does not do: TLC     *)
(* finds each violated; the README says with which instance.               *)

\* megaVM_rdma_read: "Wait for read completion".
ReadWaitHonoured ==
  pc["server"] = "write" =>
    \A k \in 1 .. Len(sq["server"]) : sq["server"][k].op # "READ"

\* The ping/pong loop: "server sends "go ahead" on rdma write completion".
GoAheadOnWriteCompletion ==
  pc["server"] = "go_ahead" =>
    \A k \in 1 .. Len(sq["server"]) : sq["server"][k].op # "WRITE"

\* The ping/pong loop: "server rdma writes "pong" data to sink".
PongGoesToSink ==
  \A k \in 1 .. Len(sq["server"]) :
    sq["server"][k].op = "WRITE" => sq["server"][k].buf = "rdma_buf"

\* enum test_state: once CONNECTED, the states cycle through RDMA_READ_ADV,
\* RDMA_WRITE_ADV, and RDMA_WRITE_COMPLETE.
WriteAdvLeadsToWriteComplete ==
  state["client"] = RDMA_WRITE_ADV ~> state["client"] = RDMA_WRITE_COMPLETE

\* bind_server: the sleep for CONNECT_REQUEST "would be woken up by
\* cma_event_handler when it receives a connection", so after it there is one.
ConnectionKnownAfterWait == pc["server"] = "setup_qp" => child = "set"
=============================================================================
