---------------------------- MODULE MegaVMProofs ----------------------------
(***************************************************************************)
(* Proofs about MegaVM, for every number of rounds, every depth of the     *)
(* send queue and every set of faults: the types, the wake-ups of the      *)
(* threads, how full the queues of a session get, in which order the       *)
(* server's data and its go-ahead reach the client, and what is left       *)
(* behind.  Then about a session whose waits no signal and no timeout      *)
(* cuts short: everything is given back, no callback runs on a freed       *)
(* context or queue pair, no completion is left lying, and the client's    *)
(* state only advances.                                                    *)
(***************************************************************************)
EXTENDS MegaVM, FiniteSetTheorems, TLAPS

-----------------------------------------------------------------------------
(* What the operators on the queues return.                                *)

\* A completion put together from its parts is one.
LEMMA WcOfType ==
  ASSUME NEW op \in Operation \cup {"RECV"}, NEW status \in {"ok", "err", "flush"},
         NEW info \in Buffer \cup {NoBuffer}
  PROVE  WcOf(op, status, info) \in Wc
BY DEF WcOf, Wc

\* What a failing queue pair is flushed with are completions.
LEMMA FlushedType ==
  ASSUME QpTypeOK, NEW s \in Side, NEW k \in Nat
  PROVE  Flushed(s, k) \in Seq(Wc)
<1> DEFINE Send(j) == WcOf(sq[s][j].op,
                           IF Acknowledged(s, j) THEN "ok" ELSE IF j = k THEN "err" ELSE "flush",
                           NoBuffer)
           OfRequests == [j \in 1 .. Len(sq[s]) |-> Send(j)]
           flushed == WcOf("RECV", "flush", NoBuffer)
           Recvs == [j \in 1 .. rq[s] |-> flushed]
<1>1. sq[s] \in Seq(Wr) /\ rq[s] \in Nat
  BY DEF QpTypeOK
<1>2. \A j \in 1 .. Len(sq[s]) : Send(j) \in Wc
  <2> TAKE j \in 1 .. Len(sq[s])
  <2>1. sq[s][j] \in Wr
    BY <1>1
  <2>2. sq[s][j].op \in Operation
    BY <2>1 DEF Wr
  <2> QED BY <2>2, WcOfType
<1>3. OfRequests \in Seq(Wc)
  <2> HIDE DEF Send
  <2> QED BY <1>1, <1>2
<1>4. flushed \in Wc
  BY WcOfType
<1>5. Recvs \in Seq(Wc)
  <2> HIDE DEF flushed
  <2> QED BY <1>1, <1>4
<1>6. OfRequests \o Recvs \in Seq(Wc)
  <2> HIDE DEF OfRequests, Recvs
  <2> QED BY <1>3, <1>5
<1> QED BY <1>6 DEF Flushed

\* Completions that enter the queues leave them sequences of completions, and the
\* armed queues and due callbacks sets of sides.
LEMMA AddCompletionsType ==
  ASSUME CqTypeOK, NEW add \in [Side -> Seq(Wc)], AddCompletions(add)
  PROVE  /\ cqe' \in [Side -> Seq(Wc)]
         /\ armed' \subseteq Side
         /\ cqevent' \subseteq Side
<1>1. \A s \in Side : cqe[s] \o add[s] \in Seq(Wc)
  BY DEF CqTypeOK
<1>2. cqe' = [s \in Side |-> cqe[s] \o add[s]]
  BY DEF AddCompletions
<1>3. cqe' \in [Side -> Seq(Wc)]
  BY <1>1, <1>2
<1>4. armed' \subseteq Side /\ cqevent' \subseteq Side
  BY DEF CqTypeOK, AddCompletions
<1> QED BY <1>3, <1>4

\* One side's completions, as AddCompletions takes them.
LEMMA OnlyType ==
  ASSUME NEW s \in Side, NEW completions \in Seq(Wc)
  PROVE  Only(s, completions) \in [Side -> Seq(Wc)]
<1>1. <<>> \in Seq(Wc)
  OBVIOUS
<1>2. NoCompletion \in [Side -> Seq(Wc)]
  BY <1>1 DEF NoCompletion
<1> QED BY <1>2 DEF Only

\* A queue pair that goes to the error state leaves the queues well typed.
LEMMA QpErrorType ==
  ASSUME QpTypeOK, CqTypeOK, NEW sides, NEW completions \in [Side -> Seq(Wc)],
         QpError(sides, completions)
  PROVE  /\ qp' \in [Side -> {"none", "init", "rts", "err", "gone"}]
         /\ sq' \in [Side -> Seq(Wr)]
         /\ rq' \in [Side -> Nat]
         /\ cqe' \in [Side -> Seq(Wc)]
         /\ armed' \subseteq Side
         /\ cqevent' \subseteq Side
BY AddCompletionsType DEF QpTypeOK, QpError

\* ib_post_send and ib_post_recv leave the queues well typed.
LEMMA PostSendType ==
  ASSUME QpTypeOK, CqTypeOK, NEW s \in Side, NEW op \in Operation,
         NEW buf \in Buffer \cup {NoBuffer}, PostSend(s, op, buf)
  PROVE  /\ sq' \in [Side -> Seq(Wr)]
         /\ cqe' \in [Side -> Seq(Wc)]
         /\ armed' \subseteq Side
         /\ cqevent' \subseteq Side
<1> DEFINE wr == [op |-> op, buf |-> buf, phase |-> "posted", val |-> "junk"]
<1>1. wr \in Wr
  BY DEF Wr, Content
<1>2. CASE sq' = [sq EXCEPT ![s] = Append(@, wr)] /\ UNCHANGED <<cqe, armed, cqevent>>
  <2> HIDE DEF wr
  <2> QED BY <1>1, <1>2 DEF QpTypeOK, CqTypeOK
<1>3. CASE AddCompletions(Only(s, <<WcOf(op, "flush", NoBuffer)>>)) /\ UNCHANGED sq
  <2>1. <<WcOf(op, "flush", NoBuffer)>> \in Seq(Wc)
    BY WcOfType
  <2> QED BY <1>3, <2>1, OnlyType, AddCompletionsType DEF QpTypeOK
<1>4. CASE UNCHANGED <<sq, cqe, armed, cqevent>>
  BY <1>4 DEF QpTypeOK, CqTypeOK
<1> QED BY <1>2, <1>3, <1>4 DEF PostSend

\* A posted receive leaves the queues well typed, on a live queue pair or a dead one.
LEMMA PostRecvType ==
  ASSUME QpTypeOK, CqTypeOK, NEW s \in Side, PostRecv(s)
  PROVE  /\ rq' \in [Side -> Nat]
         /\ cqe' \in [Side -> Seq(Wc)]
         /\ armed' \subseteq Side
         /\ cqevent' \subseteq Side
<1>1. <<WcOf("RECV", "flush", NoBuffer)>> \in Seq(Wc)
  BY WcOfType
<1>2. CASE qp[s] = "err"
  BY <1>1, <1>2, OnlyType, AddCompletionsType DEF PostRecv, QpTypeOK
<1>3. CASE qp[s] # "err"
  BY <1>3 DEF PostRecv, QpTypeOK, CqTypeOK
<1> QED BY <1>2, <1>3

\* What a side holds stays a set of resources.
LEMMA HoldingType ==
  ASSUME held \in [Side -> SUBSET Resource], NEW s \in Side, NEW what \in SUBSET Resource
  PROVE  /\ Holding(s, what) => held' \in [Side -> SUBSET Resource]
         /\ Released(s, what) => held' \in [Side -> SUBSET Resource]
BY DEF Holding, Released

\* The events a side may hear of.
LEMMA HeardType ==
  ASSUME cmq \in [Side -> Seq(CmEvent)], NEW s \in Side
  PROVE  /\ Heard(s, <<>>) \in Seq(CmEvent)
         /\ \A event \in CmEvent : Heard(s, <<event>>) \in Seq(CmEvent)
<1>1. cmq[s] \in Seq(CmEvent)
  OBVIOUS
<1>2. <<>> \in Seq(CmEvent) /\ \A event \in CmEvent : <<event>> \in Seq(CmEvent)
  OBVIOUS
<1> QED BY <1>1, <1>2 DEF Heard

\* An event put at the end of a queue of events leaves a queue of events.
LEMMA AppendEventType ==
  ASSUME cmq \in [Side -> Seq(CmEvent)], NEW s \in Side, NEW event \in CmEvent,
         cmq' = [cmq EXCEPT ![s] = Append(@, event)]
  PROVE  cmq' \in [Side -> Seq(CmEvent)]
OBVIOUS

\* So does an event taken off its front.
LEMMA TakeEventType ==
  ASSUME cmq \in [Side -> Seq(CmEvent)], NEW s \in Side, cmq[s] # <<>>,
         \/ cmq' = [cmq EXCEPT ![s] = Tail(@)]
         \/ \E event \in CmEvent : cmq' = [cmq EXCEPT ![s] = Append(Tail(@), event)]
  PROVE  cmq' \in [Side -> Seq(CmEvent)]
<1>1. Tail(cmq[s]) \in Seq(CmEvent)
  OBVIOUS
<1>2. \A event \in CmEvent : Append(Tail(cmq[s]), event) \in Seq(CmEvent)
  BY <1>1
<1>3. \A q \in Seq(CmEvent) : [cmq EXCEPT ![s] = q] \in [Side -> Seq(CmEvent)]
  OBVIOUS
<1> QED BY <1>1, <1>2, <1>3

-----------------------------------------------------------------------------
(* Every step keeps the types and the place of the server's loop.          *)

TypeInv == TypeOK /\ LoopInv

\* There are two sides, and each is the peer of the other.
LEMMA SideFacts ==
  /\ "client" \in Side /\ "server" \in Side /\ "client" # "server"
  /\ \A s \in Side : Peer(s) \in Side /\ Peer(s) # s
  /\ \A s \in Side : s = "client" \/ s = "server"
BY DEF Side, Peer

\* The client's main thread goes from label to label, and leaves the server's alone.
LEMMA ClientThread ==
  ASSUME ClientMain
  PROVE  /\ pc' = pc \/ \E label \in ClientLabel : pc' = [pc EXCEPT !["client"] = label]
         /\ asleep' = asleep \/ asleep' = asleep \cup {"client"}
         /\ UNCHANGED <<signalled, round>>
BY DEF ClientMain, ClientStart, ClientBind, ClientBindWait, ClientBindCheck, ClientSetupQp,
       QpSetUp, SetupBuffers, PostFirstRecv, ClientConnect, ClientConnectWait,
       ClientConnectCheck, ClientAdvertise, ClientSend, ClientGoAheadWait, Disconnect,
       FreeBuffers, FreeQp, FreeCq, ClientDestroyId, WaitEvent, Goto, ClientLabel

\* So does the server's; its loop is entered at round 0 and left after the last round.
LEMMA ServerThread ==
  ASSUME ServerMain
  PROVE  /\ pc' = pc \/ \E label \in ServerLabel : pc' = [pc EXCEPT !["server"] = label]
         /\ asleep' = asleep \/ asleep' = asleep \cup {"server"}
         /\ UNCHANGED signalled
BY DEF ServerMain, ServerStart, ServerBind, ServerRequestWait, ServerRequestCheck,
       ServerSetupQp, QpSetUp, SetupBuffers, PostFirstRecv, ServerAccept, ServerAcceptWait,
       ServerAcceptCheck, ServerPingWait, ServerRead, ServerReadWait, ServerWrite,
       ServerWriteWait, ServerNextRound, ServerGoAhead, Disconnect, FreeBuffers, FreeQp,
       FreeCq, ServerDestroyChild, ServerDestroyListener, WaitEvent, Goto, ServerLabel

\* The server's main thread keeps the place of its loop.
LEMMA ServerLoop ==
  ASSUME TypeInv, ServerMain
  PROVE  LoopInv' /\ round' \in 0 .. Rounds
<1> USE SideFacts, IbContextAssumption DEF TypeInv, TypeOK, ThreadTypeOK, LoopInv
<1>1. CASE ServerNextRound
  BY <1>1 DEF ServerNextRound, Goto
<1>2. CASE ServerStart \/ ServerBind \/ ServerRequestWait \/ ServerRequestCheck
  BY <1>2 DEF ServerStart, ServerBind, ServerRequestWait, ServerRequestCheck, WaitEvent, Goto
<1>3. CASE ServerSetupQp \/ SetupBuffers("server") \/ PostFirstRecv("server", "accept")
  BY <1>3 DEF ServerSetupQp, QpSetUp, SetupBuffers, PostFirstRecv, Goto
<1>4. CASE ServerAccept \/ ServerAcceptWait \/ ServerAcceptCheck \/ ServerPingWait
  BY <1>4 DEF ServerAccept, ServerAcceptWait, ServerAcceptCheck, ServerPingWait, WaitEvent, Goto
<1>5. CASE ServerRead \/ ServerReadWait \/ ServerWrite \/ ServerWriteWait \/ ServerGoAhead
  BY <1>5 DEF ServerRead, ServerReadWait, ServerWrite, ServerWriteWait, ServerGoAhead,
              WaitEvent, Goto
<1>6. CASE \/ Disconnect("server") \/ FreeBuffers("server") \/ FreeQp("server")
           \/ FreeCq("server", "destroy_child") \/ ServerDestroyChild
           \/ ServerDestroyListener
  BY <1>6 DEF Disconnect, FreeBuffers, FreeQp, FreeCq, ServerDestroyChild,
              ServerDestroyListener, Goto
<1> QED BY <1>1, <1>2, <1>3, <1>4, <1>5, <1>6 DEF ServerMain

\* The callbacks, the adapters, the connection managers and the stray events move no
\* main thread; the callbacks wake one.
LEMMA OtherThread ==
  ASSUME NEW s \in Side,
         Callbacks(s) \/ Adapter(s) \/ ConnectionEstablished \/ ConnectTimeout \/ StrayEvent(s)
  PROVE  /\ asleep' = asleep \/ asleep' = asleep \ {s}
         /\ UNCHANGED <<pc, signalled, round>>
BY DEF Callbacks, megaVM_cma_event_handler, CmaEvent, CmaChild, CmaWake,
       megaVM_cq_event_handler, CqEvent, CqArm, CqPollEmpty, CqPoll, CqRepost, CqWake,
       WakeUp, Adapter, Transmit, TransmitFails, ReadArrives, CompleteSend,
       ConnectionEstablished, ConnectTimeout, StrayEvent, threadVars

\* Whatever step is taken, the main threads stay at labels of their own programs and
\* the server's loop within its rounds.
LEMMA ThreadStep ==
  ASSUME TypeInv, Next
  PROVE  ThreadTypeOK' /\ LoopInv'
<1> USE SideFacts DEF TypeInv, TypeOK, ThreadTypeOK, LoopInv
<1>1. CASE ClientMain
  BY <1>1, ClientThread
<1>2. CASE ServerMain
  BY <1>2, ServerThread, ServerLoop
<1>3. CASE \E s \in Side : Callbacks(s) \/ Adapter(s) \/ StrayEvent(s)
  BY <1>3, OtherThread
<1>4. CASE ConnectionEstablished \/ ConnectTimeout
  BY <1>4, OtherThread
<1>5. CASE \E s \in Side : Signal(s)
  BY <1>5 DEF Signal, WakeUp
<1>6. CASE UNCHANGED vars
  BY <1>6 DEF vars, threadVars
<1> QED BY <1>1, <1>2, <1>3, <1>4, <1>5, <1>6 DEF Next, Progress, Fault, Over

\* The client's main thread changes its state, and what it holds, at few places.
LEMMA ClientContext ==
  ASSUME ClientMain
  PROVE  /\ state' = state \/ SetState("client", RDMA_READ_ADV)
         /\ UNCHANGED <<advert, child>>
         /\ \/ held' = held
            \/ \E what \in SUBSET Resource : Holding("client", what) \/ Released("client", what)
<1>1. state' = state \/ SetState("client", RDMA_READ_ADV)
  BY DEF ClientMain, ClientStart, ClientBind, ClientBindWait, ClientBindCheck, ClientSetupQp,
         SetupBuffers, PostFirstRecv, ClientConnect, ClientConnectWait,
         ClientConnectCheck, ClientAdvertise, ClientSend, ClientGoAheadWait, Disconnect,
         FreeBuffers, FreeQp, FreeCq, ClientDestroyId, WaitEvent, contextVars
<1>2. UNCHANGED <<advert, child>>
  BY DEF ClientMain, ClientStart, ClientBind, ClientBindWait, ClientBindCheck, ClientSetupQp,
         SetupBuffers, PostFirstRecv, ClientConnect, ClientConnectWait,
         ClientConnectCheck, ClientAdvertise, ClientSend, ClientGoAheadWait, Disconnect,
         FreeBuffers, FreeQp, FreeCq, ClientDestroyId, WaitEvent, contextVars
<1> DEFINE Taken == \E what \in SUBSET Resource :
                      Holding("client", what) \/ Released("client", what)
<1>3. ClientStart => held' = held \/ Taken
  <2>1. {"context", "cm_id"} \subseteq Resource /\ {"context"} \subseteq Resource
    BY DEF Resource
  <2> QED BY <2>1 DEF ClientStart
<1>4. ClientSetupQp => held' = held \/ Taken
  <2>1. {"pd", "cq", "qp"} \subseteq Resource
    BY DEF Resource, VerbsObject
  <2> QED BY <2>1 DEF ClientSetupQp, QpSetUp
<1>5. SetupBuffers("client") => held' = held \/ Taken
  <2>1. /\ BufferResources("client") \subseteq Resource
        /\ \A left \in LeftByBail("client") : left \subseteq Resource
    BY DEF BufferResources, LeftByBail, Resource, Mapping, Memory, VerbsObject
  <2> QED BY <2>1 DEF SetupBuffers
<1>6. FreeBuffers("client") => held' = held \/ Taken
  <2>1. {"dma_mr"} \cup Mapping \cup Memory \subseteq Resource
    BY DEF Resource, VerbsObject
  <2> QED BY <2>1 DEF FreeBuffers
<1>7. FreeQp("client") \/ FreeCq("client", "destroy_id") \/ ClientDestroyId
        => held' = held \/ Taken
  <2>1. {"qp"} \subseteq Resource /\ {"cq", "pd"} \subseteq Resource
        /\ {"cm_id", "context"} \subseteq Resource
    BY DEF Resource, VerbsObject
  <2> QED BY <2>1 DEF FreeQp, FreeCq, ClientDestroyId
<1>8. ClientMain => held' = held \/ Taken
  <2> HIDE DEF Taken
  <2> QED
    BY <1>3, <1>4, <1>5, <1>6, <1>7
    DEF ClientMain, ClientBind, ClientBindWait, ClientBindCheck, PostFirstRecv, ClientConnect,
        ClientConnectWait, ClientConnectCheck, ClientAdvertise, ClientSend,
        ClientGoAheadWait, Disconnect, WaitEvent, contextVars
<1> QED BY <1>1, <1>2, <1>8

\* The server's leaves its state to the callbacks.
LEMMA ServerContext ==
  ASSUME ServerMain
  PROVE  /\ UNCHANGED <<state, advert, child>>
         /\ \/ held' = held
            \/ \E what \in SUBSET Resource : Holding("server", what) \/ Released("server", what)
<1>1. UNCHANGED <<state, advert, child>>
  BY DEF ServerMain, ServerStart, ServerBind, ServerRequestWait, ServerRequestCheck,
       ServerSetupQp, SetupBuffers, PostFirstRecv, ServerAccept, ServerAcceptWait,
       ServerAcceptCheck, ServerPingWait, ServerRead, ServerReadWait, ServerWrite,
       ServerWriteWait, ServerNextRound, ServerGoAhead, Disconnect, FreeBuffers, FreeQp,
       FreeCq, ServerDestroyChild, ServerDestroyListener, WaitEvent, contextVars
<1> DEFINE Taken == \E what \in SUBSET Resource :
                      Holding("server", what) \/ Released("server", what)
<1>2. ServerStart => held' = held \/ Taken
  <2>1. {"context", "cm_id"} \subseteq Resource /\ {"context"} \subseteq Resource
    BY DEF Resource
  <2> QED BY <2>1 DEF ServerStart
<1>3. ServerSetupQp => held' = held \/ Taken
  <2>1. /\ {"pd", "cq", "qp"} \subseteq Resource
        /\ \A left \in {"pd", "cq"} : {left} \subseteq Resource
    BY DEF Resource, VerbsObject
  <2> QED BY <2>1 DEF ServerSetupQp, QpSetUp
<1>4. SetupBuffers("server") => held' = held \/ Taken
  <2>1. /\ BufferResources("server") \subseteq Resource
        /\ \A left \in LeftByBail("server") : left \subseteq Resource
    BY DEF BufferResources, LeftByBail, Resource, Mapping, Memory, VerbsObject
  <2> QED BY <2>1 DEF SetupBuffers
<1>5. FreeBuffers("server") => held' = held \/ Taken
  <2>1. {"dma_mr"} \cup Mapping \cup Memory \subseteq Resource
    BY DEF Resource, VerbsObject
  <2> QED BY <2>1 DEF FreeBuffers
<1>6. FreeQp("server") \/ FreeCq("server", "destroy_child") \/ ServerDestroyChild
        \/ ServerDestroyListener => held' = held \/ Taken
  <2>1. {"qp"} \subseteq Resource /\ {"cq", "pd"} \subseteq Resource
        /\ {"cm_id", "context"} \subseteq Resource /\ {"child"} \subseteq Resource
    BY DEF Resource, VerbsObject
  <2> QED BY <2>1 DEF FreeQp, FreeCq, ServerDestroyChild, ServerDestroyListener
<1>7. ServerMain => held' = held \/ Taken
  <2> HIDE DEF Taken
  <2> QED
    BY <1>2, <1>3, <1>4, <1>5, <1>6
    DEF ServerMain, ServerBind, ServerRequestWait, ServerRequestCheck, PostFirstRecv,
        ServerAccept, ServerAcceptWait, ServerAcceptCheck, ServerPingWait, ServerRead,
        ServerReadWait, ServerWrite, ServerWriteWait, ServerNextRound, ServerGoAhead,
        Disconnect, WaitEvent, contextVars
<1> QED BY <1>1, <1>7

\* The callbacks write one of the ten states and wake their side's thread; what they
\* remember stays a resource.
LEMMA CallbackContext ==
  ASSUME TypeOK, NEW s \in Side, Callbacks(s)
  PROVE  ContextTypeOK'
<1> USE SideFacts DEF TypeOK, ContextTypeOK
<1>s. {IDLE, CONNECT_REQUEST, ADDR_RESOLVED, ROUTE_RESOLVED, CONNECTED, RDMA_READ_ADV,
       RDMA_READ_COMPLETE, RDMA_WRITE_ADV, RDMA_WRITE_COMPLETE, ERROR} \subseteq TestState
  BY DEF TestState, IDLE, CONNECT_REQUEST, ADDR_RESOLVED, ROUTE_RESOLVED, CONNECTED,
         RDMA_READ_ADV, RDMA_READ_COMPLETE, RDMA_WRITE_ADV, RDMA_WRITE_COMPLETE, ERROR
<1>1. CASE CmaEvent(s)
  <2>1. "child" \in Resource
    BY DEF Resource
  <2>2. StateOfEvent(s, Head(cmq[s])) \in TestState
    BY <1>s DEF StateOfEvent
  <2> QED BY <1>1, <1>s, <2>1, <2>2 DEF CmaEvent, AddrResolved, ConnectRequested, StateAndWake,
             DeviceRemovalLogged, SetState
<1>2. CASE CmaChild(s) \/ CmaWake(s)
  BY <1>2 DEF CmaChild, CmaWake, contextVars
<1>3. CASE CqEvent(s) \/ CqArm(s) \/ CqPollEmpty(s) \/ CqWake(s)
  BY <1>3 DEF CqEvent, CqArm, CqPollEmpty, CqWake, contextVars
<1>4. CASE CqPoll(s)
  <2>1. cqe[s] # <<>> => Head(cqe[s]).info \in Buffer \cup {NoBuffer}
    <3>1. cqe[s] \in Seq(Wc)
      BY DEF CqTypeOK
    <3>2. ASSUME cqe[s] # <<>> PROVE Head(cqe[s]) \in Wc
      BY <3>1, <3>2
    <3> QED BY <3>2 DEF Wc
  <2> QED BY <1>4, <1>s, <2>1 DEF CqPoll, recv, server_recv, client_recv, SetState
<1>5. CASE CqRepost(s)
  BY <1>5, <1>s DEF CqRepost, SetState
<1> QED BY <1>1, <1>2, <1>3, <1>4, <1>5
    DEF Callbacks, megaVM_cma_event_handler, megaVM_cq_event_handler

\* Nothing else touches the context.
LEMMA OtherContext ==
  ASSUME NEW s \in Side,
         \/ Adapter(s) \/ ConnectionEstablished \/ ConnectTimeout
         \/ StrayEvent(s) \/ Signal(s)
  PROVE  UNCHANGED contextVars
BY DEF Adapter, Transmit, TransmitFails, ReadArrives, CompleteSend, ConnectionEstablished,
       ConnectTimeout, StrayEvent, Signal

\* Whatever step is taken, the context of both sides stays well typed.
LEMMA ContextStep ==
  ASSUME TypeInv, Next
  PROVE  ContextTypeOK'
<1> USE SideFacts DEF TypeInv, TypeOK
<1>1. CASE ClientMain
  BY <1>1, ClientContext, HoldingType
  DEF ContextTypeOK, SetState, TestState, IDLE, ERROR, RDMA_READ_ADV
<1>2. CASE ServerMain
  BY <1>2, ServerContext, HoldingType DEF ContextTypeOK
<1>3. CASE \E s \in Side : Callbacks(s)
  BY <1>3, CallbackContext
<1>4. CASE \E s \in Side : Adapter(s) \/ StrayEvent(s) \/ Signal(s)
  BY <1>4, OtherContext DEF ContextTypeOK, contextVars
<1>5. CASE ConnectionEstablished \/ ConnectTimeout \/ UNCHANGED vars
  BY <1>5, OtherContext DEF vars, ContextTypeOK, contextVars
<1> QED BY <1>1, <1>2, <1>3, <1>4, <1>5 DEF Next, Progress, Fault, Over

\* What is on a send queue are work requests, before and after they go out.
LEMMA SqEntryType ==
  ASSUME QpTypeOK, NEW s \in Side, NEW k \in 1 .. Len(sq[s])
  PROVE  /\ sq[s][k].op \in Operation /\ sq[s][k].val \in Content
         /\ sq[s][k].buf \in Buffer \cup {NoBuffer}
         /\ [sq EXCEPT ![s][k].phase = "done"] \in [Side -> Seq(Wr)]
         /\ \A val \in Content :
              [sq EXCEPT ![s][k].phase = "fetched", ![s][k].val = val] \in [Side -> Seq(Wr)]
<1>1. sq \in [Side -> Seq(Wr)] /\ sq[s] \in Seq(Wr)
  BY DEF QpTypeOK
<1>2. sq[s][k] \in Wr
  BY <1>1
<1>3. /\ sq[s][k].op \in Operation /\ sq[s][k].val \in Content
      /\ sq[s][k].buf \in Buffer \cup {NoBuffer}
  BY <1>2 DEF Wr
<1>4. \A wr \in Wr : [sq EXCEPT ![s][k] = wr] \in [Side -> Seq(Wr)]
  BY <1>1
<1>5. [sq[s][k] EXCEPT !.phase = "done"] \in Wr
  BY <1>2 DEF Wr
<1>6. \A val \in Content : [sq[s][k] EXCEPT !.phase = "fetched", !.val = val] \in Wr
  BY <1>2 DEF Wr
<1>7. [sq EXCEPT ![s][k].phase = "done"] = [sq EXCEPT ![s][k] = [sq[s][k] EXCEPT !.phase = "done"]]
  BY <1>1, <1>2
<1>8. \A val \in Content :
        [sq EXCEPT ![s][k].phase = "fetched", ![s][k].val = val]
          = [sq EXCEPT ![s][k] = [sq[s][k] EXCEPT !.phase = "fetched", !.val = val]]
  BY <1>1, <1>2
<1> QED BY <1>3, <1>4, <1>5, <1>6, <1>7, <1>8

\* Only the client's fill, the reads and the writes touch the buffers.
LEMMA ClientBuffer ==
  ASSUME ClientMain
  PROVE  ClientSend \/ UNCHANGED bufferVars
BY DEF ClientMain, ClientStart, ClientBind, ClientBindWait, ClientBindCheck, ClientSetupQp,
       SetupBuffers, PostFirstRecv, ClientConnect, ClientConnectWait, ClientConnectCheck,
       ClientAdvertise, ClientGoAheadWait, Disconnect, FreeBuffers, FreeQp, FreeCq,
       ClientDestroyId, WaitEvent

\* The server's main thread leaves the contents of the buffers alone.
LEMMA ServerBuffer ==
  ASSUME ServerMain
  PROVE  UNCHANGED bufferVars
BY DEF ServerMain, ServerStart, ServerBind, ServerRequestWait, ServerRequestCheck,
       ServerSetupQp, SetupBuffers, PostFirstRecv, ServerAccept, ServerAcceptWait,
       ServerAcceptCheck, ServerPingWait, ServerRead, ServerReadWait, ServerWrite,
       ServerWriteWait, ServerNextRound, ServerGoAhead, Disconnect, FreeBuffers, FreeQp,
       FreeCq, ServerDestroyChild, ServerDestroyListener, WaitEvent

\* So do the callbacks, the connection managers, and the adapters where no data arrives.
LEMMA OtherBuffer ==
  ASSUME NEW s \in Side,
         \/ Callbacks(s) \/ ConnectionEstablished \/ ConnectTimeout
         \/ StrayEvent(s) \/ Signal(s) \/ CompleteSend(s)
         \/ \E k \in 1 .. Len(sq[s]) : TransmitFails(s, k)
  PROVE  UNCHANGED bufferVars
BY DEF Callbacks, megaVM_cma_event_handler, CmaEvent, CmaChild, CmaWake,
       megaVM_cq_event_handler, CqEvent, CqArm, CqPollEmpty, CqPoll, CqRepost, CqWake,
       TransmitFails, CompleteSend, ConnectionEstablished, ConnectTimeout, StrayEvent, Signal

\* The buffers keep their type: a ping, or junk.
LEMMA BufferStep ==
  ASSUME TypeInv, Next
  PROVE  BufferTypeOK'
<1> USE SideFacts DEF TypeInv, TypeOK
<1> DEFINE Touching == \/ ClientSend
                       \/ \E s \in Side : \E k \in 1 .. Len(sq[s]) :
                            Transmit(s, k) \/ ReadArrives(s, k)
<1>1. CASE ClientSend
  BY <1>1 DEF ClientSend, BufferTypeOK, Buffer, Content
<1>2. ASSUME NEW s \in Side, NEW k \in 1 .. Len(sq[s]), Transmit(s, k)
      PROVE  BufferTypeOK'
  <2>1. sq[s][k].op \in Operation
    BY SqEntryType
  <2>2. mem' = mem \/ mem' = [mem EXCEPT ![sq[s][k].buf] = rdmaBuf]
    BY <1>2 DEF Transmit
  <2>3. rdmaBuf' = rdmaBuf
    BY <1>2 DEF Transmit
  <2>4. carried' = carried \/ carried' = [carried EXCEPT ![sq[s][k].op] = @ + 1]
    BY <1>2 DEF Transmit
  <2> QED BY <2>1, <2>2, <2>3, <2>4 DEF BufferTypeOK
<1>3. ASSUME NEW s \in Side, NEW k \in 1 .. Len(sq[s]), ReadArrives(s, k)
      PROVE  BufferTypeOK'
  <2>1. sq[s][k].val \in Content
    BY SqEntryType
  <2>2. rdmaBuf' = sq[s][k].val /\ UNCHANGED <<mem, carried>>
    BY <1>3 DEF ReadArrives
  <2> QED BY <2>1, <2>2 DEF BufferTypeOK
<1>4. Touching \/ UNCHANGED bufferVars
  BY ClientBuffer, ServerBuffer, OtherBuffer DEF Adapter, Next, Progress, Fault, Over, vars
<1> QED BY <1>1, <1>2, <1>3, <1>4 DEF BufferTypeOK, bufferVars

\* The main threads' dealings with the connection managers.
LEMMA MainCm ==
  ASSUME TypeInv, ClientMain \/ ServerMain
  PROVE  CmTypeOK'
<1> USE SideFacts DEF TypeInv, TypeOK
<1> DEFINE Dealing == \/ ClientBind \/ ClientConnect \/ ClientDestroyId \/ ServerAccept
                      \/ ServerDestroyChild \/ ServerDestroyListener
                      \/ \E s \in Side : Disconnect(s)
<1>1. Dealing \/ UNCHANGED cmVars
  <2>1. CASE ClientMain
    BY <2>1
    DEF ClientMain, ClientStart, ClientBindWait, ClientBindCheck, ClientSetupQp,
        SetupBuffers, PostFirstRecv, ClientConnectWait, ClientConnectCheck,
        ClientAdvertise, ClientSend, ClientGoAheadWait, FreeBuffers, FreeQp, FreeCq, WaitEvent
  <2>2. CASE ServerMain
    BY <2>2
    DEF ServerMain, ServerStart, ServerBind, ServerRequestWait, ServerRequestCheck,
        ServerSetupQp, SetupBuffers, PostFirstRecv, ServerAcceptWait, ServerAcceptCheck,
        ServerPingWait, ServerRead, ServerReadWait, ServerWrite, ServerWriteWait,
        ServerNextRound, ServerGoAhead, FreeBuffers, FreeQp, FreeCq, WaitEvent
  <2> QED BY <2>1, <2>2
<1>2. cmq \in [Side -> Seq(CmEvent)]
  BY DEF CmTypeOK
<1>3. \A s \in Side : /\ Heard(s, <<>>) \in Seq(CmEvent)
                      /\ \A event \in CmEvent : Heard(s, <<event>>) \in Seq(CmEvent)
  BY <1>2, HeardType
<1>5. /\ "ADDR_RESOLVED" \in CmEvent /\ "ADDR_ERROR" \in CmEvent
      /\ "CONNECT_REQUEST" \in CmEvent /\ "REJECTED" \in CmEvent /\ "DISCONNECTED" \in CmEvent
  BY DEF CmEvent
<1>6. ASSUME ClientBind PROVE CmTypeOK'
  <2>1. \/ cmq' = cmq
        \/ \E event \in CmEvent : cmq' = [cmq EXCEPT !["client"] = Append(@, event)]
    BY <1>5, <1>6 DEF ClientBind
  <2>2. UNCHANGED <<cmh, conn>>
    BY <1>6 DEF ClientBind
  <2>3. cmq' \in [Side -> Seq(CmEvent)]
    BY <1>2, <2>1, AppendEventType
  <2> QED BY <2>2, <2>3 DEF CmTypeOK
<1>7. ASSUME ClientConnect PROVE CmTypeOK'
  <2>1. \/ cmq' = cmq
        \/ \E s \in Side : \E event \in CmEvent : cmq' = [cmq EXCEPT ![s] = Append(@, event)]
    BY <1>5, <1>7 DEF ClientConnect, ConnectRequest
  <2>2. cmh' = cmh /\ conn' \in {conn, "requested", "closed"}
    BY <1>7 DEF ClientConnect, ConnectRequest
  <2>3. cmq' \in [Side -> Seq(CmEvent)]
    BY <1>2, <2>1, AppendEventType
  <2> QED BY <2>2, <2>3 DEF CmTypeOK
<1>8. ASSUME NEW s \in Side, Disconnect(s) PROVE CmTypeOK'
  <2>1. \A x \in Side : Heard(x, <<"DISCONNECTED">>) \in Seq(CmEvent)
    BY <1>3, <1>5
  <2> QED BY <1>8, <2>1 DEF Disconnect, DisconnectConnection, CmTypeOK
<1>9. ASSUME NEW s \in Side, DestroyConnectionId(s), UNCHANGED cmh PROVE CmTypeOK'
  <2>1. Heard(Peer(s), <<"DISCONNECTED">>) \in Seq(CmEvent)
        /\ Heard(Peer(s), <<"REJECTED">>) \in Seq(CmEvent)
        /\ Heard(Peer(s), <<>>) \in Seq(CmEvent)
        /\ <<>> \in Seq(CmEvent)
    BY <1>3, <1>5
  <2> QED BY <1>9, <2>1 DEF DestroyConnectionId, CmTypeOK
<1>10. Heard("client", <<"REJECTED">>) \in Seq(CmEvent) /\ <<>> \in Seq(CmEvent)
  BY <1>3, <1>5
<1>11. ASSUME ServerAccept PROVE CmTypeOK'
  BY <1>11, <1>10 DEF ServerAccept, CmTypeOK
<1>12. ASSUME ServerDestroyListener PROVE CmTypeOK'
  <2>1. \/ cmq' = cmq
        \/ cmq' = [cmq EXCEPT !["server"] = <<>>]
        \/ cmq' = [cmq EXCEPT !["server"] = <<>>, !["client"] = Heard("client", <<"REJECTED">>)]
    <3>1. cmq = [cmq EXCEPT !["client"] = @]
      BY <1>2
    <3> QED BY <1>2, <1>12, <3>1 DEF ServerDestroyListener
  <2>2. cmh' = cmh /\ conn' \in {conn, "closed"}
    BY <1>12 DEF ServerDestroyListener
  <2>3. cmq' \in [Side -> Seq(CmEvent)]
    BY <1>2, <1>10, <2>1
  <2> QED BY <2>2, <2>3 DEF CmTypeOK
<1>13. ASSUME ClientDestroyId \/ ServerDestroyChild PROVE CmTypeOK'
  BY <1>9, <1>13 DEF ClientDestroyId, ServerDestroyChild
<1> QED BY <1>1, <1>6, <1>7, <1>8, <1>11, <1>12, <1>13 DEF CmTypeOK, cmVars

\* What the callback of rdma_cm takes off its queue, and puts back.
LEMMA CmaCm ==
  ASSUME TypeOK, NEW s \in Side, megaVM_cma_event_handler(s)
  PROVE  CmTypeOK'
<1> USE SideFacts DEF TypeOK
<1>1. cmq \in [Side -> Seq(CmEvent)] /\ cmq[s] \in Seq(CmEvent)
  BY DEF CmTypeOK
<1>2. "ROUTE_RESOLVED" \in CmEvent /\ "ROUTE_ERROR" \in CmEvent
  BY DEF CmEvent
<1>3. "child" \in CmPhase /\ "wake" \in CmPhase /\ "idle" \in CmPhase
  BY DEF CmPhase
<1>4. CASE CmaEvent(s)
  <2>1. \/ cmq' = [cmq EXCEPT ![s] = Tail(@)]
        \/ \E event \in CmEvent : cmq' = [cmq EXCEPT ![s] = Append(Tail(@), event)]
    BY <1>2, <1>4 DEF CmaEvent, AddrResolved, ConnectRequested, StateAndWake,
                      DeviceRemovalLogged
  <2>2. cmh' = cmh \/ cmh' = [cmh EXCEPT ![s] = "wake"] \/ cmh' = [cmh EXCEPT ![s] = "child"]
    BY <1>4 DEF CmaEvent, AddrResolved, ConnectRequested, StateAndWake, DeviceRemovalLogged
  <2>3. cmq[s] # <<>> /\ conn' = conn
    BY <1>4 DEF CmaEvent
  <2>4. cmq' \in [Side -> Seq(CmEvent)]
    BY <1>1, <2>1, <2>3, TakeEventType
  <2>5. cmh' \in [Side -> CmPhase]
    BY <1>3, <2>2 DEF CmTypeOK
  <2> QED BY <2>3, <2>4, <2>5 DEF CmTypeOK
<1>5. CASE CmaChild(s) \/ CmaWake(s)
  <2>1. /\ cmh' = [cmh EXCEPT ![s] = "wake"] \/ cmh' = [cmh EXCEPT ![s] = "idle"]
        /\ UNCHANGED <<cmq, conn>>
    BY <1>5 DEF CmaChild, CmaWake
  <2>2. cmh \in [Side -> CmPhase]
    BY DEF CmTypeOK
  <2>3. cmh' \in [Side -> CmPhase]
    BY <1>3, <2>1, <2>2
  <2> QED BY <2>1, <2>3 DEF CmTypeOK
<1> QED BY <1>4, <1>5 DEF megaVM_cma_event_handler

\* The connection managers: what they put on the event queues are events.
LEMMA ManagerCm ==
  ASSUME TypeOK, NEW s \in Side, ConnectionEstablished \/ ConnectTimeout \/ StrayEvent(s)
  PROVE  CmTypeOK'
<1> USE SideFacts DEF TypeOK
<1>1. cmq \in [Side -> Seq(CmEvent)]
  BY DEF CmTypeOK
<1>2. \A x \in Side : \A event \in CmEvent : Heard(x, <<event>>) \in Seq(CmEvent)
  BY <1>1, HeardType
<1>3. \A event \in CmEvent : <<event>> \in Seq(CmEvent)
  OBVIOUS
<1>4. {"ESTABLISHED", "CONNECT_ERROR", "REJECTED", "UNREACHABLE", "DEVICE_REMOVAL",
       "TIMEWAIT_EXIT"} \subseteq CmEvent
  BY DEF CmEvent
<1>5. CASE ConnectionEstablished
  <2>1. \A x \in Side : Heard(x, <<"ESTABLISHED">>) \in Seq(CmEvent)
    BY <1>2, <1>3, <1>4
  <2>2. Heard("client", <<"CONNECT_ERROR">>) \in Seq(CmEvent)
        /\ Heard("server", <<"REJECTED">>) \in Seq(CmEvent)
    BY <1>2, <1>3, <1>4
  <2>3. \/ cmq' = [x \in Side |-> Heard(x, <<"ESTABLISHED">>)]
        \/ cmq' = [cmq EXCEPT !["client"] = Heard("client", <<"CONNECT_ERROR">>),
                              !["server"] = Heard("server", <<"REJECTED">>)]
    BY <1>5 DEF ConnectionEstablished
  <2>4. cmh' = cmh /\ conn' \in {"established", "closed"}
    BY <1>5 DEF ConnectionEstablished
  <2>5. cmq' \in [Side -> Seq(CmEvent)]
    <3>1. [x \in Side |-> Heard(x, <<"ESTABLISHED">>)] \in [Side -> Seq(CmEvent)]
      BY <2>1
    <3>2. [cmq EXCEPT !["client"] = Heard("client", <<"CONNECT_ERROR">>),
                      !["server"] = Heard("server", <<"REJECTED">>)] \in [Side -> Seq(CmEvent)]
      BY <1>1, <2>2
    <3> QED BY <2>3, <3>1, <3>2
  <2> QED BY <2>4, <2>5 DEF CmTypeOK
<1>6. CASE ConnectTimeout
  <2>1. Heard("client", <<"UNREACHABLE">>) \in Seq(CmEvent)
        /\ Heard("server", <<"REJECTED">>) \in Seq(CmEvent)
    BY <1>2, <1>3, <1>4
  <2> QED BY <1>6, <2>1 DEF ConnectTimeout, CmTypeOK
<1>7. CASE StrayEvent(s)
  <2>1. <<"DEVICE_REMOVAL">> \in Seq(CmEvent) /\ <<"TIMEWAIT_EXIT">> \in Seq(CmEvent)
    BY <1>3, <1>4
  <2> QED BY <1>7, <2>1 DEF StrayEvent, CmTypeOK
<1> QED BY <1>5, <1>6, <1>7

\* The completion callback, the adapters and the signals do not touch the connection
\* managers.
LEMMA OtherCm ==
  ASSUME NEW s \in Side, megaVM_cq_event_handler(s) \/ Adapter(s) \/ Signal(s)
  PROVE  UNCHANGED cmVars
BY DEF megaVM_cq_event_handler, CqEvent, CqArm, CqPollEmpty, CqPoll, CqRepost, CqWake,
       Adapter, Transmit, TransmitFails, ReadArrives, CompleteSend, Signal

\* Whatever step is taken, the connection managers' part stays well typed.
LEMMA CmStep ==
  ASSUME TypeInv, Next
  PROVE  CmTypeOK'
<1> USE SideFacts DEF TypeInv
<1>1. CASE ClientMain \/ ServerMain
  BY <1>1, MainCm
<1>2. CASE \E s \in Side : megaVM_cma_event_handler(s)
  BY <1>2, CmaCm
<1>3. CASE ConnectionEstablished \/ ConnectTimeout \/ \E s \in Side : StrayEvent(s)
  BY <1>3, ManagerCm
<1>4. CASE \/ UNCHANGED vars
           \/ \E s \in Side : megaVM_cq_event_handler(s) \/ Adapter(s) \/ Signal(s)
  BY <1>4, OtherCm DEF TypeOK, CmTypeOK, cmVars, vars
<1> QED BY <1>1, <1>2, <1>3, <1>4 DEF Next, Progress, Fault, Over, Callbacks

\* What the main threads do to the queues, besides posting: they arm the completion
\* queue, take the queue pair down and destroy both.
LEMMA MainQueues ==
  ASSUME TypeInv, ClientMain \/ ServerMain
  PROVE  CqTypeOK' /\ QpTypeOK'
<1> USE SideFacts DEF TypeInv, TypeOK
<1> DEFINE Posting == \/ ClientSend \/ ServerRead \/ ServerWrite \/ ServerGoAhead
           Setting == ClientSetupQp \/ ServerSetupQp
           Receiving == PostFirstRecv("client", "connect") \/ PostFirstRecv("server", "accept")
           Failing == \E s \in Side : Disconnect(s)
           Freeing == \/ \E s \in Side : FreeQp(s)
                      \/ FreeCq("client", "destroy_id") \/ FreeCq("server", "destroy_child")
<1>1. CASE Posting
  <2>1. PICK s \in Side, op \in Operation, buf \in Buffer \cup {NoBuffer} : PostSend(s, op, buf)
    <3>1. advert \in Buffer \cup {NoBuffer}
      BY DEF ContextTypeOK
    <3> QED BY <1>1, <3>1 DEF ClientSend, ServerRead, ServerWrite, ServerGoAhead, Operation, Buffer
  <2>2. UNCHANGED <<cqh, qp, rq>>
    BY <1>1 DEF ClientSend, ServerRead, ServerWrite, ServerGoAhead
  <2> QED BY <2>1, <2>2, PostSendType DEF CqTypeOK, QpTypeOK
<1>2. CASE Setting
  <2>1. UNCHANGED <<cqh, cqe, cqevent, sq, rq>>
    BY <1>2 DEF ClientSetupQp, ServerSetupQp
  <2>2. /\ armed' \in {armed, armed \cup {"client"}, armed \cup {"server"}}
        /\ \/ qp' = qp
           \/ \E s \in Side : qp' = [qp EXCEPT ![s] = "init"]
    BY <1>2 DEF ClientSetupQp, ServerSetupQp, QpSetUp
  <2> QED BY <2>1, <2>2 DEF CqTypeOK, QpTypeOK
<1>3. CASE Receiving
  <2>1. \/ UNCHANGED <<rq, cqe, armed, cqevent>>
        \/ \E s \in Side : PostRecv(s)
    BY <1>3 DEF PostFirstRecv
  <2>2. UNCHANGED <<cqh, qp, sq>>
    BY <1>3 DEF PostFirstRecv
  <2> QED BY <2>1, <2>2, PostRecvType DEF CqTypeOK, QpTypeOK
<1>4. ASSUME NEW s \in Side, QpError({s}, Only(s, Flushed(s, 0))), UNCHANGED cqh
      PROVE  CqTypeOK' /\ QpTypeOK'
  <2>1. Only(s, Flushed(s, 0)) \in [Side -> Seq(Wc)]
    BY FlushedType, OnlyType
  <2> QED BY <1>4, <2>1, QpErrorType DEF CqTypeOK, QpTypeOK
<1>5. CASE Failing
  BY <1>4, <1>5 DEF Disconnect, DisconnectConnection
<1>6. CASE ServerAccept
  <2>1. CASE QpError({"server"}, Only("server", Flushed("server", 0)))
    BY <1>4, <1>6, <2>1 DEF ServerAccept
  <2>2. CASE /\ qp' = [qp EXCEPT !["server"] = "rts"]
             /\ UNCHANGED <<cqh, sq, rq, cqe, armed, cqevent>>
    BY <2>2 DEF CqTypeOK, QpTypeOK
  <2> QED BY <1>6, <2>1, <2>2 DEF ServerAccept
<1>7. CASE Freeing
  <2>1. CASE \E s \in Side : FreeQp(s)
    BY <2>1 DEF FreeQp, CqTypeOK, QpTypeOK
  <2>2. CASE FreeCq("client", "destroy_id") \/ FreeCq("server", "destroy_child")
    BY <2>2 DEF FreeCq, CqTypeOK, QpTypeOK, qpVars
  <2> QED BY <1>7, <2>1, <2>2
<1>8. \/ Posting \/ Setting \/ Receiving \/ Failing \/ ServerAccept \/ Freeing
      \/ UNCHANGED <<cqVars, qpVars>>
  <2>1. CASE ClientMain
    BY <2>1
    DEF ClientMain, ClientStart, ClientBind, ClientBindWait, ClientBindCheck, SetupBuffers,
        ClientConnect, ClientConnectWait, ClientConnectCheck, ClientAdvertise,
        ClientGoAheadWait, FreeBuffers, ClientDestroyId, WaitEvent
  <2>2. CASE ServerMain
    BY <2>2
    DEF ServerMain, ServerStart, ServerBind, ServerRequestWait, ServerRequestCheck,
        SetupBuffers, ServerAcceptWait, ServerAcceptCheck, ServerPingWait, ServerReadWait,
        ServerWriteWait, ServerNextRound, FreeBuffers, ServerDestroyChild,
        ServerDestroyListener, WaitEvent
  <2> QED BY <2>1, <2>2
<1> QED BY <1>1, <1>2, <1>3, <1>5, <1>6, <1>7, <1>8 DEF CqTypeOK, QpTypeOK, cqVars, qpVars

\* The completion callback.
LEMMA CqQueues ==
  ASSUME TypeOK, NEW s \in Side, megaVM_cq_event_handler(s)
  PROVE  CqTypeOK' /\ QpTypeOK'
<1> USE DEF TypeOK
<1>1. \E phase \in CqPhase : cqh' = cqh \/ cqh' = [cqh EXCEPT ![s] = phase]
  BY DEF megaVM_cq_event_handler, CqEvent, CqArm, CqPollEmpty, CqPoll, CqRepost, CqWake,
         CqGoto, CqPhase
<1>2. cqh' \in [Side -> CqPhase]
  BY <1>1 DEF CqTypeOK
<1>3. CASE CqEvent(s) \/ CqArm(s) \/ CqPollEmpty(s) \/ CqWake(s)
  <2>1. UNCHANGED <<cqe, qpVars>> /\ armed' \in {armed, armed \cup {s}}
        /\ cqevent' \subseteq cqevent
    BY <1>3 DEF CqEvent, CqArm, CqPollEmpty, CqWake
  <2> QED BY <1>2, <2>1 DEF CqTypeOK, QpTypeOK, qpVars
<1>4. CASE CqPoll(s)
  <2>1. cqe[s] # <<>> /\ cqe' = [cqe EXCEPT ![s] = Tail(@)] /\ UNCHANGED <<armed, cqevent, qpVars>>
    BY <1>4 DEF CqPoll
  <2>2. Tail(cqe[s]) \in Seq(Wc)
    BY <2>1 DEF CqTypeOK
  <2> QED BY <1>2, <2>1, <2>2 DEF CqTypeOK, QpTypeOK, qpVars
<1>5. CASE CqRepost(s)
  <2>1. PostRecv(s) \/ UNCHANGED <<rq, cqe, armed, cqevent>>
    BY <1>5 DEF CqRepost
  <2>2. UNCHANGED <<qp, sq>>
    BY <1>5 DEF CqRepost
  <2> QED BY <1>2, <2>1, <2>2, PostRecvType DEF CqTypeOK, QpTypeOK
<1> QED BY <1>3, <1>4, <1>5 DEF megaVM_cq_event_handler

\* The adapters.
LEMMA AdapterQueues ==
  ASSUME TypeOK, NEW s \in Side, Adapter(s)
  PROVE  CqTypeOK' /\ QpTypeOK'
<1> USE SideFacts DEF TypeOK
<1>1. ASSUME NEW k \in 1 .. Len(sq[s]), Transmit(s, k)
      PROVE  CqTypeOK' /\ QpTypeOK'
  <2>1. sq[s][k].buf \in Buffer \cup {NoBuffer}
    BY SqEntryType
  <2>2. <<WcOf("RECV", "ok", sq[s][k].buf)>> \in Seq(Wc)
    BY <2>1, WcOfType
  <2>3. Only(Peer(s), <<WcOf("RECV", "ok", sq[s][k].buf)>>) \in [Side -> Seq(Wc)]
    BY <2>2, OnlyType
  <2>4. /\ cqe' \in [Side -> Seq(Wc)]
        /\ armed' \subseteq Side
        /\ cqevent' \subseteq Side
    <3>1. CASE UNCHANGED <<cqe, armed, cqevent>>
      BY <3>1 DEF CqTypeOK
    <3>2. CASE AddCompletions(Only(Peer(s), <<WcOf("RECV", "ok", sq[s][k].buf)>>))
      BY <2>3, <3>2, AddCompletionsType
    <3> QED BY <1>1, <3>1, <3>2 DEF Transmit
  <2>5. cqh' = cqh /\ qp' = qp
    BY <1>1 DEF Transmit
  <2>6. sq' \in [Side -> Seq(Wr)]
    <3>1. CASE sq' = [sq EXCEPT ![s][k].phase = "done"]
      BY <3>1, SqEntryType
    <3>2. CASE /\ sq[s][k].op = "READ"
               /\ sq' = [sq EXCEPT ![s][k].phase = "fetched", ![s][k].val = mem[sq[s][k].buf]]
      <4>1. ~AccessRefused(s, sq[s][k]) /\ qp[Peer(s)] = "rts"
        BY <1>1 DEF Transmit, Undeliverable
      <4>2. sq[s][k].buf \in Buffer
        BY <2>1, <3>2, <4>1 DEF AccessRefused
      <4>3. mem[sq[s][k].buf] \in Content
        BY <4>2 DEF BufferTypeOK
      <4> QED BY <3>2, <4>3, SqEntryType
    <3> QED BY <1>1, <3>1, <3>2 DEF Transmit
  <2>7. rq' \in [Side -> Nat]
    <3>1. CASE rq' = rq
      BY <3>1 DEF QpTypeOK
    <3>2. CASE sq[s][k].op = "SEND" /\ rq' = [rq EXCEPT ![Peer(s)] = @ - 1]
      <4>1. rq[Peer(s)] # 0
        BY <1>1, <3>2 DEF Transmit, Undeliverable
      <4> QED BY <3>2, <4>1 DEF QpTypeOK
    <3> QED BY <1>1, <3>1, <3>2 DEF Transmit
  <2> QED BY <2>4, <2>5, <2>6, <2>7 DEF CqTypeOK, QpTypeOK
<1>2. ASSUME NEW k \in 1 .. Len(sq[s]), TransmitFails(s, k)
      PROVE  CqTypeOK' /\ QpTypeOK'
  <2> DEFINE refused == AccessRefused(s, sq[s][k])
             lost == [NoCompletion EXCEPT ![s] = Flushed(s, k),
                                          ![Peer(s)] = IF refused THEN Flushed(Peer(s), 0) ELSE <<>>]
  <2>1. Flushed(s, k) \in Seq(Wc) /\ Flushed(Peer(s), 0) \in Seq(Wc) /\ <<>> \in Seq(Wc)
    BY FlushedType
  <2>2. NoCompletion \in [Side -> Seq(Wc)]
    BY <2>1 DEF NoCompletion
  <2>3. lost \in [Side -> Seq(Wc)]
    BY <2>1, <2>2
  <2>4. QpError(IF refused THEN Side ELSE {s}, lost) /\ cqh' = cqh
    BY <1>2 DEF TransmitFails
  <2> HIDE DEF refused, lost
  <2> QED BY <2>3, <2>4, QpErrorType DEF CqTypeOK, QpTypeOK
<1>3. ASSUME NEW k \in 1 .. Len(sq[s]), ReadArrives(s, k)
      PROVE  CqTypeOK' /\ QpTypeOK'
  <2>1. sq' = [sq EXCEPT ![s][k].phase = "done"] /\ UNCHANGED <<qp, rq, cqVars>>
    BY <1>3 DEF ReadArrives
  <2>2. sq' \in [Side -> Seq(Wr)]
    BY <2>1, SqEntryType
  <2> QED BY <2>1, <2>2 DEF CqTypeOK, QpTypeOK, cqVars
<1>4. CASE CompleteSend(s)
  <2>1. sq[s] # <<>> /\ sq[s] \in Seq(Wr)
    BY <1>4 DEF CompleteSend, QpTypeOK
  <2>2. Tail(sq[s]) \in Seq(Wr) /\ Head(sq[s]) \in Wr
    BY <2>1
  <2>3. Head(sq[s]).op \in Operation
    BY <2>2 DEF Wr
  <2>4. <<WcOf(Head(sq[s]).op, "ok", NoBuffer)>> \in Seq(Wc)
    BY <2>3, WcOfType
  <2>5. Only(s, <<WcOf(Head(sq[s]).op, "ok", NoBuffer)>>) \in [Side -> Seq(Wc)]
    BY <2>4, OnlyType
  <2>6. /\ cqe' \in [Side -> Seq(Wc)]
        /\ armed' \subseteq Side
        /\ cqevent' \subseteq Side
    BY <1>4, <2>5, AddCompletionsType DEF CompleteSend
  <2>7. sq' = [sq EXCEPT ![s] = Tail(@)] /\ UNCHANGED <<qp, rq, cqh>>
    BY <1>4 DEF CompleteSend
  <2>8. sq' \in [Side -> Seq(Wr)]
    BY <2>2, <2>7 DEF QpTypeOK
  <2> QED BY <2>6, <2>7, <2>8 DEF CqTypeOK, QpTypeOK
<1> QED BY <1>1, <1>2, <1>3, <1>4 DEF Adapter

\* The connection callback, the stray events and the signals do not touch the queues.
LEMMA OtherQueues ==
  ASSUME NEW s \in Side, megaVM_cma_event_handler(s) \/ StrayEvent(s) \/ Signal(s)
  PROVE  UNCHANGED <<cqVars, qpVars>>
BY DEF megaVM_cma_event_handler, CmaEvent, CmaChild, CmaWake, StrayEvent, Signal

\* Whatever step is taken, the queue pairs and completion queues stay well typed.
LEMMA QueueStep ==
  ASSUME TypeInv, Next
  PROVE  CqTypeOK' /\ QpTypeOK'
<1> USE DEF TypeInv
<1>1. CASE ClientMain \/ ServerMain
  BY <1>1, MainQueues
<1>2. CASE \E s \in Side : megaVM_cq_event_handler(s) \/ Adapter(s)
  BY <1>2, CqQueues, AdapterQueues
<1>3. CASE ConnectionEstablished
  <2>1. qp' = qp \/ qp' = [qp EXCEPT !["client"] = "rts"]
    BY <1>3 DEF ConnectionEstablished
  <2>2. UNCHANGED <<sq, rq, cqVars>>
    BY <1>3 DEF ConnectionEstablished
  <2> QED BY <2>1, <2>2 DEF TypeOK, CqTypeOK, QpTypeOK, cqVars
<1>4. CASE \/ ConnectTimeout \/ UNCHANGED vars
           \/ \E s \in Side : megaVM_cma_event_handler(s) \/ StrayEvent(s) \/ Signal(s)
  <2>1. UNCHANGED <<cqVars, qpVars>>
    BY <1>4, OtherQueues DEF ConnectTimeout, vars
  <2> QED BY <2>1 DEF TypeOK, CqTypeOK, QpTypeOK, cqVars, qpVars
<1> QED BY <1>1, <1>2, <1>3, <1>4 DEF Next, Progress, Fault, Over, Callbacks

-----------------------------------------------------------------------------
(* The theorems.                                                           *)

\* What is recorded as misuse is a misuse of one side's queue pair, context or child id.
LEMMA MisuseStep ==
  ASSUME TypeInv, Next
  PROVE  misuse' \subseteq Side \X {"qp", "context", "child"}
<1>1. \/ misuse' = misuse
      \/ \E s \in Side : \E what \in {"qp", "context", "child"} : misuse' = misuse \cup {<<s, what>>}
  <2>1. CASE ClientMain
    BY <2>1
    DEF ClientMain, ClientStart, ClientBind, ClientBindWait, ClientBindCheck, ClientSetupQp,
        SetupBuffers, PostFirstRecv, ClientConnect, ClientConnectWait, ClientConnectCheck,
        ClientAdvertise, ClientSend, ClientGoAheadWait, Disconnect, FreeBuffers, FreeQp,
        FreeCq, ClientDestroyId, WaitEvent
  <2>2. CASE ServerMain
    BY <2>2, SideFacts
    DEF ServerMain, ServerStart, ServerBind, ServerRequestWait, ServerRequestCheck,
        ServerSetupQp, SetupBuffers, PostFirstRecv, ServerAccept, ServerAcceptWait,
        ServerAcceptCheck, ServerPingWait, ServerRead, ServerReadWait, ServerWrite,
        ServerWriteWait, ServerNextRound, ServerGoAhead, Disconnect, FreeBuffers, FreeQp,
        FreeCq, ServerDestroyChild, ServerDestroyListener, WaitEvent
  <2>3. ASSUME NEW s \in Side, Callbacks(s) PROVE (misuse' = misuse \/ \E what \in {"qp", "context", "child"} :
                         misuse' = misuse \cup {<<s, what>>})
    BY <2>3
    DEF Callbacks, megaVM_cma_event_handler, CmaEvent, CmaChild, CmaWake, NoteFreedContext,
        megaVM_cq_event_handler, CqEvent, CqArm, CqPollEmpty, CqPoll, CqRepost, CqWake
  <2>4. ASSUME NEW s \in Side, Adapter(s) \/ StrayEvent(s) \/ Signal(s) PROVE misuse' = misuse
    BY <2>4 DEF Adapter, Transmit, TransmitFails, ReadArrives, CompleteSend, StrayEvent, Signal
  <2>5. CASE ConnectionEstablished \/ ConnectTimeout \/ UNCHANGED vars
    BY <2>5 DEF ConnectionEstablished, ConnectTimeout, vars
  <2> QED BY <2>1, <2>2, <2>3, <2>4, <2>5 DEF Next, Progress, Fault, Over
<1> QED BY <1>1 DEF TypeInv, TypeOK

\* The modules as they are loaded satisfy TypeInv.
LEMMA InitType == Init => TypeInv
<1> SUFFICES ASSUME Init PROVE TypeInv
  OBVIOUS
<1> USE DEF Init, InitContext
<1>1. ThreadTypeOK /\ LoopInv
  BY IbContextAssumption DEF ThreadTypeOK, LoopInv, ClientLabel, Side
<1>2. ContextTypeOK
  BY DEF ContextTypeOK, TestState, IDLE, ERROR
<1>3. BufferTypeOK
  BY DEF BufferTypeOK, Content
<1>4. CmTypeOK
  BY DEF CmTypeOK, CmPhase
<1>5. CqTypeOK
  BY DEF CqTypeOK, CqPhase
<1>6. QpTypeOK
  BY DEF QpTypeOK
<1> QED BY <1>1, <1>2, <1>3, <1>4, <1>5, <1>6 DEF TypeInv, TypeOK

\* A step that changes nothing preserves TypeInv.
LEMMA StutterType ==
  ASSUME TypeInv, UNCHANGED vars
  PROVE  TypeInv'
BY DEF vars, threadVars, contextVars, bufferVars, cmVars, cqVars, qpVars, TypeInv, TypeOK,
       LoopInv, ThreadTypeOK, ContextTypeOK, BufferTypeOK, CmTypeOK, CqTypeOK, QpTypeOK

\* TypeInv is inductive.
THEOREM TypeInvariance == Spec => []TypeInv
<1>1. TypeInv /\ [Next]_vars => TypeInv'
  BY ThreadStep, ContextStep, BufferStep, CmStep, QueueStep, MisuseStep, StutterType
  DEF TypeInv, TypeOK
<1> QED BY <1>1, InitType, PTL DEF Spec

\* Every variable keeps its type in every reachable state; the loop of
\* start_MegaVM_server makes no more than Rounds rounds, whatever its waits and posts
\* return and whatever fails.
THEOREM TypeCorrect == Spec => []TypeOK
<1>1. TypeInv => TypeOK
  BY DEF TypeInv
<1> QED BY <1>1, TypeInvariance, PTL

-----------------------------------------------------------------------------
(* No wake-up is lost.                                                     *)

\* Addresses are resolved for the client only.
ServerEvent == CmEvent \ {"ADDR_RESOLVED"}

\* NoMissedWakeup is inductive with two facts about where things stand: a sleeping
\* thread is at one of its waits, and the server's callback, which is not even
\* registered for it, never sees ADDR_RESOLVED - the one event that moves the state
\* without a wake-up, and far enough for the server's wait for CONNECT_REQUEST.
SleepInv ==
  /\ "client" \in asleep => pc["client"] \in {"bind_wait", "connect_wait", "goahead_wait"}
  /\ "server" \in asleep =>
       pc["server"] \in {"request_wait", "accept_wait", "ping_wait", "read_wait", "write_wait"}

WakeInv ==
  /\ TypeInv
  /\ SleepInv
  /\ cmq["server"] \in Seq(ServerEvent)
  /\ NoMissedWakeup

\* The states the waits of the two sides wait for.
LEMMA Thresholds ==
  /\ Threshold["bind_wait"] = ROUTE_RESOLVED
  /\ Threshold["connect_wait"] = CONNECTED
  /\ Threshold["goahead_wait"] = RDMA_WRITE_ADV
  /\ Threshold["request_wait"] = CONNECT_REQUEST
  /\ Threshold["accept_wait"] = CONNECTED
  /\ Threshold["ping_wait"] = RDMA_READ_ADV
  /\ Threshold["read_wait"] = RDMA_READ_COMPLETE
  /\ Threshold["write_wait"] = RDMA_WRITE_COMPLETE
BY DEF Threshold

\* The server's connection events.
LEMMA ServerEvents ==
  ASSUME WakeInv, Next
  PROVE  cmq'["server"] \in Seq(ServerEvent)
<1> USE SideFacts
<1> DEFINE mine == cmq["server"]
<1>1. cmq \in [Side -> Seq(CmEvent)] /\ mine \in Seq(ServerEvent)
  BY DEF WakeInv, TypeInv, TypeOK, CmTypeOK
<1>2. /\ "CONNECT_REQUEST" \in ServerEvent /\ "REJECTED" \in ServerEvent
      /\ "DISCONNECTED" \in ServerEvent /\ "ESTABLISHED" \in ServerEvent
      /\ "ROUTE_RESOLVED" \in ServerEvent /\ "ROUTE_ERROR" \in ServerEvent
      /\ "DEVICE_REMOVAL" \in ServerEvent /\ "TIMEWAIT_EXIT" \in ServerEvent
  BY DEF ServerEvent, CmEvent
<1>3. /\ <<>> \in Seq(ServerEvent)
      /\ \A event \in ServerEvent : <<event>> \in Seq(ServerEvent)
      /\ \A event \in ServerEvent : Append(mine, event) \in Seq(ServerEvent)
      /\ \A event \in ServerEvent : mine \o <<event>> \in Seq(ServerEvent)
  BY <1>1
<1>4. /\ Heard("server", <<>>) \in Seq(ServerEvent)
      /\ \A event \in ServerEvent : Heard("server", <<event>>) \in Seq(ServerEvent)
  <2>1. mine \o <<>> \in Seq(ServerEvent)
    BY <1>1
  <2> QED BY <1>1, <1>3, <2>1 DEF Heard
<1>5. mine # <<>> =>
        /\ Tail(mine) \in Seq(ServerEvent)
        /\ \A event \in ServerEvent : Append(Tail(mine), event) \in Seq(ServerEvent)
  BY <1>1
<1>6. CASE ClientMain
  <2>1. CASE ClientBind
    BY <1>1, <2>1 DEF ClientBind
  <2>2. CASE ClientConnect
    <3>1. \/ cmq' = [cmq EXCEPT !["server"] = Append(@, "CONNECT_REQUEST")]
          \/ cmq' = [cmq EXCEPT !["client"] = Append(@, "REJECTED")]
          \/ cmq' = cmq
      BY <2>2 DEF ClientConnect, ConnectRequest
    <3>2. Append(mine, "CONNECT_REQUEST") \in Seq(ServerEvent)
      BY <1>2, <1>3
    <3> QED BY <1>1, <3>1, <3>2
  <2>3. CASE ClientDestroyId
    BY <1>1, <1>2, <1>4, <2>3 DEF ClientDestroyId, DestroyConnectionId, Peer
  <2>4. CASE Disconnect("client")
    BY <1>1, <1>2, <1>4, <2>4 DEF Disconnect, DisconnectConnection
  <2>5. ClientBind \/ ClientConnect \/ ClientDestroyId \/ Disconnect("client") \/ UNCHANGED cmq
    BY <1>6
    DEF ClientMain, ClientStart, ClientBindWait, ClientBindCheck, ClientSetupQp,
        SetupBuffers, PostFirstRecv, ClientConnectWait, ClientConnectCheck,
        ClientAdvertise, ClientSend, ClientGoAheadWait, FreeBuffers, FreeQp, FreeCq,
        WaitEvent, cmVars
  <2> QED BY <1>1, <2>1, <2>2, <2>3, <2>4, <2>5
<1>7. CASE ServerMain
  <2>1. CASE ServerAccept
    BY <1>1, <2>1 DEF ServerAccept
  <2>2. CASE ServerDestroyChild
    BY <1>1, <1>3, <2>2 DEF ServerDestroyChild, DestroyConnectionId, Peer
  <2>3. CASE ServerDestroyListener
    BY <1>1, <1>3, <2>3 DEF ServerDestroyListener
  <2>4. CASE Disconnect("server")
    BY <1>1, <1>2, <1>4, <2>4 DEF Disconnect, DisconnectConnection
  <2>5. \/ ServerAccept \/ ServerDestroyChild \/ ServerDestroyListener \/ Disconnect("server")
        \/ UNCHANGED cmq
    BY <1>7
    DEF ServerMain, ServerStart, ServerBind, ServerRequestWait, ServerRequestCheck,
        ServerSetupQp, SetupBuffers, PostFirstRecv, ServerAcceptWait, ServerAcceptCheck,
        ServerPingWait, ServerRead, ServerReadWait, ServerWrite, ServerWriteWait,
        ServerNextRound, ServerGoAhead, FreeBuffers, FreeQp, FreeCq, WaitEvent, cmVars
  <2> QED BY <1>1, <2>1, <2>2, <2>3, <2>4, <2>5
<1>8. CASE \E s \in Side : megaVM_cma_event_handler(s)
  <2>1. PICK s \in Side : megaVM_cma_event_handler(s)
    BY <1>8
  <2>2. CASE CmaEvent(s)
    <3>1. \/ cmq' = [cmq EXCEPT ![s] = Tail(@)]
          \/ \E event \in ServerEvent : cmq' = [cmq EXCEPT ![s] = Append(Tail(@), event)]
      BY <1>2, <2>2 DEF CmaEvent, AddrResolved, ConnectRequested, StateAndWake,
                        DeviceRemovalLogged
    <3>2. cmq[s] # <<>>
      BY <2>2 DEF CmaEvent
    <3>3. CASE s = "server"
      <4>1. cmq'["server"] = Tail(mine)
            \/ \E event \in ServerEvent : cmq'["server"] = Append(Tail(mine), event)
        BY <1>1, <3>1, <3>3
      <4> QED BY <1>5, <3>2, <3>3, <4>1
    <3>4. CASE s # "server"
      BY <1>1, <3>1, <3>4
    <3> QED BY <3>3, <3>4
  <2>3. CASE CmaChild(s) \/ CmaWake(s)
    BY <1>1, <2>3 DEF CmaChild, CmaWake
  <2> QED BY <2>1, <2>2, <2>3 DEF megaVM_cma_event_handler
<1>9. CASE ConnectionEstablished \/ ConnectTimeout
  BY <1>1, <1>2, <1>4, <1>9 DEF ConnectionEstablished, ConnectTimeout
<1>10. CASE \E s \in Side : StrayEvent(s)
  BY <1>1, <1>2, <1>3, <1>10 DEF StrayEvent
<1>11. CASE \/ UNCHANGED vars
            \/ \E s \in Side : megaVM_cq_event_handler(s) \/ Adapter(s) \/ Signal(s)
  BY <1>1, <1>11, OtherCm DEF cmVars, vars
<1> QED BY <1>6, <1>7, <1>8, <1>9, <1>10, <1>11 DEF Next, Progress, Fault, Over, Callbacks

\* A step of the client's main thread: when it falls asleep, it has just looked.
LEMMA ClientSleeps ==
  ASSUME WakeInv, ClientMain
  PROVE  SleepInv' /\ NoMissedWakeup'
<1> USE SideFacts
<1>1. pc \in [Side -> ClientLabel \cup ServerLabel] /\ state \in [Side -> TestState]
  BY DEF WakeInv, TypeInv, TypeOK, ThreadTypeOK, ContextTypeOK
<1>2. UNCHANGED <<cmh, cqh>>
  BY DEF ClientMain, ClientStart, ClientBind, ClientBindWait, ClientBindCheck, ClientSetupQp,
       SetupBuffers, PostFirstRecv, ClientConnect, ClientConnectWait, ClientConnectCheck,
       ClientAdvertise, ClientSend, ClientGoAheadWait, Disconnect, FreeBuffers, FreeQp,
       FreeCq, ClientDestroyId, WaitEvent, cmVars, cqVars
<1>3. pc'["server"] = pc["server"] /\ state'["server"] = state["server"]
  BY <1>1, ClientThread, ClientContext DEF SetState
<1>4. \/ /\ pc["client"] \notin {"bind_wait", "connect_wait", "goahead_wait"}
         /\ asleep' = asleep
      \/ \E from \in {"bind_wait", "connect_wait", "goahead_wait"}, next \in ClientLabel :
           WaitEvent("client", from, next)
  BY DEF ClientMain, ClientStart, ClientBind, ClientBindWait, ClientBindCheck, ClientSetupQp,
       SetupBuffers, PostFirstRecv, ClientConnect, ClientConnectWait, ClientConnectCheck,
       ClientAdvertise, ClientSend, ClientGoAheadWait, Disconnect, FreeBuffers, FreeQp,
       FreeCq, ClientDestroyId, ClientLabel
<1>5. \A from \in {"bind_wait", "connect_wait", "goahead_wait"} :
        state["client"] < Threshold[from] => ~(state["client"] >= Threshold[from])
  BY <1>1, Thresholds DEF TestState, IDLE, ERROR, ROUTE_RESOLVED, CONNECTED, RDMA_WRITE_ADV
<1>6. ASSUME "client" \in asleep'
      PROVE  /\ ~(state'["client"] >= Threshold[pc'["client"]])
             /\ pc'["client"] \in {"bind_wait", "connect_wait", "goahead_wait"}
  BY <1>1, <1>4, <1>5, <1>6 DEF WakeInv, SleepInv, WaitEvent, contextVars
<1>7. "server" \in asleep' => "server" \in asleep
  BY ClientThread
<1>8. SleepInv'
  BY <1>3, <1>6, <1>7 DEF WakeInv, SleepInv
<1>9. NoMissedWakeup'
  <2> SUFFICES ASSUME NEW s \in asleep', (state[s] >= Threshold[pc[s]])'
               PROVE  (cmh[s] \in {"child", "wake"} \/ cqh[s] \in {"repost", "wake", "fail"})'
    BY DEF NoMissedWakeup
  <2>1. s = "server" /\ s \in asleep
    <3>1. s \in asleep \/ s = "client"
      BY ClientThread
    <3>2. asleep \subseteq Side
      BY DEF WakeInv, TypeInv, TypeOK, ThreadTypeOK
    <3> QED BY <1>6, <3>1, <3>2
  <2> QED BY <1>2, <1>3, <2>1 DEF WakeInv, NoMissedWakeup
<1> QED BY <1>8, <1>9

\* So has the server's.
LEMMA ServerSleeps ==
  ASSUME WakeInv, ServerMain
  PROVE  SleepInv' /\ NoMissedWakeup'
<1> USE SideFacts
<1> DEFINE Waits == {"request_wait", "accept_wait", "ping_wait", "read_wait", "write_wait"}
<1>1. pc \in [Side -> ClientLabel \cup ServerLabel] /\ state \in [Side -> TestState]
  BY DEF WakeInv, TypeInv, TypeOK, ThreadTypeOK, ContextTypeOK
<1>2. UNCHANGED <<cmh, cqh, state>>
  BY DEF ServerMain, ServerStart, ServerBind, ServerRequestWait, ServerRequestCheck,
       ServerSetupQp, SetupBuffers, PostFirstRecv, ServerAccept, ServerAcceptWait,
       ServerAcceptCheck, ServerPingWait, ServerRead, ServerReadWait, ServerWrite,
       ServerWriteWait, ServerNextRound, ServerGoAhead, Disconnect, FreeBuffers, FreeQp,
       FreeCq, ServerDestroyChild, ServerDestroyListener, WaitEvent, cmVars, cqVars, contextVars
<1>3. pc'["client"] = pc["client"]
  BY <1>1, ServerThread
<1>4. \/ pc["server"] \notin Waits /\ asleep' = asleep
      \/ \E from \in Waits, next \in ServerLabel : WaitEvent("server", from, next)
  BY DEF ServerMain, ServerStart, ServerBind, ServerRequestWait, ServerRequestCheck,
       ServerSetupQp, QpSetUp, SetupBuffers, PostFirstRecv, ServerAccept, ServerAcceptWait,
       ServerAcceptCheck, ServerPingWait, ServerRead, ServerReadWait, ServerWrite,
       ServerWriteWait, ServerNextRound, ServerGoAhead, Disconnect, FreeBuffers, FreeQp,
       FreeCq, ServerDestroyChild, ServerDestroyListener, ServerLabel
<1>5. \A from \in Waits :
        state["server"] < Threshold[from] => ~(state["server"] >= Threshold[from])
  BY <1>1, Thresholds
  DEF TestState, IDLE, ERROR, CONNECT_REQUEST, CONNECTED, RDMA_READ_ADV, RDMA_READ_COMPLETE,
      RDMA_WRITE_COMPLETE
<1>6. ASSUME "server" \in asleep'
      PROVE  /\ ~(state["server"] >= Threshold[pc'["server"]])
             /\ pc'["server"] \in Waits
  BY <1>1, <1>4, <1>5, <1>6 DEF WakeInv, SleepInv, WaitEvent
<1>7. "client" \in asleep' => "client" \in asleep
  BY ServerThread
<1>8. SleepInv'
  BY <1>3, <1>6, <1>7 DEF WakeInv, SleepInv
<1>9. NoMissedWakeup'
  <2> SUFFICES ASSUME NEW s \in asleep', (state[s] >= Threshold[pc[s]])'
               PROVE  (cmh[s] \in {"child", "wake"} \/ cqh[s] \in {"repost", "wake", "fail"})'
    BY DEF NoMissedWakeup
  <2>1. s = "client" /\ s \in asleep
    <3>1. s \in asleep \/ s = "server"
      BY ServerThread
    <3>2. asleep \subseteq Side
      BY DEF WakeInv, TypeInv, TypeOK, ThreadTypeOK
    <3> QED BY <1>2, <1>6, <3>1, <3>2
  <2> QED BY <1>2, <1>3, <2>1 DEF WakeInv, NoMissedWakeup
<1> QED BY <1>8, <1>9

\* A callback that changes the state has its wake-up before it, and what it does not
\* wake for - a resolved address - is not enough for any wait of its side.
LEMMA CallbackWakes ==
  ASSUME WakeInv, NEW s \in Side, Callbacks(s)
  PROVE  SleepInv' /\ NoMissedWakeup'
<1> USE SideFacts
<1>1. asleep' \subseteq asleep /\ pc' = pc
  BY OtherThread
<1>2. SleepInv'
  BY <1>1 DEF WakeInv, SleepInv
<1>3. /\ state \in [Side -> TestState] /\ cmh \in [Side -> CmPhase] /\ cqh \in [Side -> CqPhase]
      /\ asleep \subseteq Side
  BY DEF WakeInv, TypeInv, TypeOK, ThreadTypeOK, ContextTypeOK, CmTypeOK, CqTypeOK
<1>4. \A x \in Side : x # s => state'[x] = state[x] /\ cmh'[x] = cmh[x] /\ cqh'[x] = cqh[x]
  <2>1. state' = state \/ \E new : state' = [state EXCEPT ![s] = new]
    BY DEF Callbacks, megaVM_cma_event_handler, CmaEvent, CmaChild, CmaWake, AddrResolved,
           ConnectRequested, StateAndWake, DeviceRemovalLogged, megaVM_cq_event_handler,
           CqEvent, CqArm, CqPollEmpty, CqPoll, CqRepost, CqWake, recv, server_recv,
           client_recv, SetState, contextVars
  <2>2. cmh' = cmh \/ \E new : cmh' = [cmh EXCEPT ![s] = new]
    BY DEF Callbacks, megaVM_cma_event_handler, CmaEvent, CmaChild, CmaWake, AddrResolved,
           ConnectRequested, StateAndWake, DeviceRemovalLogged, megaVM_cq_event_handler,
           CqEvent, CqArm, CqPollEmpty, CqPoll, CqRepost, CqWake, cmVars
  <2>3. cqh' = cqh \/ \E new : cqh' = [cqh EXCEPT ![s] = new]
    BY DEF Callbacks, megaVM_cma_event_handler, CmaEvent, CmaChild, CmaWake,
           megaVM_cq_event_handler, CqEvent, CqArm, CqPollEmpty, CqPoll, CqRepost, CqWake,
           CqGoto, cqVars
  <2> QED BY <1>3, <2>1, <2>2, <2>3
<1>5. ASSUME s \in asleep', state'[s] >= Threshold[pc[s]]
      PROVE  cmh'[s] \in {"child", "wake"} \/ cqh'[s] \in {"repost", "wake", "fail"}
  <2> DEFINE Due == cmh[s] \in {"child", "wake"} \/ cqh[s] \in {"repost", "wake", "fail"}
  <2>1. s \in asleep /\ (state[s] >= Threshold[pc[s]] => Due)
    BY <1>1, <1>5 DEF WakeInv, NoMissedWakeup
  <2>2. CASE CmaEvent(s)
    <3>1. CASE AddrResolved(s)
      <4>1. s = "client"
        <5>1. Head(cmq[s]) = "ADDR_RESOLVED" /\ cmq[s] # <<>>
          BY <2>2, <3>1 DEF CmaEvent, AddrResolved
        <5>2. ASSUME s = "server" PROVE Head(cmq[s]) \in ServerEvent
          BY <5>1, <5>2 DEF WakeInv
        <5> QED BY <5>1, <5>2 DEF ServerEvent
      <4>2. pc[s] \in {"bind_wait", "connect_wait", "goahead_wait"}
        BY <2>1, <4>1 DEF WakeInv, SleepInv
      <4>3. state'[s] = ADDR_RESOLVED
        BY <1>3, <3>1 DEF AddrResolved, SetState
      <4>4. ~(ADDR_RESOLVED >= Threshold[pc[s]])
        BY <4>2, Thresholds DEF ADDR_RESOLVED, ROUTE_RESOLVED, CONNECTED, RDMA_WRITE_ADV
      <4> QED BY <1>5, <4>3, <4>4
    <3>2. CASE ConnectRequested(s) \/ StateAndWake(s)
      BY <1>3, <3>2 DEF ConnectRequested, StateAndWake
    <3>3. CASE DeviceRemovalLogged(s)
      BY <1>5, <2>1, <2>2, <3>3 DEF DeviceRemovalLogged, CmaEvent, cqVars
    <3> QED BY <2>2, <3>1, <3>2, <3>3 DEF CmaEvent
  <2>3. CASE CmaChild(s)
    BY <1>3, <2>3 DEF CmaChild
  <2>4. CASE CmaWake(s) \/ CqWake(s)
    BY <1>5, <2>4 DEF CmaWake, CqWake, WakeUp
  <2>5. CASE CqEvent(s) \/ CqArm(s) \/ CqPollEmpty(s)
    <3>1. UNCHANGED <<state, cmh>> /\ cqh[s] \notin {"repost", "wake", "fail"}
      BY <2>5 DEF CqEvent, CqArm, CqPollEmpty, contextVars, cmVars
    <3> QED BY <1>5, <2>1, <3>1
  <2>6. CASE CqPoll(s)
    <3>1. \/ UNCHANGED <<state, cmh, cqh>>
          \/ cqh' = [cqh EXCEPT ![s] = "fail"]
          \/ cqh' = [cqh EXCEPT ![s] = "wake"]
          \/ cqh' = [cqh EXCEPT ![s] = "repost"]
      BY <2>6 DEF CqPoll, CqGoto, cmVars
    <3> QED BY <1>3, <1>5, <2>1, <3>1
  <2>7. CASE CqRepost(s)
    BY <1>3, <2>7 DEF CqRepost, CqGoto
  <2> QED BY <2>2, <2>3, <2>4, <2>5, <2>6, <2>7
          DEF Callbacks, megaVM_cma_event_handler, megaVM_cq_event_handler
<1>6. NoMissedWakeup'
  BY <1>1, <1>3, <1>4, <1>5 DEF WakeInv, NoMissedWakeup
<1> QED BY <1>2, <1>6

\* The other steps leave the state, the callbacks and the threads as they are, or end
\* a sleep.
LEMMA OtherSleeps ==
  ASSUME WakeInv, NEW s \in Side,
         \/ Adapter(s) \/ ConnectionEstablished \/ ConnectTimeout
         \/ StrayEvent(s) \/ Signal(s) \/ UNCHANGED vars
  PROVE  SleepInv' /\ NoMissedWakeup'
<1>1. UNCHANGED <<pc, state, cmh, cqh>> /\ asleep' \subseteq asleep
  <2>1. CASE Adapter(s)
    BY <2>1 DEF Adapter, Transmit, TransmitFails, ReadArrives, CompleteSend, threadVars,
                contextVars, cmVars, cqVars
  <2>2. CASE ConnectionEstablished \/ ConnectTimeout \/ StrayEvent(s) \/ UNCHANGED vars
    BY <2>2 DEF ConnectionEstablished, ConnectTimeout, StrayEvent, vars, threadVars,
                contextVars, cmVars, cqVars
  <2>3. CASE Signal(s)
    BY <2>3 DEF Signal, WakeUp, contextVars, cmVars, cqVars
  <2> QED BY <2>1, <2>2, <2>3
<1> QED BY <1>1 DEF WakeInv, SleepInv, NoMissedWakeup

\* No wake-up is lost, whatever the faults, in sessions of any length: when the state
\* that a sleeping main thread waits for is there, a callback that will wake it is
\* still running.
THEOREM WakeupsArrive == Spec => []NoMissedWakeup
<1>1. Init => WakeInv
  <2> SUFFICES ASSUME Init PROVE WakeInv
    OBVIOUS
  <2>1. TypeInv
    BY InitType
  <2>2. SleepInv /\ NoMissedWakeup
    BY DEF Init, InitContext, SleepInv, NoMissedWakeup
  <2>3. cmq["server"] \in Seq(ServerEvent)
    BY SideFacts DEF Init, InitContext
  <2> QED BY <2>1, <2>2, <2>3 DEF WakeInv
<1>2. ASSUME WakeInv, Next PROVE WakeInv'
  <2>1. TypeInv'
    BY <1>2, ThreadStep, ContextStep, BufferStep, CmStep, QueueStep, MisuseStep
    DEF WakeInv, TypeInv, TypeOK
  <2>2. cmq'["server"] \in Seq(ServerEvent)
    BY <1>2, ServerEvents
  <2>3. SleepInv' /\ NoMissedWakeup'
    BY <1>2, SideFacts, ClientSleeps, ServerSleeps, CallbackWakes, OtherSleeps
    DEF Next, Progress, Fault, Over
  <2> QED BY <2>1, <2>2, <2>3 DEF WakeInv
<1>3. ASSUME WakeInv, UNCHANGED vars PROVE WakeInv'
  <2>1. TypeInv'
    BY <1>3, StutterType DEF WakeInv
  <2>2. SleepInv' /\ NoMissedWakeup'
    BY <1>3, SideFacts, OtherSleeps
  <2>3. cmq' = cmq
    BY <1>3 DEF vars, cmVars
  <2> QED BY <2>1, <2>2, <2>3, <1>3 DEF WakeInv
<1>4. WakeInv => NoMissedWakeup
  BY DEF WakeInv
<1> QED BY <1>1, <1>2, <1>3, <1>4, PTL DEF Spec
-----------------------------------------------------------------------------
(* Counting completions.                                                   *)

Requests(q) == {i \in 1 .. Len(q) : q[i].op # "RECV"}

\* The count is a number between 0 and the length.
LEMMA SendsType ==
  ASSUME NEW q \in Seq(Wc)
  PROVE  /\ IsFiniteSet(Requests(q))
         /\ Sends(q) \in Nat /\ Sends(q) <= Len(q)
<1>0. Len(q) \in Nat
  OBVIOUS
<1>1. IsFiniteSet(1 .. Len(q)) /\ Cardinality(1 .. Len(q)) = Len(q)
  <2>1. \A n \in Nat : IsFiniteSet(1 .. n) /\ Cardinality(1 .. n) = n
    <3>1. \A n \in Nat : n >= 1 => n - 1 + 1 = n
      OBVIOUS
    <3> QED BY <3>1, FS_Interval
  <2> QED BY <1>0, <2>1
<1>2. Requests(q) \subseteq 1 .. Len(q)
  BY DEF Requests
<1>3. IsFiniteSet(Requests(q)) /\ Cardinality(Requests(q)) <= Len(q)
  BY <1>1, <1>2, FS_Subset
<1> QED BY <1>3, FS_CardinalityType DEF Sends, Requests

\* An empty queue counts nothing, and a single completion one if it is of a request.
LEMMA SendsFew ==
  /\ Sends(<<>>) = 0
  /\ \A wc \in Wc : Sends(<<wc>>) = IF wc.op = "RECV" THEN 0 ELSE 1
<1>1. Requests(<<>>) = {}
  BY DEF Requests
<1>2. ASSUME NEW wc \in Wc PROVE Requests(<<wc>>) = IF wc.op = "RECV" THEN {} ELSE {1}
  BY DEF Requests
<1> QED BY <1>1, <1>2, FS_EmptySet, FS_Singleton DEF Sends, Requests

\* The counts of the parts of a queue add up.
LEMMA SendsConcat ==
  ASSUME NEW q \in Seq(Wc), NEW r \in Seq(Wc)
  PROVE  /\ Sends(q \o r) = Sends(q) + Sends(r)
         /\ q \o r \in Seq(Wc) /\ Len(q \o r) = Len(q) + Len(r)
<1> DEFINE n == Len(q)
           Shift == [i \in Requests(r) |-> n + i]
           Second == {n + i : i \in Requests(r)}
<1>1. q \o r \in Seq(Wc) /\ Len(q \o r) = n + Len(r) /\ n \in Nat /\ Len(r) \in Nat
  OBVIOUS
<1>2. \A i \in 1 .. n + Len(r) : (q \o r)[i] = IF i <= n THEN q[i] ELSE r[i - n]
  OBVIOUS
<1>3. Requests(q \o r) = Requests(q) \cup Second
  <2>1. ASSUME NEW i \in Requests(q \o r) PROVE i \in Requests(q) \cup Second
    <3>1. i \in 1 .. n + Len(r) /\ (q \o r)[i].op # "RECV"
      BY <1>1 DEF Requests
    <3>2. CASE i <= n
      BY <1>2, <3>1, <3>2 DEF Requests
    <3>3. CASE i > n
      <4>1. i - n \in 1 .. Len(r) /\ r[i - n].op # "RECV" /\ i = n + (i - n)
        BY <1>1, <1>2, <3>1, <3>3
      <4> QED BY <4>1 DEF Requests
    <3> QED BY <1>1, <3>1, <3>2, <3>3
  <2>2. ASSUME NEW i \in Requests(q) PROVE i \in Requests(q \o r)
    BY <1>1, <1>2 DEF Requests
  <2>3. ASSUME NEW i \in Requests(r) PROVE n + i \in Requests(q \o r)
    <3>1. i \in 1 .. Len(r) /\ r[i].op # "RECV"
      BY DEF Requests
    <3>2. n + i \in 1 .. n + Len(r) /\ ~(n + i <= n) /\ (n + i) - n = i
      BY <1>1, <3>1
    <3> QED BY <1>1, <1>2, <3>1, <3>2 DEF Requests
  <2> QED BY <2>1, <2>2, <2>3
<1>4. Requests(q) \cap Second = {}
  BY <1>1 DEF Requests
<1>5. Shift \in Bijection(Requests(r), Second)
  <2>1. \A i, j \in Requests(r) : n + i = n + j => i = j
    BY <1>1 DEF Requests
  <2> QED BY <2>1 DEF Bijection, Injection, Surjection, IsInjective
<1>6. IsFiniteSet(Second) /\ Cardinality(Second) = Cardinality(Requests(r))
  <2>1. IsFiniteSet(Requests(r))
    BY SendsType
  <2>2. ExistsBijection(Requests(r), Second)
    BY <1>5 DEF ExistsBijection
  <2> HIDE DEF Shift, Second
  <2> QED BY <2>1, <2>2, FS_Bijection
<1>7. Cardinality(Requests(q) \cup Second) =
        Cardinality(Requests(q)) + Cardinality(Second) - Cardinality(Requests(q) \cap Second)
  <2>1. IsFiniteSet(Requests(q))
    BY SendsType
  <2> HIDE DEF Second
  <2> QED BY <1>6, <2>1, FS_Union
<1>8. Cardinality(Requests(q) \cap Second) = 0
  BY <1>4, FS_EmptySet
<1>9. Cardinality(Requests(q)) \in Nat /\ Cardinality(Requests(r)) \in Nat
  BY SendsType, FS_CardinalityType
<1>10. Cardinality(Requests(q \o r)) = Cardinality(Requests(q)) + Cardinality(Requests(r))
  <2> HIDE DEF Second
  <2> QED BY <1>3, <1>6, <1>7, <1>8, <1>9
<1>11. Sends(q \o r) = Sends(q) + Sends(r)
  BY <1>10 DEF Sends, Requests
<1> QED BY <1>1, <1>11

\* What is taken off the front is counted no more.
LEMMA SendsTail ==
  ASSUME NEW q \in Seq(Wc), q # <<>>
  PROVE  /\ Sends(Tail(q)) = Sends(q) - (IF Head(q).op = "RECV" THEN 0 ELSE 1)
         /\ Tail(q) \in Seq(Wc) /\ Len(Tail(q)) = Len(q) - 1 /\ Len(q) >= 1
         /\ Head(q) \in Wc
<1>1. /\ Head(q) \in Wc /\ Tail(q) \in Seq(Wc) /\ <<Head(q)>> \in Seq(Wc)
      /\ q = <<Head(q)>> \o Tail(q) /\ Len(Tail(q)) = Len(q) - 1 /\ Len(q) >= 1
  OBVIOUS
<1>2. Sends(q) = Sends(<<Head(q)>>) + Sends(Tail(q))
  BY <1>1, SendsConcat
<1>3. Sends(Tail(q)) \in Nat
  BY <1>1, SendsType
<1> QED BY <1>1, <1>2, <1>3, SendsFew

\* A queue pair is flushed with one completion for each request and each receive.
LEMMA FlushedCount ==
  ASSUME QpTypeOK, NEW s \in Side, NEW k \in Nat
  PROVE  /\ Sends(Flushed(s, k)) = Len(sq[s])
         /\ Len(Flushed(s, k)) = Len(sq[s]) + rq[s]
         /\ \A i \in 1 .. Len(Flushed(s, k)) :
              Flushed(s, k)[i].op = "RECV" => Flushed(s, k)[i].status = "flush"
<1> DEFINE n == Len(sq[s])
           q == Flushed(s, k)
<1>1. n \in Nat /\ rq[s] \in Nat
  BY DEF QpTypeOK
<1>2. q \in Seq(Wc)
  BY FlushedType
<1>3. /\ Len(q) = n + rq[s]
      /\ \A i \in 1 .. n : q[i].op = sq[s][i].op
      /\ \A i \in 1 .. n + rq[s] : i > n => q[i].op = "RECV" /\ q[i].status = "flush"
  BY <1>1 DEF Flushed, WcOf
<1>4. \A i \in 1 .. n : q[i].op # "RECV"
  <2>1. \A i \in 1 .. n : sq[s][i] \in Wr
    BY DEF QpTypeOK
  <2>2. \A wr \in Wr : wr.op # "RECV"
    BY DEF Wr, Operation
  <2> QED BY <1>3, <2>1, <2>2
<1>5. Requests(q) = 1 .. n
  <2>1. Requests(q) \subseteq 1 .. n
    BY <1>1, <1>3 DEF Requests
  <2>2. 1 .. n \subseteq Requests(q)
    BY <1>1, <1>3, <1>4 DEF Requests
  <2> QED BY <2>1, <2>2
<1>6. Cardinality(1 .. n) = n
  BY <1>1, FS_Interval
<1>7. Sends(q) = n
  BY <1>5, <1>6 DEF Sends, Requests
<1> QED BY <1>1, <1>3, <1>4, <1>7

-----------------------------------------------------------------------------
(* The queues never hold more than create_qp and ib_create_cq asked for.   *)

\* The labels up to the first ib_post_recv.
PreRecv == {"start", "bind", "bind_wait", "bind_check", "request_wait", "request_check",
            "setup_qp", "setup_buffers", "post_recv"}

\* How many requests, receives and completions side s has, how many of the
\* completions are of requests, and whether the callback is about to post a receive.
Sizes(s) ==
  [requests |-> Len(sq[s]), receives |-> rq[s], completions |-> Len(cqe[s]),
   sends |-> Sends(cqe[s]), owed |-> IF cqh[s] = "repost" THEN 1 ELSE 0]

SizeRecord == [requests : Nat, receives : Nat, completions : Nat, sends : Nat, owed : {0, 1}]

Empty(z) == z.requests = 0 /\ z.receives = 0 /\ z.completions = 0 /\ z.owed = 0

\* There is one receive: it is posted, or completed and waiting to be polled, or about
\* to be posted again, or gone because it was flushed.  A request has a slot of the send
\* queue until its completion was polled.
Fits(z) ==
  /\ z.receives + (z.completions - z.sends) + z.owed <= 1
  /\ z.requests + z.sends <= TxDepth

DepthOf(s) ==
  /\ Fits(Sizes(s))
  /\ pc[s] \in PreRecv => Empty(Sizes(s))

DepthInv == TypeInv /\ \A s \in Side : DepthOf(s)

\* The sizes are numbers, and SqInUse is what Fits bounds by TxDepth.
LEMMA SizesType ==
  ASSUME TypeOK, NEW s \in Side
  PROVE  /\ Sizes(s) \in SizeRecord /\ Sizes(s).sends <= Sizes(s).completions
         /\ SqInUse(s) = Sizes(s).requests + Sizes(s).sends
BY SendsType DEF Sizes, SizeRecord, SqInUse, TypeOK, QpTypeOK, CqTypeOK

\* The sizes y are z plus these numbers.
Moved(z, y, requests, receives, completions, sends, owed) ==
  /\ y.requests = z.requests + requests
  /\ y.receives = z.receives + receives
  /\ y.completions = z.completions + completions
  /\ y.sends = z.sends + sends
  /\ y.owed = z.owed + owed

\* What the callback, the adapters and a disconnection make of the sizes of a side.
Handled(z, y) ==
  \/ y = z
  \/ Moved(z, y, 0, 0, 0, 0, -z.owed)
  \/ z.requests > 0 /\ Moved(z, y, -1, 0, 1, 1, 0)
  \/ z.receives > 0 /\ Moved(z, y, 0, -1, 1, 0, 0)
  \/ z.completions > 0 /\ Moved(z, y, 0, 0, -1, -1, 0)
  \/ z.completions > 0 /\ Moved(z, y, 0, 0, -1, 0, 0)
  \/ z.completions > 0 /\ z.owed = 0 /\ Moved(z, y, 0, 0, -1, 0, 1)
  \/ z.owed = 1 /\ Moved(z, y, 0, 1, 0, 0, -z.owed)
  \/ z.owed = 1 /\ Moved(z, y, 0, 0, 1, 0, -z.owed)
  \/ Moved(z, y, -z.requests, -z.receives, (z.requests + z.receives), z.requests, 0)

\* What the posts of the main thread and its ib_destroy_qp make of them.
Posted(z, y) ==
  \/ z.requests + z.sends < TxDepth /\ Moved(z, y, 1, 0, 0, 0, 0)
  \/ z.requests + z.sends < TxDepth /\ Moved(z, y, 0, 0, 1, 1, 0)
  \/ Empty(z) /\ Moved(z, y, 0, 1, 0, 0, 0)
  \/ Empty(z) /\ Moved(z, y, 0, 0, 1, 0, 0)
  \/ Moved(z, y, -z.requests, -z.receives, -z.completions, -z.sends, 0)

\* What the callback and the adapters do never makes them outgrow their bounds.
LEMMA HandledFits ==
  ASSUME NEW z \in SizeRecord, NEW y, z.sends <= z.completions, Fits(z), Handled(z, y)
  PROVE  Fits(y) /\ (Empty(z) => Empty(y))
<1> USE IbContextAssumption DEF Fits, Empty, SizeRecord, Moved
<1>1. CASE y = z
  BY <1>1
<1>0. CASE Moved(z, y, 0, 0, 0, 0, -z.owed)
  BY <1>0
<1>2. CASE z.requests > 0 /\ Moved(z, y, -1, 0, 1, 1, 0)
  BY <1>2
<1>3. CASE z.receives > 0 /\ Moved(z, y, 0, -1, 1, 0, 0)
  BY <1>3
<1>4. CASE z.completions > 0 /\ Moved(z, y, 0, 0, -1, -1, 0)
  BY <1>4
<1>5. CASE z.completions > 0 /\ Moved(z, y, 0, 0, -1, 0, 0)
  BY <1>5
<1>6. CASE z.completions > 0 /\ z.owed = 0 /\ Moved(z, y, 0, 0, -1, 0, 1)
  BY <1>6
<1>7. CASE z.owed = 1 /\ Moved(z, y, 0, 1, 0, 0, -z.owed)
  BY <1>7
<1>8. CASE z.owed = 1 /\ Moved(z, y, 0, 0, 1, 0, -z.owed)
  BY <1>8
<1>9. CASE Moved(z, y, -z.requests, -z.receives, (z.requests + z.receives), z.requests, 0)
  BY <1>9
<1> QED BY <1>0, <1>1, <1>2, <1>3, <1>4, <1>5, <1>6, <1>7, <1>8, <1>9 DEF Handled

\* Nor do the posts of the main thread, which ask for room first.
LEMMA PostedFits ==
  ASSUME NEW z \in SizeRecord, NEW y, z.sends <= z.completions, Fits(z), Posted(z, y)
  PROVE  Fits(y)
<1> USE IbContextAssumption DEF Fits, Empty, SizeRecord, Moved
<1>1. CASE z.requests + z.sends < TxDepth /\ Moved(z, y, 1, 0, 0, 0, 0)
  BY <1>1
<1>2. CASE z.requests + z.sends < TxDepth /\ Moved(z, y, 0, 0, 1, 1, 0)
  BY <1>2
<1>3. CASE Empty(z) /\ Moved(z, y, 0, 1, 0, 0, 0)
  BY <1>3
<1>4. CASE Empty(z) /\ Moved(z, y, 0, 0, 1, 0, 0)
  BY <1>4
<1>5. CASE Moved(z, y, -z.requests, -z.receives, -z.completions, -z.sends, 0)
  BY <1>5
<1> QED BY <1>1, <1>2, <1>3, <1>4, <1>5 DEF Posted

\* The sizes before and after a step, and their types.
LEMMA SizesFields ==
  ASSUME TypeOK, NEW s \in Side
  PROVE  /\ Sizes(s).requests = Len(sq[s]) /\ Sizes(s)'.requests = Len(sq'[s])
         /\ Sizes(s).receives = rq[s] /\ Sizes(s)'.receives = rq'[s]
         /\ Sizes(s).completions = Len(cqe[s]) /\ Sizes(s)'.completions = Len(cqe'[s])
         /\ Sizes(s).sends = Sends(cqe[s]) /\ Sizes(s)'.sends = Sends(cqe'[s])
         /\ Sizes(s).owed = IF cqh[s] = "repost" THEN 1 ELSE 0
         /\ Sizes(s)'.owed = IF cqh'[s] = "repost" THEN 1 ELSE 0
         /\ Len(sq[s]) \in Nat /\ rq[s] \in Nat /\ Len(cqe[s]) \in Nat /\ Sends(cqe[s]) \in Nat
BY SendsType DEF Sizes, TypeOK, QpTypeOK, CqTypeOK

\* Completions that enter the queue of one side are counted there and nowhere else.
LEMMA OnlyEnters ==
  ASSUME TypeOK, NEW s \in Side, NEW q \in Seq(Wc), AddCompletions(Only(s, q))
  PROVE  /\ Len(cqe'[s]) = Len(cqe[s]) + Len(q)
         /\ Sends(cqe'[s]) = Sends(cqe[s]) + Sends(q)
         /\ \A x \in Side : x # s => cqe'[x] = cqe[x]
<1>1. cqe \in [Side -> Seq(Wc)]
  BY DEF TypeOK, CqTypeOK
<1>2. cqe'[s] = cqe[s] \o q
  BY DEF AddCompletions, Only, NoCompletion
<1>3. ASSUME NEW x \in Side, x # s PROVE cqe'[x] = cqe[x]
  <2>1. cqe'[x] = cqe[x] \o <<>>
    BY <1>3 DEF AddCompletions, Only, NoCompletion
  <2> QED BY <1>1, <2>1
<1> QED BY <1>1, <1>2, <1>3, SendsConcat

\* One completion, of a request or of a receive.
LEMMA OneEnters ==
  ASSUME TypeOK, NEW s \in Side, NEW op \in Operation \cup {"RECV"},
         NEW status \in {"ok", "err", "flush"}, NEW info \in Buffer \cup {NoBuffer},
         AddCompletions(Only(s, <<WcOf(op, status, info)>>))
  PROVE  /\ Len(cqe'[s]) = Len(cqe[s]) + 1
         /\ Sends(cqe'[s]) = Sends(cqe[s]) + (IF op = "RECV" THEN 0 ELSE 1)
         /\ \A x \in Side : x # s => cqe'[x] = cqe[x]
<1> DEFINE wc == WcOf(op, status, info)
<1>1. wc \in Wc /\ wc.op = op
  BY WcOfType DEF WcOf
<1>2. Sends(<<wc>>) = IF op = "RECV" THEN 0 ELSE 1
  BY <1>1, SendsFew
<1>3. <<wc>> \in Seq(Wc) /\ Len(<<wc>>) = 1
  BY <1>1
<1> HIDE DEF wc
<1>4. AddCompletions(Only(s, <<wc>>))
  BY DEF wc
<1> QED BY <1>2, <1>3, <1>4, OnlyEnters

\* The completion callback.
LEMMA CqSizes ==
  ASSUME TypeOK, NEW s \in Side, megaVM_cq_event_handler(s)
  PROVE  /\ Handled(Sizes(s), Sizes(s)')
         /\ \A x \in Side : x # s => Sizes(x)' = Sizes(x)
<1>1. /\ cqe \in [Side -> Seq(Wc)] /\ cqh \in [Side -> CqPhase]
      /\ rq \in [Side -> Nat] /\ sq \in [Side -> Seq(Wr)]
  BY DEF TypeOK, CqTypeOK, QpTypeOK
<1>2. CASE CqEvent(s) \/ CqArm(s) \/ CqPollEmpty(s) \/ CqWake(s)
  <2>1. UNCHANGED <<cqe, rq, sq>> /\ \E phase : cqh' = [cqh EXCEPT ![s] = phase] /\ phase # "repost"
    BY <1>2 DEF CqEvent, CqArm, CqPollEmpty, CqWake, CqGoto, qpVars
  <2>2. cqh'[s] # "repost"
    BY <1>1, <2>1
  <2>3. Moved(Sizes(s), Sizes(s)', 0, 0, 0, 0, -Sizes(s).owed)
    BY <2>1, <2>2, SizesFields DEF Moved
  <2> QED BY <1>1, <2>1, <2>3 DEF Handled, Sizes
<1>3. CASE CqPoll(s)
  <2> DEFINE wc == Head(cqe[s])
  <2>1. /\ cqe[s] # <<>> /\ cqh[s] = "poll" /\ UNCHANGED <<rq, sq>>
        /\ cqe' = [cqe EXCEPT ![s] = Tail(@)]
    BY <1>3 DEF CqPoll, qpVars
  <2>2. /\ \A x \in Side : x # s => cqh'[x] = cqh[x]
        /\ cqh'[s] = "repost" => wc.op = "RECV"
    BY <1>1, <1>3 DEF CqPoll, CqGoto
  <2>3. cqe'[s] = Tail(cqe[s]) /\ \A x \in Side : x # s => cqe'[x] = cqe[x]
    BY <1>1, <2>1
  <2>4. /\ Sends(cqe'[s]) = Sends(cqe[s]) - (IF wc.op = "RECV" THEN 0 ELSE 1)
        /\ Len(cqe'[s]) = Len(cqe[s]) - 1 /\ Len(cqe[s]) >= 1
    BY <1>1, <2>1, <2>3, SendsTail
  <2>5. Sizes(s).completions > 0 /\ Sizes(s).owed = 0
    BY <1>1, <2>1, <2>4 DEF Sizes
  <2> HIDE DEF wc
  <2>6. Sends(cqe[s]) \in Nat
    BY <1>1, SendsType
  <2>7. CASE wc.op # "RECV"
    <3>1. Moved(Sizes(s), Sizes(s)', 0, 0, -1, -1, 0)
      BY <2>1, <2>2, <2>4, <2>7, SizesFields DEF Moved
    <3> QED BY <2>2, <2>3, <2>1, <2>5, <3>1 DEF Handled, Sizes
  <2>8. CASE wc.op = "RECV" /\ cqh'[s] # "repost"
    <3>1. Moved(Sizes(s), Sizes(s)', 0, 0, -1, 0, 0)
      BY <2>1, <2>4, <2>6, <2>8, SizesFields DEF Moved
    <3> QED BY <2>2, <2>3, <2>1, <2>5, <3>1 DEF Handled, Sizes
  <2>9. CASE wc.op = "RECV" /\ cqh'[s] = "repost"
    <3>1. Moved(Sizes(s), Sizes(s)', 0, 0, -1, 0, 1)
      BY <2>1, <2>4, <2>6, <2>9, SizesFields DEF Moved
    <3> QED BY <2>2, <2>3, <2>1, <2>5, <3>1 DEF Handled, Sizes
  <2> QED BY <2>7, <2>8, <2>9
<1>4. CASE CqRepost(s)
  <2>1. cqh[s] = "repost" /\ sq' = sq /\ \E phase \in {"wake", "fail"} : cqh' = [cqh EXCEPT ![s] = phase]
    BY <1>4 DEF CqRepost, CqGoto
  <2>2. Sizes(s).owed = 1 /\ Sends(cqe[s]) \in Nat /\ cqh'[s] # "repost"
    BY <1>1, <2>1, SendsType DEF Sizes
  <2>3. CASE UNCHANGED <<rq, cqe>>
    <3>1. Moved(Sizes(s), Sizes(s)', 0, 0, 0, 0, -Sizes(s).owed)
      BY <1>1, <2>1, <2>3, SizesFields DEF Moved
    <3> QED BY <1>1, <2>1, <2>3, <3>1 DEF Handled, Sizes
  <2>4. CASE rq' = [rq EXCEPT ![s] = @ + 1] /\ cqe' = cqe
    <3>1. Moved(Sizes(s), Sizes(s)', 0, 1, 0, 0, -Sizes(s).owed)
      BY <1>1, <2>1, <2>4, SizesFields DEF Moved
    <3> QED BY <1>1, <2>1, <2>2, <2>4, <3>1 DEF Handled, Sizes
  <2>5. CASE AddCompletions(Only(s, <<WcOf("RECV", "flush", NoBuffer)>>)) /\ rq' = rq
    <3>1. /\ Len(cqe'[s]) = Len(cqe[s]) + 1 /\ Sends(cqe'[s]) = Sends(cqe[s])
          /\ \A x \in Side : x # s => cqe'[x] = cqe[x]
      <4>1. "RECV" \in Operation \cup {"RECV"} /\ NoBuffer \in Buffer \cup {NoBuffer}
        OBVIOUS
      <4>2. /\ Len(cqe'[s]) = Len(cqe[s]) + 1 /\ Sends(cqe'[s]) = Sends(cqe[s]) + 0
            /\ \A x \in Side : x # s => cqe'[x] = cqe[x]
        BY <2>5, <4>1, OneEnters
      <4> QED BY <2>2, <4>2
    <3>2. Moved(Sizes(s), Sizes(s)', 0, 0, 1, 0, -Sizes(s).owed)
      BY <2>1, <2>2, <2>5, <3>1, SizesFields DEF Moved
    <3> QED BY <1>1, <2>1, <2>2, <2>5, <3>1, <3>2 DEF Handled, Sizes
  <2> QED BY <1>4, <2>3, <2>4, <2>5 DEF CqRepost, PostRecv
<1> QED BY <1>2, <1>3, <1>4 DEF megaVM_cq_event_handler

\* A queue pair that goes to the error state hands every request and receive back as a
\* completion; one that does not keeps its queues.
LEMMA QpErrorSizes ==
  ASSUME TypeOK, NEW sides, NEW add \in [Side -> Seq(Wc)], QpError(sides, add), cqh' = cqh,
         \A x \in Side : IF x \in sides THEN \E k \in Nat : add[x] = Flushed(x, k)
                                        ELSE add[x] = <<>>,
         NEW x \in Side
  PROVE  Handled(Sizes(x), Sizes(x)')
<1>1. cqe \in [Side -> Seq(Wc)] /\ QpTypeOK
  BY DEF TypeOK, CqTypeOK
<1>2. cqe'[x] = cqe[x] \o add[x]
  BY DEF QpError, AddCompletions
<1>3. CASE x \in sides
  <2>1. PICK k \in Nat : add[x] = Flushed(x, k)
    BY <1>3
  <2>2. /\ Sends(add[x]) = Len(sq[x])
        /\ Len(add[x]) = Len(sq[x]) + rq[x]
    BY <1>1, <2>1, FlushedCount
  <2>3. /\ Len(cqe'[x]) = Len(cqe[x]) + Len(add[x])
        /\ Sends(cqe'[x]) = Sends(cqe[x]) + Sends(add[x])
    BY <1>1, <1>2, SendsConcat
  <2>4. sq'[x] = <<>> /\ rq'[x] = 0 /\ Len(sq'[x]) = 0
    BY <1>3 DEF QpError
  <2>5. Moved(Sizes(x), Sizes(x)', -Sizes(x).requests, -Sizes(x).receives,
              Sizes(x).requests + Sizes(x).receives, Sizes(x).requests, 0)
    <3>1. /\ Sizes(x)'.requests = Sizes(x).requests + -Sizes(x).requests
          /\ Sizes(x)'.receives = Sizes(x).receives + -Sizes(x).receives
      BY <2>4, SizesFields
    <3>2. /\ Sizes(x)'.completions = Sizes(x).completions + Len(add[x])
          /\ Len(add[x]) = Sizes(x).requests + Sizes(x).receives
          /\ Sizes(x)'.sends = Sizes(x).sends + Sizes(x).requests
      BY <2>2, <2>3, SizesFields
    <3>3. Sizes(x)'.owed = Sizes(x).owed + 0
      BY SizesFields
    <3> QED BY <3>1, <3>2, <3>3 DEF Moved
  <2> QED BY <2>5 DEF Handled
<1>4. CASE x \notin sides
  <2>1. cqe'[x] = cqe[x]
    BY <1>1, <1>2, <1>4
  <2>2. sq'[x] = sq[x] /\ rq'[x] = rq[x]
    BY <1>4 DEF QpError
  <2> QED BY <2>1, <2>2 DEF Handled, Sizes
<1> QED BY <1>3, <1>4

\* What happens to one request of a send queue does not change the queue's length.
LEMMA SameLength ==
  ASSUME TypeOK, NEW s \in Side, NEW k \in 1 .. Len(sq[s]),
         \/ sq' = [sq EXCEPT ![s][k].phase = "done"]
         \/ \E v : sq' = [sq EXCEPT ![s][k].phase = "fetched", ![s][k].val = v]
  PROVE  \A x \in Side : Len(sq'[x]) = Len(sq[x])
<1>1. sq \in [Side -> Seq(Wr)]
  BY DEF TypeOK, QpTypeOK
<1>2. ASSUME NEW q \in Seq(Wr), NEW e PROVE Len([q EXCEPT ![k] = e]) = Len(q)
  OBVIOUS
<1>3. ASSUME NEW v, sq' = [sq EXCEPT ![s][k].phase = "fetched", ![s][k].val = v]
      PROVE  Len(sq'[s]) = Len(sq[s]) /\ \A x \in Side : x # s => sq'[x] = sq[x]
  BY <1>1, <1>3
<1>4. ASSUME sq' = [sq EXCEPT ![s][k].phase = "done"]
      PROVE  Len(sq'[s]) = Len(sq[s]) /\ \A x \in Side : x # s => sq'[x] = sq[x]
  BY <1>1, <1>4
<1> QED BY <1>3, <1>4

\* The adapters.
LEMMA AdapterSizes ==
  ASSUME TypeOK, NEW s \in Side, Adapter(s), NEW x \in Side
  PROVE  Handled(Sizes(x), Sizes(x)')
<1> USE SideFacts
<1>1. cqe \in [Side -> Seq(Wc)] /\ sq \in [Side -> Seq(Wr)] /\ rq \in [Side -> Nat] /\ QpTypeOK
  BY DEF TypeOK, CqTypeOK, QpTypeOK
<1>2. ASSUME NEW k \in 1 .. Len(sq[s]), Transmit(s, k)
      PROVE  Handled(Sizes(x), Sizes(x)')
  <2>1. Len(sq'[x]) = Len(sq[x]) /\ cqh' = cqh
    BY <1>2, SameLength DEF Transmit
  <2>2. CASE rq' = rq /\ cqe' = cqe
    BY <2>1, <2>2 DEF Handled, Sizes
  <2>3. CASE /\ sq[s][k].op = "SEND"
             /\ rq' = [rq EXCEPT ![Peer(s)] = @ - 1]
             /\ AddCompletions(Only(Peer(s), <<WcOf("RECV", "ok", sq[s][k].buf)>>))
    <3>1. rq[Peer(s)] > 0
      BY <1>1, <1>2, <2>3 DEF Transmit, Undeliverable
    <3>2. sq[s][k].buf \in Buffer \cup {NoBuffer} /\ "RECV" \in Operation \cup {"RECV"}
      BY <1>1, SqEntryType
    <3>3. /\ Len(cqe'[Peer(s)]) = Len(cqe[Peer(s)]) + 1
          /\ Sends(cqe'[Peer(s)]) = Sends(cqe[Peer(s)]) + 0
          /\ \A y \in Side : y # Peer(s) => cqe'[y] = cqe[y]
      BY <2>3, <3>2, OneEnters
    <3>4. CASE x = Peer(s)
      <4>1. Sizes(x).receives > 0
        BY <3>1, <3>4 DEF Sizes
      <4>2. /\ rq'[x] = rq[x] - 1
            /\ Len(cqe'[x]) = Len(cqe[x]) + 1 /\ Sends(cqe'[x]) = Sends(cqe[x]) + 0
        BY <1>1, <2>3, <3>3, <3>4
      <4>3. Moved(Sizes(x), Sizes(x)', 0, -1, 1, 0, 0)
        <5>1. /\ Sizes(x)'.requests = Sizes(x).requests + 0
              /\ Sizes(x)'.receives = Sizes(x).receives + -1
          BY <2>1, <4>2, SizesFields
        <5>2. /\ Sizes(x)'.completions = Sizes(x).completions + 1
              /\ Sizes(x)'.sends = Sizes(x).sends + 0
          BY <4>2, SizesFields
        <5>3. Sizes(x)'.owed = Sizes(x).owed + 0
          BY <2>1, SizesFields
        <5> QED BY <5>1, <5>2, <5>3 DEF Moved
      <4> QED BY <4>1, <4>3 DEF Handled
    <3>5. CASE x # Peer(s)
      BY <1>1, <2>1, <2>3, <3>3, <3>5 DEF Handled, Sizes
    <3> QED BY <3>4, <3>5
  <2> QED BY <1>2, <2>2, <2>3 DEF Transmit
<1>3. ASSUME NEW k \in 1 .. Len(sq[s]), TransmitFails(s, k)
      PROVE  Handled(Sizes(x), Sizes(x)')
  <2> DEFINE refused == AccessRefused(s, sq[s][k])
             sides == IF refused THEN Side ELSE {s}
             lost == [NoCompletion EXCEPT ![s] = Flushed(s, k),
                                          ![Peer(s)] = IF refused THEN Flushed(Peer(s), 0) ELSE <<>>]
  <2>1. QpError(sides, lost) /\ cqh' = cqh
    BY <1>3 DEF TransmitFails
  <2>0. k \in Nat /\ 0 \in Nat
    OBVIOUS
  <2>2. Flushed(s, k) \in Seq(Wc) /\ Flushed(Peer(s), 0) \in Seq(Wc) /\ <<>> \in Seq(Wc)
    <3>1. Peer(s) \in Side
      OBVIOUS
    <3>2. \A y \in Side, j \in Nat : Flushed(y, j) \in Seq(Wc)
      BY <1>1, FlushedType
    <3>3. <<>> \in Seq(Wc)
      OBVIOUS
    <3> QED BY <2>0, <3>1, <3>2, <3>3
  <2>3. NoCompletion \in [Side -> Seq(Wc)]
    BY <2>2 DEF NoCompletion
  <2>4. lost \in [Side -> Seq(Wc)]
    BY <2>2, <2>3
  <2>5. /\ lost[s] = Flushed(s, k)
        /\ lost[Peer(s)] = IF refused THEN Flushed(Peer(s), 0) ELSE <<>>
    BY <2>3
  <2>6. \A y \in Side : y = s \/ y = Peer(s)
    BY DEF Side, Peer
  <2> HIDE DEF lost
  <2>7. \A y \in Side : IF y \in sides THEN \E j \in Nat : lost[y] = Flushed(y, j)
                                       ELSE lost[y] = <<>>
    <3> HIDE DEF refused
    <3> QED BY <2>5, <2>6
  <2> HIDE DEF sides
  <2> QED BY <2>1, <2>4, <2>7, QpErrorSizes
<1>4. ASSUME NEW k \in 1 .. Len(sq[s]), ReadArrives(s, k)
      PROVE  Handled(Sizes(x), Sizes(x)')
  <2>1. Len(sq'[x]) = Len(sq[x]) /\ UNCHANGED <<rq, cqe, cqh>>
    BY <1>4, SameLength DEF ReadArrives, cqVars
  <2> QED BY <2>1 DEF Handled, Sizes
<1>5. CASE CompleteSend(s)
  <2>1. /\ sq[s] # <<>> /\ sq' = [sq EXCEPT ![s] = Tail(@)] /\ rq' = rq /\ cqh' = cqh
        /\ AddCompletions(Only(s, <<WcOf(Head(sq[s]).op, "ok", NoBuffer)>>))
    BY <1>5 DEF CompleteSend
  <2>2. Len(sq'[s]) = Len(sq[s]) - 1 /\ Len(sq[s]) > 0 /\ Head(sq[s]) \in Wr
    BY <1>1, <2>1
  <2>3. Head(sq[s]).op \in Operation /\ Head(sq[s]).op # "RECV"
    BY <2>2 DEF Wr, Operation
  <2>4. /\ Len(cqe'[s]) = Len(cqe[s]) + 1
        /\ Sends(cqe'[s]) = Sends(cqe[s]) + 1
        /\ \A y \in Side : y # s => cqe'[y] = cqe[y]
    BY <2>1, <2>3, OneEnters
  <2>5. CASE x = s
    <3>1. Sizes(x).requests > 0
      BY <2>2, <2>5 DEF Sizes
    <3>2. Len(cqe'[x]) = Len(cqe[x]) + 1 /\ Sends(cqe'[x]) = Sends(cqe[x]) + 1
      BY <2>4, <2>5
    <3>3. Moved(Sizes(x), Sizes(x)', -1, 0, 1, 1, 0)
      <4>1. /\ Sizes(x)'.requests = Sizes(x).requests + -1
            /\ Sizes(x)'.receives = Sizes(x).receives + 0
        BY <2>1, <2>2, <2>5, SizesFields
      <4>2. /\ Sizes(x)'.completions = Sizes(x).completions + 1
            /\ Sizes(x)'.sends = Sizes(x).sends + 1
        BY <3>2, SizesFields
      <4>3. Sizes(x)'.owed = Sizes(x).owed + 0
        BY <2>1, SizesFields
      <4> QED BY <4>1, <4>2, <4>3 DEF Moved
    <3> QED BY <3>1, <3>3 DEF Handled
  <2>6. CASE x # s
    BY <1>1, <2>1, <2>4, <2>6 DEF Handled, Sizes
  <2> QED BY <2>5, <2>6
<1> QED BY <1>2, <1>3, <1>4, <1>5 DEF Adapter

\* ib_post_send takes a free slot of the send queue, or none.
LEMMA PostSendSizes ==
  ASSUME TypeOK, NEW s \in Side, NEW op \in Operation, NEW buf, PostSend(s, op, buf),
         UNCHANGED <<rq, cqh>>
  PROVE  /\ Posted(Sizes(s), Sizes(s)') \/ Sizes(s)' = Sizes(s)
         /\ \A x \in Side : x # s => Sizes(x)' = Sizes(x)
<1>1. cqe \in [Side -> Seq(Wc)] /\ sq \in [Side -> Seq(Wr)]
  BY DEF TypeOK, CqTypeOK, QpTypeOK
<1>2. SqInUse(s) = Sizes(s).requests + Sizes(s).sends
  BY SizesType
<1> DEFINE wr == [op |-> op, buf |-> buf, phase |-> "posted", val |-> "junk"]
<1>3. CASE /\ SqInUse(s) < TxDepth
           /\ sq' = [sq EXCEPT ![s] = Append(@, wr)]
           /\ cqe' = cqe
  <2> HIDE DEF wr
  <2>1. Len(sq'[s]) = Len(sq[s]) + 1 /\ \A x \in Side : x # s => sq'[x] = sq[x]
    BY <1>1, <1>3
  <2>2. Moved(Sizes(s), Sizes(s)', 1, 0, 0, 0, 0)
    BY <1>3, <2>1, SizesFields DEF Moved
  <2> QED BY <1>2, <1>3, <2>1, <2>2 DEF Posted, Sizes
<1>4. CASE /\ SqInUse(s) < TxDepth
           /\ AddCompletions(Only(s, <<WcOf(op, "flush", NoBuffer)>>))
           /\ sq' = sq
  <2>1. op # "RECV"
    BY DEF Operation
  <2>2. /\ Len(cqe'[s]) = Len(cqe[s]) + 1 /\ Sends(cqe'[s]) = Sends(cqe[s]) + 1
        /\ \A x \in Side : x # s => cqe'[x] = cqe[x]
    BY <1>4, <2>1, OneEnters
  <2>3. Moved(Sizes(s), Sizes(s)', 0, 0, 1, 1, 0)
    BY <1>4, <2>2, SizesFields DEF Moved
  <2> QED BY <1>2, <1>4, <2>2, <2>3 DEF Posted, Sizes
<1>5. CASE UNCHANGED <<sq, cqe>>
  BY <1>5 DEF Sizes
<1> QED BY <1>3, <1>4, <1>5 DEF PostSend

\* The first ib_post_recv finds the queues empty.
LEMMA PostRecvSizes ==
  ASSUME TypeOK, NEW s \in Side, Empty(Sizes(s)), PostRecv(s), UNCHANGED <<sq, cqh>>
  PROVE  /\ Posted(Sizes(s), Sizes(s)')
         /\ \A x \in Side : x # s => Sizes(x)' = Sizes(x)
<1>1. cqe \in [Side -> Seq(Wc)] /\ rq \in [Side -> Nat]
  BY DEF TypeOK, CqTypeOK, QpTypeOK
<1>2. CASE rq' = [rq EXCEPT ![s] = @ + 1] /\ cqe' = cqe
  <2>1. rq'[s] = rq[s] + 1
    BY <1>1, <1>2
  <2>2. Moved(Sizes(s), Sizes(s)', 0, 1, 0, 0, 0)
    BY <1>2, <2>1, SizesFields DEF Moved
  <2> QED BY <1>1, <1>2, <2>2 DEF Posted, Sizes
<1>3. CASE AddCompletions(Only(s, <<WcOf("RECV", "flush", NoBuffer)>>)) /\ rq' = rq
  <2>1. "RECV" \in Operation \cup {"RECV"}
    OBVIOUS
  <2>2. /\ Len(cqe'[s]) = Len(cqe[s]) + 1 /\ Sends(cqe'[s]) = Sends(cqe[s]) + 0
        /\ \A x \in Side : x # s => cqe'[x] = cqe[x]
    BY <1>3, <2>1, OneEnters
  <2>3. Moved(Sizes(s), Sizes(s)', 0, 0, 1, 0, 0)
    BY <1>3, <2>2, SizesFields DEF Moved
  <2> QED BY <1>3, <2>2, <2>3 DEF Posted, Sizes
<1> QED BY <1>2, <1>3 DEF PostRecv

\* Where a side posts, fails or frees, it is past its first receive and stays there.
LEMMA MainPosts ==
  ASSUME TypeOK, ClientMain \/ ServerMain
  PROVE  \E m \in Side :
           /\ \A x \in Side : x # m => pc'[x] = pc[x]
           /\ pc'[m] \in PreRecv => pc[m] \in PreRecv
           /\ \/ UNCHANGED <<sq, rq, cqe, cqh>>
              \/ /\ pc'[m] \notin PreRecv
                 /\ \/ /\ \E op \in Operation : \E buf : PostSend(m, op, buf)
                       /\ UNCHANGED <<rq, cqh>>
                    \/ /\ pc[m] = "post_recv"
                       /\ PostRecv(m)
                       /\ UNCHANGED <<sq, cqh>>
                    \/ QpError({m}, Only(m, Flushed(m, 0))) /\ UNCHANGED cqh
                    \/ FreeQp(m)
<1>1. pc \in [Side -> ClientLabel \cup ServerLabel]
  BY DEF TypeOK, ThreadTypeOK
<1>2. CASE ClientMain
  <2>1. "client" \in Side /\ "SEND" \in Operation
    BY DEF Side, Operation
  <2> QED
    BY <1>1, <1>2, <2>1
    DEF ClientMain, ClientStart, ClientBind, ClientBindWait, ClientBindCheck, ClientSetupQp,
        QpSetUp, SetupBuffers, PostFirstRecv, ClientConnect, ClientConnectWait,
        ClientConnectCheck, ClientAdvertise, ClientSend, ClientGoAheadWait, Disconnect,
        DisconnectConnection, FreeBuffers, FreeQp, FreeCq, ClientDestroyId, WaitEvent, Goto,
        cqVars, qpVars, PreRecv
<1>3. CASE ServerMain
  <2>1. "server" \in Side /\ Operation = {"SEND", "READ", "WRITE"}
    BY DEF Side, Operation
  <2> QED
    BY <1>1, <1>3, <2>1
    DEF ServerMain, ServerStart, ServerBind, ServerRequestWait, ServerRequestCheck,
        ServerSetupQp, QpSetUp, SetupBuffers, PostFirstRecv, ServerAccept, ServerAcceptWait,
        ServerAcceptCheck, ServerPingWait, ServerRead, ServerReadWait, ServerWrite,
        ServerWriteWait, ServerNextRound, ServerGoAhead, Disconnect, DisconnectConnection,
        FreeBuffers, FreeQp, FreeCq, ServerDestroyChild, ServerDestroyListener, WaitEvent,
        Goto, cqVars, qpVars, PreRecv
<1> QED BY <1>2, <1>3

\* The sizes stay within their bounds when they change in one of these two ways.
LEMMA DepthKept ==
  ASSUME TypeOK, NEW x \in Side, DepthOf(x),
         \/ Handled(Sizes(x), Sizes(x)') /\ (pc'[x] \in PreRecv => pc[x] \in PreRecv)
         \/ Posted(Sizes(x), Sizes(x)') /\ pc'[x] \notin PreRecv
  PROVE  DepthOf(x)'
<1>1. Sizes(x) \in SizeRecord /\ Sizes(x).sends <= Sizes(x).completions
  BY SizesType
<1>2. Fits(Sizes(x))
  BY DEF DepthOf
<1>3. CASE Handled(Sizes(x), Sizes(x)') /\ (pc'[x] \in PreRecv => pc[x] \in PreRecv)
  <2>1. Fits(Sizes(x)') /\ (Empty(Sizes(x)) => Empty(Sizes(x)'))
    BY <1>1, <1>2, <1>3, HandledFits
  <2> QED BY <1>3, <2>1 DEF DepthOf, Fits, Empty
<1>4. CASE Posted(Sizes(x), Sizes(x)') /\ pc'[x] \notin PreRecv
  <2>1. Fits(Sizes(x)')
    BY <1>1, <1>2, <1>4, PostedFits
  <2> QED BY <1>4, <2>1 DEF DepthOf, Fits
<1> QED BY <1>3, <1>4

\* Whatever step is taken, the sizes of both sides stay within their bounds.
LEMMA DepthStep ==
  ASSUME DepthInv, Next, NEW x \in Side
  PROVE  DepthOf(x)'
<1>1. TypeOK /\ DepthOf(x)
  BY DEF DepthInv, TypeInv
<1>2. CASE ClientMain \/ ServerMain
  <2>1. PICK m \in Side :
           /\ \A y \in Side : y # m => pc'[y] = pc[y]
           /\ pc'[m] \in PreRecv => pc[m] \in PreRecv
           /\ \/ UNCHANGED <<sq, rq, cqe, cqh>>
              \/ /\ pc'[m] \notin PreRecv
                 /\ \/ /\ \E op \in Operation : \E buf : PostSend(m, op, buf)
                       /\ UNCHANGED <<rq, cqh>>
                    \/ /\ pc[m] = "post_recv"
                       /\ PostRecv(m)
                       /\ UNCHANGED <<sq, cqh>>
                    \/ QpError({m}, Only(m, Flushed(m, 0))) /\ UNCHANGED cqh
                    \/ FreeQp(m)
    BY <1>1, <1>2, MainPosts
  <2>2. pc'[x] \in PreRecv => pc[x] \in PreRecv
    BY <2>1
  <2>3. CASE UNCHANGED <<sq, rq, cqe, cqh>>
    <3>1. Handled(Sizes(x), Sizes(x)')
      BY <2>3 DEF Handled, Sizes
    <3> QED BY <1>1, <2>2, <3>1, DepthKept
  <2>4. CASE /\ pc'[m] \notin PreRecv
             /\ \E op \in Operation : \E buf : PostSend(m, op, buf)
             /\ UNCHANGED <<rq, cqh>>
    <3>1. /\ Posted(Sizes(m), Sizes(m)') \/ Sizes(m)' = Sizes(m)
          /\ \A y \in Side : y # m => Sizes(y)' = Sizes(y)
      BY <1>1, <2>4, PostSendSizes
    <3>2. \/ x = m /\ Posted(Sizes(x), Sizes(x)')
          \/ Handled(Sizes(x), Sizes(x)')
      BY <3>1 DEF Handled
    <3> QED BY <1>1, <2>2, <2>4, <3>2, DepthKept
  <2>5. CASE /\ pc'[m] \notin PreRecv /\ pc[m] = "post_recv" /\ PostRecv(m)
             /\ UNCHANGED <<sq, cqh>>
    <3>1. Empty(Sizes(m))
      BY <2>5 DEF DepthInv, DepthOf, PreRecv
    <3>2. /\ Posted(Sizes(m), Sizes(m)')
          /\ \A y \in Side : y # m => Sizes(y)' = Sizes(y)
      BY <1>1, <2>5, <3>1, PostRecvSizes
    <3>3. \/ x = m /\ Posted(Sizes(x), Sizes(x)')
          \/ Handled(Sizes(x), Sizes(x)')
      BY <3>2 DEF Handled
    <3> QED BY <1>1, <2>2, <2>5, <3>3, DepthKept
  <2>6. CASE QpError({m}, Only(m, Flushed(m, 0))) /\ UNCHANGED cqh
    <3>1. QpTypeOK /\ 0 \in Nat
      BY <1>1 DEF TypeOK
    <3>2. Flushed(m, 0) \in Seq(Wc)
      BY <3>1, FlushedType
    <3>3. Only(m, Flushed(m, 0)) \in [Side -> Seq(Wc)]
      BY <3>2, OnlyType
    <3>4. \A y \in Side : IF y \in {m} THEN \E k \in Nat : Only(m, Flushed(m, 0))[y] = Flushed(y, k)
                                       ELSE Only(m, Flushed(m, 0))[y] = <<>>
      BY <3>1 DEF Only, NoCompletion
    <3>5. Handled(Sizes(x), Sizes(x)')
      BY <1>1, <2>6, <3>3, <3>4, QpErrorSizes
    <3> QED BY <1>1, <2>2, <3>5, DepthKept
  <2>7. CASE pc'[m] \notin PreRecv /\ FreeQp(m)
    <3>1. /\ sq' = [sq EXCEPT ![m] = <<>>] /\ rq' = [rq EXCEPT ![m] = 0]
          /\ cqe' = [cqe EXCEPT ![m] = <<>>] /\ cqh' = cqh
      BY <2>7 DEF FreeQp
    <3>2. CASE x # m
      <4>1. sq'[x] = sq[x] /\ rq'[x] = rq[x] /\ cqe'[x] = cqe[x]
        BY <1>1, <3>1, <3>2 DEF TypeOK, QpTypeOK, CqTypeOK
      <4>2. Handled(Sizes(x), Sizes(x)')
        BY <3>1, <4>1 DEF Handled, Sizes
      <4> QED BY <1>1, <2>2, <4>2, DepthKept
    <3>3. CASE x = m
      <4>1. sq'[x] = <<>> /\ rq'[x] = 0 /\ cqe'[x] = <<>>
        BY <1>1, <3>1, <3>3 DEF TypeOK, QpTypeOK, CqTypeOK
      <4>2. Len(sq'[x]) = 0 /\ Len(cqe'[x]) = 0 /\ Sends(cqe'[x]) = 0
        BY <4>1, SendsFew
      <4>3. Moved(Sizes(x), Sizes(x)', -Sizes(x).requests, -Sizes(x).receives,
                  -Sizes(x).completions, -Sizes(x).sends, 0)
        <5>1. /\ Sizes(x)'.requests = Sizes(x).requests + -Sizes(x).requests
              /\ Sizes(x)'.receives = Sizes(x).receives + -Sizes(x).receives
          BY <1>1, <4>1, <4>2, SizesFields
        <5>2. /\ Sizes(x)'.completions = Sizes(x).completions + -Sizes(x).completions
              /\ Sizes(x)'.sends = Sizes(x).sends + -Sizes(x).sends
          BY <1>1, <4>2, SizesFields
        <5>3. Sizes(x)'.owed = Sizes(x).owed + 0
          BY <1>1, <3>1, SizesFields
        <5> QED BY <5>1, <5>2, <5>3 DEF Moved
      <4>4. Posted(Sizes(x), Sizes(x)')
        BY <4>3 DEF Posted
      <4> QED BY <1>1, <2>7, <3>3, <4>4, DepthKept
    <3> QED BY <3>2, <3>3
  <2> QED BY <2>1, <2>3, <2>4, <2>5, <2>6, <2>7
<1>3. ASSUME NEW s \in Side, megaVM_cq_event_handler(s) \/ Adapter(s)
      PROVE  DepthOf(x)'
  <2>1. pc' = pc
    BY <1>3, OtherThread DEF Callbacks
  <2>2. Handled(Sizes(x), Sizes(x)')
    BY <1>1, <1>3, CqSizes, AdapterSizes DEF Handled
  <2> QED BY <1>1, <2>1, <2>2, DepthKept
<1>4. CASE \/ ConnectionEstablished \/ ConnectTimeout \/ UNCHANGED vars
           \/ \E s \in Side : megaVM_cma_event_handler(s) \/ StrayEvent(s) \/ Signal(s)
  <2>1. UNCHANGED <<sq, rq, cqe, cqh>>
    BY <1>4, OtherQueues DEF ConnectionEstablished, ConnectTimeout, vars, cqVars, qpVars
  <2>2. pc' = pc
    BY <1>4, SideFacts, OtherThread DEF Callbacks, Signal, vars, threadVars
  <2>3. Handled(Sizes(x), Sizes(x)')
    BY <2>1 DEF Handled, Sizes
  <2> QED BY <1>1, <2>2, <2>3, DepthKept
<1> QED BY <1>2, <1>3, <1>4 DEF Next, Progress, Fault, Over, Callbacks

\* DepthInv is inductive.
THEOREM DepthInvariance == Spec => []DepthInv
<1>1. Init => DepthInv
  <2> SUFFICES ASSUME Init PROVE DepthInv
    OBVIOUS
  <2>1. ASSUME NEW s \in Side
        PROVE  Len(sq[s]) = 0 /\ rq[s] = 0 /\ Len(cqe[s]) = 0 /\ Sends(cqe[s]) = 0
               /\ cqh[s] = "idle"
    BY SendsFew DEF Init, InitContext
  <2>2. ASSUME NEW s \in Side PROVE DepthOf(s)
    BY <2>1, IbContextAssumption DEF DepthOf, Fits, Empty, Sizes
  <2> QED BY <2>2, InitType DEF DepthInv
<1>2. DepthInv /\ [Next]_vars => DepthInv'
  <2> SUFFICES ASSUME DepthInv, [Next]_vars PROVE DepthInv'
    OBVIOUS
  <2>1. TypeInv'
    BY ThreadStep, ContextStep, BufferStep, CmStep, QueueStep, MisuseStep, StutterType
    DEF DepthInv, TypeInv, TypeOK
  <2>2. CASE Next
    BY <2>1, <2>2, DepthStep DEF DepthInv
  <2>3. CASE UNCHANGED vars
    BY <2>1, <2>3 DEF DepthInv, DepthOf, Sizes, vars, threadVars, qpVars, cqVars
  <2> QED BY <2>2, <2>3
<1> QED BY <1>1, <1>2, PTL DEF Spec

\* However late the callbacks run and whatever fails, no completion queue ever holds
\* more than the txdepth * 2 completions it was created for, and no side has more than
\* the two receives posted that its queue pair was created for.
THEOREM QueuesFit == Spec => []QueuesWithinDepth
<1>1. DepthInv => QueuesWithinDepth
  <2> SUFFICES ASSUME DepthInv, NEW s \in Side
               PROVE  Len(cqe[s]) <= 2 * TxDepth /\ rq[s] <= 2
    BY DEF QueuesWithinDepth
  <2>1. Sizes(s) \in SizeRecord /\ Sizes(s).sends <= Sizes(s).completions /\ Fits(Sizes(s))
    BY SizesType DEF DepthInv, TypeInv, DepthOf
  <2>2. TxDepth >= 1 /\ TxDepth \in Nat
    BY IbContextAssumption
  <2>3. Sizes(s).completions <= TxDepth + 1 /\ Sizes(s).receives <= 1
    BY <2>1, <2>2 DEF SizeRecord, Fits
  <2>4. Len(cqe[s]) = Sizes(s).completions /\ rq[s] = Sizes(s).receives
    BY DEF Sizes
  <2> QED BY <2>1, <2>2, <2>3, <2>4 DEF SizeRecord
<1> QED BY <1>1, DepthInvariance, PTL

-----------------------------------------------------------------------------
(* The go-ahead reaches the client behind all of the server's data.        *)

\* Where the server's main thread is once it has posted the go-ahead, or given up on it.
Sent == {"disconnect", "free_buffers", "free_qp", "free_cq", "destroy_child",
         "destroy_listener", "done"}

\* The go-ahead is the last request that the server posts.
SendIsLast ==
  \A k \in 1 .. Len(sq["server"]) :
    sq["server"][k].op = "SEND" => k = Len(sq["server"]) /\ pc["server"] \in Sent

\* It is carried out after everything that was posted before it.
NothingAfterSend ==
  carried["SEND"] > 0 =>
    /\ pc["server"] \in Sent
    /\ \A k \in 1 .. Len(sq["server"]) : sq["server"][k].phase # "posted"

\* A queue of completions with a message in it.
Receipt(q) == \E i \in 1 .. Len(q) : q[i].op = "RECV" /\ q[i].status = "ok"

\* The client hears of it only when it was carried out.
HeardOfSend ==
  Receipt(cqe["client"]) \/ state["client"] = RDMA_WRITE_ADV => carried["SEND"] > 0

GoAheadInv == TypeInv /\ SendIsLast /\ NothingAfterSend /\ HeardOfSend

\* Messages do not come from flushed queues, and a part has none that the whole has not.
LEMMA Receipts ==
  /\ ~Receipt(<<>>)
  /\ \A q, r \in Seq(Wc) : Receipt(q \o r) => Receipt(q) \/ Receipt(r)
  /\ \A q \in Seq(Wc) : q # <<>> =>
       /\ Receipt(Tail(q)) => Receipt(q)
       /\ Head(q).op = "RECV" /\ Head(q).status = "ok" => Receipt(q)
  /\ \A op, info : ~Receipt(<<WcOf(op, "flush", info)>>)
  /\ \A op \in Operation : \A status, info : ~Receipt(<<WcOf(op, status, info)>>)
  /\ QpTypeOK => \A s \in Side, k \in Nat : ~Receipt(Flushed(s, k))
<1>1. ~Receipt(<<>>)
  BY DEF Receipt
<1>2. ASSUME NEW q \in Seq(Wc), NEW r \in Seq(Wc), Receipt(q \o r) PROVE Receipt(q) \/ Receipt(r)
  <2>1. PICK i \in 1 .. Len(q \o r) : (q \o r)[i].op = "RECV" /\ (q \o r)[i].status = "ok"
    BY <1>2 DEF Receipt
  <2>2. Len(q) \in Nat /\ Len(r) \in Nat /\ Len(q \o r) = Len(q) + Len(r)
    OBVIOUS
  <2>3. CASE i <= Len(q)
    <3>1. (q \o r)[i] = q[i] /\ i \in 1 .. Len(q)
      BY <2>2, <2>3
    <3> QED BY <2>1, <3>1 DEF Receipt
  <2>4. CASE i > Len(q)
    <3>1. (q \o r)[i] = r[i - Len(q)] /\ i - Len(q) \in 1 .. Len(r)
      BY <2>2, <2>4
    <3> QED BY <2>1, <3>1 DEF Receipt
  <2> QED BY <2>2, <2>3, <2>4
<1>3. ASSUME NEW q \in Seq(Wc), q # <<>>
      PROVE  /\ Receipt(Tail(q)) => Receipt(q)
             /\ Head(q).op = "RECV" /\ Head(q).status = "ok" => Receipt(q)
  <2>1. /\ Len(q) \in Nat /\ Len(q) >= 1 /\ Len(Tail(q)) = Len(q) - 1 /\ Head(q) = q[1]
        /\ \A i \in 1 .. Len(q) - 1 : Tail(q)[i] = q[i + 1] /\ i + 1 \in 1 .. Len(q)
    BY <1>3
  <2> QED BY <2>1 DEF Receipt
<1>4. /\ \A op, info : ~Receipt(<<WcOf(op, "flush", info)>>)
      /\ \A op \in Operation : \A status, info : ~Receipt(<<WcOf(op, status, info)>>)
  BY DEF Receipt, WcOf, Operation
<1>5. ASSUME QpTypeOK, NEW s \in Side, NEW k \in Nat PROVE ~Receipt(Flushed(s, k))
  BY <1>5, FlushedCount DEF Receipt
<1> QED BY <1>1, <1>2, <1>3, <1>4, <1>5

\* The client's completion queue gets a message only from a send of the server.
LEMMA ClientCompletions ==
  ASSUME TypeOK, Next
  PROVE  \/ Receipt(cqe'["client"]) => Receipt(cqe["client"])
         \/ \E k \in 1 .. Len(sq["server"]) :
              Transmit("server", k) /\ sq["server"][k].op = "SEND"
<1> USE SideFacts
<1>1. cqe \in [Side -> Seq(Wc)] /\ QpTypeOK /\ 0 \in Nat
  BY DEF TypeOK, CqTypeOK
<1> DEFINE Kept == Receipt(cqe'["client"]) => Receipt(cqe["client"])
           Delivered == \E k \in 1 .. Len(sq["server"]) :
                          Transmit("server", k) /\ sq["server"][k].op = "SEND"
<1> SUFFICES Kept \/ Delivered
  OBVIOUS
<1>2. ASSUME NEW add \in [Side -> Seq(Wc)], AddCompletions(add), ~Receipt(add["client"])
      PROVE  Kept
  <2>1. cqe'["client"] = cqe["client"] \o add["client"]
    BY <1>2 DEF AddCompletions
  <2> QED BY <1>1, <1>2, <2>1, Receipts
<1>3. ASSUME NEW s \in Side, NEW q \in Seq(Wc), AddCompletions(Only(s, q)), ~Receipt(q)
      PROVE  Kept
  <2>1. Only(s, q) \in [Side -> Seq(Wc)]
    BY OnlyType
  <2>2. ~Receipt(Only(s, q)["client"])
    BY <1>3, Receipts DEF Only, NoCompletion
  <2> HIDE DEF Kept
  <2> QED BY <1>2, <1>3, <2>1, <2>2
<1>4. ASSUME NEW s \in Side, PostRecv(s) PROVE Kept
  <2>1. CASE cqe' = cqe
    BY <2>1
  <2>2. CASE AddCompletions(Only(s, <<WcOf("RECV", "flush", NoBuffer)>>))
    <3>1. <<WcOf("RECV", "flush", NoBuffer)>> \in Seq(Wc)
      BY WcOfType
    <3> HIDE DEF Kept
    <3> QED BY <1>3, <2>2, <3>1, Receipts
  <2> QED BY <1>4, <2>1, <2>2 DEF PostRecv
<1>5. ASSUME NEW s \in Side, NEW op \in Operation, NEW status \in {"ok", "flush"},
             AddCompletions(Only(s, <<WcOf(op, status, NoBuffer)>>))
      PROVE  Kept
  <2>1. <<WcOf(op, status, NoBuffer)>> \in Seq(Wc)
    BY WcOfType
  <2> HIDE DEF Kept
  <2> QED BY <1>3, <1>5, <2>1, Receipts
<1>6. CASE ClientMain \/ ServerMain
  <2>1. PICK m \in Side :
          \/ UNCHANGED cqe
          \/ \E op \in Operation : \E buf : PostSend(m, op, buf)
          \/ PostRecv(m)
          \/ QpError({m}, Only(m, Flushed(m, 0)))
          \/ FreeQp(m)
    BY <1>6, MainPosts
  <2>2. CASE \E op \in Operation : \E buf : PostSend(m, op, buf)
    <3>1. CASE UNCHANGED cqe
      BY <3>1
    <3>2. ASSUME NEW op \in Operation, AddCompletions(Only(m, <<WcOf(op, "flush", NoBuffer)>>))
          PROVE  Kept
      <4> HIDE DEF Kept
      <4>1. "flush" \in {"ok", "flush"}
        OBVIOUS
      <4> QED BY <1>5, <3>2, <4>1
    <3> HIDE DEF Kept
    <3> QED BY <2>2, <3>1, <3>2 DEF PostSend
  <2>3. CASE QpError({m}, Only(m, Flushed(m, 0)))
    <3>1. Flushed(m, 0) \in Seq(Wc) /\ ~Receipt(Flushed(m, 0))
      BY <1>1, FlushedType, Receipts
    <3>2. AddCompletions(Only(m, Flushed(m, 0)))
      BY <2>3 DEF QpError
    <3> HIDE DEF Kept
    <3> QED BY <1>3, <3>1, <3>2
  <2>4. CASE FreeQp(m)
    <3>1. cqe'["client"] = cqe["client"] \/ cqe'["client"] = <<>>
      BY <1>1, <2>4 DEF FreeQp
    <3> QED BY <3>1, Receipts
  <2>5. CASE UNCHANGED cqe
    BY <2>5
  <2> HIDE DEF Kept
  <2> QED BY <1>4, <2>1, <2>2, <2>3, <2>4, <2>5 DEF Kept
<1>7. ASSUME NEW s \in Side, megaVM_cq_event_handler(s) PROVE Kept
  <2>1. CASE CqPoll(s)
    <3>1. cqe[s] # <<>> /\ cqe' = [cqe EXCEPT ![s] = Tail(@)]
      BY <2>1 DEF CqPoll
    <3>2. cqe'["client"] = cqe["client"]
          \/ (cqe["client"] # <<>> /\ cqe'["client"] = Tail(cqe["client"]))
      BY <1>1, <3>1
    <3> QED BY <1>1, <3>2, Receipts
  <2>2. CASE CqRepost(s)
    <3> HIDE DEF Kept
    <3>1. CASE UNCHANGED cqe
      BY <3>1 DEF Kept
    <3> QED BY <1>4, <2>2, <3>1 DEF CqRepost
  <2>3. CASE CqEvent(s) \/ CqArm(s) \/ CqPollEmpty(s) \/ CqWake(s)
    BY <2>3 DEF CqEvent, CqArm, CqPollEmpty, CqWake
  <2> HIDE DEF Kept
  <2> QED BY <1>7, <2>1, <2>2, <2>3 DEF megaVM_cq_event_handler
<1>8. ASSUME NEW s \in Side, NEW k \in 1 .. Len(sq[s]), Transmit(s, k)
      PROVE  Kept \/ (s = "server" /\ sq[s][k].op = "SEND")
  <2>1. CASE UNCHANGED cqe
    BY <2>1
  <2>2. CASE sq[s][k].op = "SEND"
             /\ AddCompletions(Only(Peer(s), <<WcOf("RECV", "ok", sq[s][k].buf)>>))
    <3>1. CASE s = "client"
      <4>1. cqe'["client"] = cqe["client"] \o <<>>
        BY <2>2, <3>1 DEF AddCompletions, Only, NoCompletion
      <4> QED BY <1>1, <4>1
    <3>2. CASE s = "server"
      BY <2>2, <3>2
    <3> HIDE DEF Kept
    <3> QED BY <3>1, <3>2
  <2> HIDE DEF Kept
  <2> QED BY <1>8, <2>1, <2>2 DEF Transmit
<1>9. ASSUME NEW s \in Side, NEW k \in 1 .. Len(sq[s]), TransmitFails(s, k)
      PROVE  Kept
  <2> DEFINE refused == AccessRefused(s, sq[s][k])
             lost == [NoCompletion EXCEPT ![s] = Flushed(s, k),
                                          ![Peer(s)] = IF refused THEN Flushed(Peer(s), 0) ELSE <<>>]
  <2>1. AddCompletions(lost)
    BY <1>9 DEF TransmitFails, QpError
  <2>2. \A y \in Side, j \in Nat : Flushed(y, j) \in Seq(Wc) /\ ~Receipt(Flushed(y, j))
    BY <1>1, FlushedType, Receipts
  <2>3. k \in Nat /\ <<>> \in Seq(Wc) /\ ~Receipt(<<>>)
    BY Receipts
  <2>4. NoCompletion \in [Side -> Seq(Wc)]
    BY <2>3 DEF NoCompletion
  <2>5. /\ lost \in [Side -> Seq(Wc)]
        /\ \A y \in Side : lost[y] = Flushed(s, k) \/ lost[y] = Flushed(Peer(s), 0)
                           \/ lost[y] = <<>>
    <3> HIDE DEF refused
    <3>1. Flushed(s, k) \in Seq(Wc) /\ Flushed(Peer(s), 0) \in Seq(Wc)
      BY <1>1, <2>2, <2>3
    <3>2. lost[s] = Flushed(s, k)
          /\ lost[Peer(s)] = IF refused THEN Flushed(Peer(s), 0) ELSE <<>>
      BY <2>4
    <3>3. \A y \in Side : y = s \/ y = Peer(s)
      BY DEF Side, Peer
    <3>4. lost \in [Side -> Seq(Wc)]
      BY <2>3, <2>4, <3>1
    <3> HIDE DEF lost
    <3> QED BY <3>2, <3>3, <3>4
  <2>6. ~Receipt(lost["client"])
    <3>1. ~Receipt(Flushed(s, k)) /\ ~Receipt(Flushed(Peer(s), 0))
      BY <1>1, <2>2, <2>3
    <3>2. lost["client"] \in {Flushed(s, k), Flushed(Peer(s), 0), <<>>}
      BY <2>5
    <3> HIDE DEF lost
    <3> QED BY <2>3, <3>1, <3>2
  <2> HIDE DEF lost, Kept
  <2> QED BY <1>2, <2>1, <2>5, <2>6
<1>10. ASSUME NEW s \in Side, CompleteSend(s) PROVE Kept
  <2>1. sq[s] \in Seq(Wr) /\ sq[s] # <<>>
    BY <1>10 DEF CompleteSend, TypeOK, QpTypeOK
  <2>2. Head(sq[s]) \in Wr
    BY <2>1
  <2>3. Head(sq[s]).op \in Operation
    BY <2>2 DEF Wr
  <2> HIDE DEF Kept
  <2> QED BY <1>5, <1>10, <2>3 DEF CompleteSend
<1>11. ASSUME NEW s \in Side, NEW k \in 1 .. Len(sq[s]), ReadArrives(s, k)
       PROVE  Kept
  BY <1>11 DEF ReadArrives, cqVars
<1>12. CASE \/ ConnectionEstablished \/ ConnectTimeout \/ UNCHANGED vars
            \/ \E s \in Side : megaVM_cma_event_handler(s) \/ StrayEvent(s) \/ Signal(s)
  BY <1>12, OtherQueues DEF ConnectionEstablished, ConnectTimeout, vars, cqVars
<1> HIDE DEF Kept
<1>13. ASSUME NEW s \in Side, Adapter(s) PROVE Kept \/ Delivered
  BY <1>8, <1>9, <1>10, <1>11, <1>13 DEF Adapter
<1> HIDE DEF Delivered
<1> QED BY <1>6, <1>7, <1>12, <1>13 DEF Next, Progress, Fault, Over, Callbacks

\* A request that goes out or whose data arrives keeps its place and what it asks for,
\* and is not posted any more; the others stay as they are.
LEMMA RequestMoves ==
  ASSUME TypeOK, NEW s \in Side, NEW k \in 1 .. Len(sq[s]),
         \/ sq' = [sq EXCEPT ![s][k].phase = "done"]
         \/ \E v \in Content : sq' = [sq EXCEPT ![s][k].phase = "fetched", ![s][k].val = v]
  PROVE  /\ Len(sq'[s]) = Len(sq[s])
         /\ \A j \in 1 .. Len(sq[s]) :
              /\ sq'[s][j].op = sq[s][j].op
              /\ sq'[s][j].phase = sq[s][j].phase \/ (j = k /\ sq'[s][j].phase # "posted")
         /\ sq'[s][k].phase # "posted"
         /\ \A x \in Side : x # s => sq'[x] = sq[x]
<1>1. sq \in [Side -> Seq(Wr)] /\ sq[s][k] \in Wr /\ sq[s] \in Seq(Wr)
  BY DEF TypeOK, QpTypeOK
<1>2. Len(sq'[s]) = Len(sq[s])
  BY SameLength
<1>3. ASSUME NEW e, sq' = [sq EXCEPT ![s][k] = e], e.op = sq[s][k].op, e.phase # "posted"
      PROVE  /\ \A j \in 1 .. Len(sq[s]) :
                  /\ sq'[s][j].op = sq[s][j].op
                  /\ sq'[s][j].phase = sq[s][j].phase \/ (j = k /\ sq'[s][j].phase # "posted")
             /\ sq'[s][k].phase # "posted"
             /\ \A x \in Side : x # s => sq'[x] = sq[x]
  <2>1. sq'[s][k] = e /\ \A j \in 1 .. Len(sq[s]) : j # k => sq'[s][j] = sq[s][j]
    BY <1>1, <1>3
  <2> QED BY <1>1, <1>3, <2>1
<1>4. CASE sq' = [sq EXCEPT ![s][k].phase = "done"]
  <2> DEFINE e == [sq[s][k] EXCEPT !.phase = "done"]
  <2>1. sq' = [sq EXCEPT ![s][k] = e]
    BY <1>1, <1>4
  <2>2. e.op = sq[s][k].op /\ e.phase # "posted"
    BY <1>1 DEF Wr
  <2> HIDE DEF e
  <2> QED BY <1>2, <1>3, <2>1, <2>2
<1>5. ASSUME NEW v \in Content, sq' = [sq EXCEPT ![s][k].phase = "fetched", ![s][k].val = v]
      PROVE  /\ \A j \in 1 .. Len(sq[s]) :
                  /\ sq'[s][j].op = sq[s][j].op
                  /\ sq'[s][j].phase = sq[s][j].phase \/ (j = k /\ sq'[s][j].phase # "posted")
             /\ sq'[s][k].phase # "posted"
             /\ \A x \in Side : x # s => sq'[x] = sq[x]
  <2>1. sq'[s][k].op = sq[s][k].op
    BY <1>1, <1>5 DEF Wr
  <2>2. sq'[s][k].phase = "fetched"
    BY <1>1, <1>5 DEF Wr
  <2>3. \A j \in 1 .. Len(sq[s]) : j # k => sq'[s][j] = sq[s][j]
    BY <1>1, <1>5
  <2>4. \A x \in Side : x # s => sq'[x] = sq[x]
    BY <1>1, <1>5
  <2> QED BY <2>1, <2>2, <2>3, <2>4
<1> QED BY <1>2, <1>4, <1>5

\* From its go-ahead the server's main thread goes on to its end.
LEMMA SentStays ==
  ASSUME TypeOK, Next, pc["server"] \in Sent
  PROVE  pc'["server"] \in Sent
<1> USE SideFacts
<1>1. pc \in [Side -> ClientLabel \cup ServerLabel]
  BY DEF TypeOK, ThreadTypeOK
<1>2. CASE ServerMain
  BY <1>1, <1>2
  DEF Sent, ServerMain, ServerStart, ServerBind, ServerRequestWait, ServerRequestCheck,
      ServerSetupQp, QpSetUp, SetupBuffers, PostFirstRecv, ServerAccept, ServerAcceptWait,
      ServerAcceptCheck, ServerPingWait, ServerRead, ServerReadWait, ServerWrite,
      ServerWriteWait, ServerNextRound, ServerGoAhead, Disconnect, FreeBuffers, FreeQp, FreeCq,
      ServerDestroyChild, ServerDestroyListener, WaitEvent, Goto
<1>3. CASE ClientMain
  BY <1>1, <1>3, ClientThread
<1>4. CASE \/ ConnectionEstablished \/ ConnectTimeout \/ UNCHANGED vars
           \/ \E s \in Side : Callbacks(s) \/ Adapter(s) \/ StrayEvent(s) \/ Signal(s)
  BY <1>4, OtherThread DEF Signal, vars, threadVars
<1> QED BY <1>2, <1>3, <1>4 DEF Next, Progress, Fault, Over

\* The server posts reads and writes before its go-ahead, the go-ahead, and nothing else.
LEMMA ServerPosts ==
  ASSUME TypeOK, ClientMain \/ ServerMain
  PROVE  /\ carried' = carried
         /\ \/ sq'["server"] = sq["server"]
            \/ sq'["server"] = <<>>
            \/ \E op \in Operation : \E buf :
                 /\ PostSend("server", op, buf)
                 /\ pc["server"] \notin Sent
                 /\ op = "SEND" => pc'["server"] \in Sent
<1> USE SideFacts
<1>1. pc \in [Side -> ClientLabel \cup ServerLabel] /\ sq \in [Side -> Seq(Wr)]
  BY DEF TypeOK, ThreadTypeOK, QpTypeOK
<1>2. carried' = carried
  BY ClientBuffer, ServerBuffer DEF ClientSend, bufferVars
<1>3. CASE ServerRead \/ ServerWrite \/ ServerGoAhead
  <2>1. Operation = {"SEND", "READ", "WRITE"}
    BY DEF Operation
  <2> QED BY <1>1, <1>2, <1>3, <2>1 DEF ServerRead, ServerWrite, ServerGoAhead, Goto, Sent
<1>4. CASE ClientSend
  BY <1>1, <1>2, <1>4 DEF ClientSend, PostSend
<1>5. CASE \E s \in Side : Disconnect(s) \/ FreeQp(s)
  BY <1>1, <1>2, <1>5 DEF Disconnect, DisconnectConnection, QpError, FreeQp
<1>6. CASE ServerAccept
  BY <1>1, <1>2, <1>6 DEF ServerAccept, QpError
<1>7. \/ ServerRead \/ ServerWrite \/ ServerGoAhead \/ ClientSend \/ ServerAccept
      \/ \E s \in Side : Disconnect(s) \/ FreeQp(s)
      \/ UNCHANGED sq
  <2>1. CASE ClientMain
    BY <2>1
    DEF ClientMain, ClientStart, ClientBind, ClientBindWait, ClientBindCheck, ClientSetupQp,
        SetupBuffers, PostFirstRecv, ClientConnect, ClientConnectWait, ClientConnectCheck,
        ClientAdvertise, ClientGoAheadWait, FreeBuffers, FreeCq, ClientDestroyId, WaitEvent,
        qpVars
  <2>2. CASE ServerMain
    BY <2>2
    DEF ServerMain, ServerStart, ServerBind, ServerRequestWait, ServerRequestCheck,
        ServerSetupQp, SetupBuffers, PostFirstRecv, ServerAcceptWait, ServerAcceptCheck,
        ServerPingWait, ServerReadWait, ServerWriteWait, ServerNextRound, FreeBuffers,
        FreeCq, ServerDestroyChild, ServerDestroyListener, WaitEvent, qpVars
  <2> QED BY <2>1, <2>2
<1> QED BY <1>2, <1>3, <1>4, <1>5, <1>6, <1>7

\* The order of the server's requests when the send queue is left alone, dropped or
\* shortened from the front, and nothing is carried out.
LEMMA OrderKept ==
  ASSUME GoAheadInv, Next, carried' = carried,
         \/ sq'["server"] = sq["server"]
         \/ sq'["server"] = <<>>
         \/ sq["server"] # <<>> /\ sq'["server"] = Tail(sq["server"])
  PROVE  SendIsLast' /\ NothingAfterSend'
<1> DEFINE q == sq["server"]
<1>1. q \in Seq(Wr) /\ Len(q) \in Nat
  BY SideFacts DEF GoAheadInv, TypeInv, TypeOK, QpTypeOK
<1>2. pc["server"] \in Sent => pc'["server"] \in Sent
  BY SentStays DEF GoAheadInv, TypeInv
<1>3. CASE sq'["server"] = q
  BY <1>2, <1>3 DEF GoAheadInv, SendIsLast, NothingAfterSend
<1>4. CASE sq'["server"] = <<>>
  BY <1>2, <1>4 DEF GoAheadInv, SendIsLast, NothingAfterSend
<1>5. CASE q # <<>> /\ sq'["server"] = Tail(q)
  <2>1. /\ Len(Tail(q)) = Len(q) - 1
        /\ \A j \in 1 .. Len(q) - 1 : Tail(q)[j] = q[j + 1] /\ j + 1 \in 1 .. Len(q)
    BY <1>1, <1>5
  <2>2. SendIsLast'
    <3> SUFFICES ASSUME NEW j \in 1 .. Len(Tail(q)), Tail(q)[j].op = "SEND"
                 PROVE  j = Len(Tail(q)) /\ pc'["server"] \in Sent
      BY <1>5 DEF SendIsLast
    <3>1. j \in 1 .. Len(q) - 1 /\ q[j + 1].op = "SEND"
      BY <2>1
    <3>2. j + 1 = Len(q) /\ pc["server"] \in Sent
      BY <2>1, <3>1 DEF GoAheadInv, SendIsLast
    <3> QED BY <1>1, <1>2, <2>1, <3>1, <3>2
  <2>3. NothingAfterSend'
    <3> SUFFICES ASSUME carried["SEND"] > 0
                 PROVE  /\ pc'["server"] \in Sent
                        /\ \A j \in 1 .. Len(Tail(q)) : Tail(q)[j].phase # "posted"
      BY <1>5 DEF NothingAfterSend
    <3> QED BY <1>2, <2>1 DEF GoAheadInv, NothingAfterSend
  <2> QED BY <2>2, <2>3
<1> QED BY <1>3, <1>4, <1>5

\* The server's main thread posts its go-ahead last.
LEMMA MainOrder ==
  ASSUME GoAheadInv, Next, ClientMain \/ ServerMain
  PROVE  SendIsLast' /\ NothingAfterSend'
<1> DEFINE q == sq["server"]
<1>1. TypeOK /\ sq \in [Side -> Seq(Wr)] /\ q \in Seq(Wr) /\ Len(q) \in Nat
  BY SideFacts DEF GoAheadInv, TypeInv, TypeOK, QpTypeOK
<1>2. carried' = carried
  BY <1>1, ServerPosts
<1>3. CASE q = sq'["server"] \/ sq'["server"] = <<>>
  BY <1>2, <1>3, OrderKept
<1>4. ASSUME NEW op \in Operation, NEW buf, PostSend("server", op, buf),
             pc["server"] \notin Sent, op = "SEND" => pc'["server"] \in Sent
      PROVE  SendIsLast' /\ NothingAfterSend'
  <2> DEFINE wr == [op |-> op, buf |-> buf, phase |-> "posted", val |-> "junk"]
  <2>1. CASE sq' = sq
    BY <1>2, <2>1, OrderKept
  <2>2. CASE sq' = [sq EXCEPT !["server"] = Append(@, wr)]
    <3>1. wr.op = op
      OBVIOUS
    <3> HIDE DEF wr
    <3>2. sq'["server"] = Append(q, wr)
      BY <1>1, <2>2, SideFacts
    <3>3. /\ Len(Append(q, wr)) = Len(q) + 1
          /\ \A j \in 1 .. Len(q) + 1 :
               Append(q, wr)[j] = IF j = Len(q) + 1 THEN wr ELSE q[j]
      BY <1>1
    <3>4. \A j \in 1 .. Len(q) : q[j].op # "SEND"
      BY <1>4 DEF GoAheadInv, SendIsLast
    <3>5. ~(carried["SEND"] > 0)
      BY <1>4 DEF GoAheadInv, NothingAfterSend
    <3>6. SendIsLast'
      <4> SUFFICES ASSUME NEW j \in 1 .. Len(q) + 1, Append(q, wr)[j].op = "SEND"
                   PROVE  j = Len(q) + 1 /\ pc'["server"] \in Sent
        BY <3>2, <3>3 DEF SendIsLast
      <4>1. j = Len(q) + 1
        BY <1>1, <3>3, <3>4
      <4> QED BY <1>4, <3>1, <3>3, <4>1
    <3>7. NothingAfterSend'
      BY <1>2, <3>5 DEF NothingAfterSend
    <3> QED BY <3>6, <3>7
  <2> HIDE DEF wr
  <2>3. sq' = sq \/ sq' = [sq EXCEPT !["server"] = Append(@, wr)]
    BY <1>4 DEF PostSend, wr
  <2> QED BY <2>1, <2>2, <2>3
<1>5. \/ sq'["server"] = q
      \/ sq'["server"] = <<>>
      \/ \E op \in Operation : \E buf :
           /\ PostSend("server", op, buf)
           /\ pc["server"] \notin Sent
           /\ op = "SEND" => pc'["server"] \in Sent
  BY <1>1, ServerPosts
<1> HIDE DEF q
<1> QED BY <1>3, <1>4, <1>5

\* The adapters carry requests out in the order they were posted.
LEMMA AdapterOrder ==
  ASSUME GoAheadInv, Next, NEW s \in Side, Adapter(s)
  PROVE  SendIsLast' /\ NothingAfterSend'
<1> USE SideFacts
<1> DEFINE q == sq["server"]
<1>1. /\ TypeOK /\ sq \in [Side -> Seq(Wr)] /\ q \in Seq(Wr) /\ Len(q) \in Nat
      /\ carried \in [Operation -> Nat] /\ mem \in [Buffer -> Content] /\ QpTypeOK
  BY DEF GoAheadInv, TypeInv, TypeOK, QpTypeOK, BufferTypeOK
<1>2. pc["server"] \in Sent => pc'["server"] \in Sent
  BY SentStays DEF GoAheadInv, TypeInv
<1>3. ASSUME NEW k \in 1 .. Len(sq[s]), Transmit(s, k)
      PROVE  SendIsLast' /\ NothingAfterSend'
  <2>1. \/ sq' = [sq EXCEPT ![s][k].phase = "done"]
        \/ \E v \in Content : sq' = [sq EXCEPT ![s][k].phase = "fetched", ![s][k].val = v]
    <3>1. CASE /\ sq[s][k].op = "READ"
               /\ sq' = [sq EXCEPT ![s][k].phase = "fetched", ![s][k].val = mem[sq[s][k].buf]]
      <4>1. ~AccessRefused(s, sq[s][k]) /\ qp[Peer(s)] = "rts"
        BY <1>3 DEF Transmit, Undeliverable
      <4>2. sq[s][k].buf \in Buffer
        BY <1>1, <3>1, <4>1, SqEntryType DEF AccessRefused
      <4>3. mem[sq[s][k].buf] \in Content
        BY <1>1, <4>2
      <4> QED BY <3>1, <4>3
    <3> QED BY <1>3, <3>1 DEF Transmit
  <2>2. /\ Len(sq'[s]) = Len(sq[s])
        /\ \A j \in 1 .. Len(sq[s]) :
             /\ sq'[s][j].op = sq[s][j].op
             /\ sq'[s][j].phase = sq[s][j].phase \/ (j = k /\ sq'[s][j].phase # "posted")
        /\ sq'[s][k].phase # "posted"
        /\ \A x \in Side : x # s => sq'[x] = sq[x]
    BY <1>1, <2>1, RequestMoves
  <2>3. CASE s = "client"
    <3>1. sq'["server"] = sq["server"] /\ carried' = carried
      BY <1>3, <2>2, <2>3 DEF Transmit
    <3> QED BY <3>1, OrderKept
  <2>4. CASE s = "server"
    <3>1. carried' = [carried EXCEPT ![q[k].op] = @ + 1]
      BY <1>3, <2>4 DEF Transmit
    <3>2. /\ k \in 1 .. Len(q) /\ q[k].phase = "posted"
          /\ \A j \in 1 .. k - 1 : q[j].phase # "posted"
      BY <1>3, <2>4 DEF Transmit, MayGoOut
    <3>3. ~(carried["SEND"] > 0)
      BY <3>2 DEF GoAheadInv, NothingAfterSend
    <3>4. SendIsLast'
      BY <1>2, <2>2, <2>4 DEF GoAheadInv, SendIsLast
    <3>5. CASE q[k].op # "SEND"
      <4>1. carried'["SEND"] = carried["SEND"]
        BY <1>1, <3>1, <3>5 DEF Operation
      <4> QED BY <3>3, <3>4, <4>1 DEF NothingAfterSend
    <3>6. CASE q[k].op = "SEND"
      <4>1. k = Len(q) /\ pc["server"] \in Sent
        BY <3>2, <3>6 DEF GoAheadInv, SendIsLast
      <4>2. \A j \in 1 .. Len(q) : j = k \/ j \in 1 .. k - 1
        BY <1>1, <4>1
      <4>3. \A j \in 1 .. Len(q) : sq'["server"][j].phase # "posted"
        BY <2>2, <2>4, <3>2, <4>2
      <4> QED BY <1>2, <2>2, <2>4, <3>4, <4>1, <4>3 DEF NothingAfterSend
    <3> QED BY <3>5, <3>6
  <2> QED BY <2>3, <2>4
<1>4. ASSUME NEW k \in 1 .. Len(sq[s]), TransmitFails(s, k)
      PROVE  SendIsLast' /\ NothingAfterSend'
  <2>1. sq'["server"] = sq["server"] \/ sq'["server"] = <<>>
    BY <1>4 DEF TransmitFails, QpError
  <2>2. carried' = carried
    BY <1>4 DEF TransmitFails, bufferVars
  <2> QED BY <2>1, <2>2, OrderKept
<1>5. ASSUME NEW k \in 1 .. Len(sq[s]), ReadArrives(s, k)
      PROVE  SendIsLast' /\ NothingAfterSend'
  <2>1. sq' = [sq EXCEPT ![s][k].phase = "done"] /\ carried' = carried
    BY <1>5 DEF ReadArrives
  <2>2. /\ Len(sq'[s]) = Len(sq[s])
        /\ \A j \in 1 .. Len(sq[s]) :
             /\ sq'[s][j].op = sq[s][j].op
             /\ sq'[s][j].phase = sq[s][j].phase \/ (j = k /\ sq'[s][j].phase # "posted")
        /\ \A x \in Side : x # s => sq'[x] = sq[x]
    BY <1>1, <2>1, RequestMoves
  <2>3. CASE s = "client"
    BY <2>1, <2>2, <2>3, OrderKept
  <2>4. CASE s = "server"
    <3>1. SendIsLast'
      BY <1>2, <2>2, <2>4 DEF GoAheadInv, SendIsLast
    <3>2. NothingAfterSend'
      BY <1>2, <2>1, <2>2, <2>4 DEF GoAheadInv, NothingAfterSend
    <3> QED BY <3>1, <3>2
  <2> QED BY <2>3, <2>4
<1>6. CASE CompleteSend(s)
  <2>1. sq' = [sq EXCEPT ![s] = Tail(@)] /\ sq[s] # <<>> /\ carried' = carried
    BY <1>6 DEF CompleteSend, bufferVars
  <2>2. sq'["server"] = q \/ (q # <<>> /\ sq'["server"] = Tail(q))
    BY <1>1, <2>1
  <2> QED BY <2>1, <2>2, OrderKept
<1> QED BY <1>3, <1>4, <1>5, <1>6 DEF Adapter

\* The client's state says that the go-ahead came only after a message was polled.
LEMMA ClientLearns ==
  ASSUME TypeOK, Next, state'["client"] = RDMA_WRITE_ADV, state["client"] # RDMA_WRITE_ADV
  PROVE  Receipt(cqe["client"])
<1> USE SideFacts
<1>1. state \in [Side -> TestState] /\ cqe \in [Side -> Seq(Wc)]
  BY DEF TypeOK, ContextTypeOK, CqTypeOK
<1> USE DEF IDLE, CONNECT_REQUEST, ADDR_RESOLVED, ROUTE_RESOLVED, CONNECTED, RDMA_READ_ADV,
            RDMA_READ_COMPLETE, RDMA_WRITE_ADV, RDMA_WRITE_COMPLETE, ERROR
<1>2. CASE ClientMain \/ ServerMain
  <2>1. state' = state \/ SetState("client", RDMA_READ_ADV)
    BY <1>2, ClientContext, ServerContext
  <2> QED BY <1>1, <2>1 DEF SetState
<1>3. ASSUME NEW s \in Side, Callbacks(s)
      PROVE  Receipt(cqe["client"])
  <2>1. CASE CmaEvent(s)
    <3>1. \/ state' = state
          \/ \E new : state' = [state EXCEPT ![s] = new] /\ new # RDMA_WRITE_ADV
      BY <1>1, <2>1 DEF CmaEvent, AddrResolved, ConnectRequested, StateAndWake, StateOfEvent,
                        DeviceRemovalLogged, SetState
    <3> QED BY <1>1, <3>1
  <2>2. CASE CmaChild(s) \/ CmaWake(s) \/ CqEvent(s) \/ CqArm(s) \/ CqPollEmpty(s) \/ CqWake(s)
    BY <2>2 DEF CmaChild, CmaWake, CqEvent, CqArm, CqPollEmpty, CqWake, contextVars
  <2>3. CASE CqPoll(s)
    <3> DEFINE wc == Head(cqe[s])
    <3>1. /\ cqe[s] # <<>>
          /\ \/ state' = state
             \/ \E new : state' = [state EXCEPT ![s] = new] /\ new # RDMA_WRITE_ADV
             \/ wc.op = "RECV" /\ wc.status = "ok" /\ \E new : state' = [state EXCEPT ![s] = new]
      <4>1. CASE wc.status = "ok" /\ wc.op = "RECV" /\ recv(s, wc)
        <5>1. \E new : state' = [state EXCEPT ![s] = new]
          BY <4>1 DEF SetState, recv, server_recv, client_recv
        <5> QED BY <2>3, <4>1, <5>1 DEF CqPoll
      <4>2. CASE \/ UNCHANGED <<state, advert, cqh>>
                 \/ SetState(s, ERROR)
                 \/ SetState(s, IF wc.op = "READ" THEN RDMA_READ_COMPLETE ELSE RDMA_WRITE_COMPLETE)
        <5>1. ERROR # RDMA_WRITE_ADV /\ RDMA_READ_COMPLETE # RDMA_WRITE_ADV
              /\ RDMA_WRITE_COMPLETE # RDMA_WRITE_ADV
          OBVIOUS
        <5>2. state' = state \/ \E new : state' = [state EXCEPT ![s] = new] /\ new # RDMA_WRITE_ADV
          BY <4>2, <5>1 DEF SetState
        <5> QED BY <2>3, <5>2 DEF CqPoll
      <4> QED BY <2>3, <4>1, <4>2 DEF CqPoll
    <3>2. s = "client" /\ wc.op = "RECV" /\ wc.status = "ok"
      BY <1>1, <3>1
    <3> QED BY <1>1, <3>1, <3>2, Receipts
  <2>4. CASE CqRepost(s)
    BY <1>1, <2>4 DEF CqRepost, SetState
  <2> QED BY <1>3, <2>1, <2>2, <2>3, <2>4
          DEF Callbacks, megaVM_cma_event_handler, megaVM_cq_event_handler
<1>4. CASE \/ ConnectionEstablished \/ ConnectTimeout \/ UNCHANGED vars
           \/ \E s \in Side : Adapter(s) \/ StrayEvent(s) \/ Signal(s)
  BY <1>4, OtherContext DEF vars, contextVars
<1> QED BY <1>2, <1>3, <1>4 DEF Next, Progress, Fault, Over

\* What was carried out stays carried out.
LEMMA CarriedStays ==
  ASSUME TypeOK, Next
  PROVE  /\ carried["SEND"] > 0 => carried'["SEND"] > 0
         /\ \A k \in 1 .. Len(sq["server"]) :
              Transmit("server", k) /\ sq["server"][k].op = "SEND" => carried'["SEND"] > 0
<1>1. carried \in [Operation -> Nat] /\ QpTypeOK /\ "SEND" \in Operation
  BY DEF TypeOK, BufferTypeOK, Operation
<1>2. ASSUME NEW s \in Side, NEW k \in 1 .. Len(sq[s]), Transmit(s, k)
      PROVE  /\ carried["SEND"] > 0 => carried'["SEND"] > 0
             /\ s = "server" /\ sq[s][k].op = "SEND" => carried'["SEND"] > 0
  <2>1. sq[s][k].op \in Operation
    BY <1>1, SqEntryType
  <2>2. carried' = carried \/ carried' = [carried EXCEPT ![sq[s][k].op] = @ + 1]
    BY <1>2 DEF Transmit
  <2>3. s = "server" => carried' = [carried EXCEPT ![sq[s][k].op] = @ + 1]
    BY <1>2 DEF Transmit
  <2> QED BY <1>1, <2>1, <2>2, <2>3
<1>3. \/ \E s \in Side : \E k \in 1 .. Len(sq[s]) : Transmit(s, k)
      \/ carried' = carried
  <2>1. CASE ClientMain \/ ServerMain
    BY <2>1, ServerPosts
  <2>2. CASE \E s \in Side : Adapter(s)
    BY <2>2 DEF Adapter, TransmitFails, ReadArrives, CompleteSend, bufferVars
  <2>3. CASE \/ ConnectionEstablished \/ ConnectTimeout \/ UNCHANGED vars
             \/ \E s \in Side : Callbacks(s) \/ StrayEvent(s) \/ Signal(s)
    BY <2>3, SideFacts, OtherBuffer DEF vars, bufferVars
  <2> QED BY <2>1, <2>2, <2>3 DEF Next, Progress, Fault, Over
<1> QED BY <1>2, <1>3, SideFacts

\* GoAheadInv is inductive.
THEOREM GoAheadInvariance == Spec => []GoAheadInv
<1>1. Init => GoAheadInv
  <2> SUFFICES ASSUME Init PROVE GoAheadInv
    OBVIOUS
  <2>1. sq["server"] = <<>> /\ cqe["client"] = <<>> /\ state["client"] = IDLE
        /\ carried["SEND"] = 0
    BY SideFacts DEF Init, InitContext, Operation
  <2> QED BY <2>1, InitType, Receipts
          DEF GoAheadInv, SendIsLast, NothingAfterSend, HeardOfSend, IDLE, RDMA_WRITE_ADV
<1>2. GoAheadInv /\ [Next]_vars => GoAheadInv'
  <2> SUFFICES ASSUME GoAheadInv, [Next]_vars PROVE GoAheadInv'
    OBVIOUS
  <2>1. TypeInv'
    BY ThreadStep, ContextStep, BufferStep, CmStep, QueueStep, MisuseStep, StutterType
    DEF GoAheadInv, TypeInv, TypeOK
  <2>2. CASE Next
    <3>1. TypeOK
      BY DEF GoAheadInv, TypeInv
    <3>2. SendIsLast' /\ NothingAfterSend'
      <4>1. CASE ClientMain \/ ServerMain
        BY <2>2, <4>1, MainOrder
      <4>2. ASSUME NEW s \in Side, Adapter(s) PROVE SendIsLast' /\ NothingAfterSend'
        BY <2>2, <4>2, AdapterOrder
      <4>3. CASE \/ ConnectionEstablished \/ ConnectTimeout \/ UNCHANGED vars
                 \/ \E s \in Side : Callbacks(s) \/ StrayEvent(s) \/ Signal(s)
        <5>1. carried' = carried
          BY <4>3, SideFacts, OtherBuffer DEF vars, bufferVars
        <5>2. sq' = sq
          BY <4>3, OtherQueues
          DEF Callbacks, megaVM_cq_event_handler, CqEvent, CqArm, CqPollEmpty, CqPoll, CqRepost,
              CqWake, ConnectionEstablished, ConnectTimeout, vars, qpVars
        <5> QED BY <2>2, <5>1, <5>2, OrderKept
      <4> QED BY <2>2, <4>1, <4>2, <4>3 DEF Next, Progress, Fault, Over
    <3>3. HeardOfSend'
      <4>1. Receipt(cqe'["client"]) => Receipt(cqe["client"]) \/ carried'["SEND"] > 0
        BY <2>2, <3>1, ClientCompletions, CarriedStays
      <4>2. state'["client"] = RDMA_WRITE_ADV =>
              state["client"] = RDMA_WRITE_ADV \/ Receipt(cqe["client"])
        BY <2>2, <3>1, ClientLearns
      <4>3. carried["SEND"] > 0 => carried'["SEND"] > 0
        BY <2>2, <3>1, CarriedStays
      <4> QED BY <4>1, <4>2, <4>3 DEF GoAheadInv, HeardOfSend, Receipt, RDMA_WRITE_ADV
    <3> QED BY <2>1, <3>2, <3>3 DEF GoAheadInv
  <2>3. CASE UNCHANGED vars
    BY <2>1, <2>3
    DEF GoAheadInv, SendIsLast, NothingAfterSend, HeardOfSend, Receipt, vars, threadVars,
        contextVars, bufferVars, qpVars, cqVars
  <2> QED BY <2>2, <2>3
<1> QED BY <1>1, <1>2, PTL DEF Spec

\* When the client has learned of the go-ahead, every read and write of the server has
\* been carried out: whatever fails and however many rounds there are, the client gives
\* its buffer back only when nothing is on its way to it.
THEOREM GoAheadIsLast == Spec => []GoAheadFollowsData
<1>1. GoAheadInv => GoAheadFollowsData
  BY DEF GoAheadInv, HeardOfSend, NothingAfterSend, GoAheadFollowsData
<1> QED BY <1>1, GoAheadInvariance, PTL

-----------------------------------------------------------------------------
(* What a side hears.                                                      *)

Stray == {"DEVICE_REMOVAL", "TIMEWAIT_EXIT"}
Resolution == {"ADDR_RESOLVED", "ADDR_ERROR", "ROUTE_RESOLVED", "ROUTE_ERROR"}

\* The events of a connection that somebody answered, refused or ended.
Answer == {"ESTABLISHED", "CONNECT_ERROR", "UNREACHABLE", "REJECTED", "DISCONNECTED"}

\* The connection managers and both main threads change conn in this way, apart from
\* the request itself.
Answering == conn \in {"requested", "accepted", "established"} /\ conn' # conn

\* Everything that a step can do to the event queue of side s, and who does it.
Hearing(s) ==
  \/ cmq'[s] = cmq[s]
  \/ /\ cmq'[s] = <<>>
     /\ \/ s = "client" /\ ClientDestroyId
        \/ s = "server" /\ (ServerDestroyChild \/ ServerDestroyListener)
  \/ \E event \in Stray :
       cmq'[s] = Append(cmq[s], event) /\ HasConnectionId(s) /\ UNCHANGED <<pc, conn>>
  \/ \E event \in Answer :
       /\ cmq'[s] = Append(cmq[s], event) /\ HasConnectionId(s) /\ Answering
       /\ event = "ESTABLISHED" => ConnectionEstablished
  \/ /\ s = "client" /\ ClientBind
     /\ \E event \in {"ADDR_RESOLVED", "ADDR_ERROR"} : cmq'[s] = Append(cmq[s], event)
  \/ s = "client" /\ ClientConnect /\ ~Listening /\ cmq'[s] = Append(cmq[s], "REJECTED")
  \/ s = "server" /\ ClientConnect /\ Listening /\ cmq'[s] = Append(cmq[s], "CONNECT_REQUEST")
  \/ CmaEvent(s) /\ cmq'[s] = Tail(cmq[s])
  \/ /\ CmaEvent(s) /\ Head(cmq[s]) = "ADDR_RESOLVED"
     /\ \E event \in {"ROUTE_RESOLVED", "ROUTE_ERROR"} : cmq'[s] = Append(Tail(cmq[s]), event)

\* Nothing is heard, or one event is.
LEMMA HeardOne ==
  ASSUME TypeOK, NEW s \in Side
  PROVE  /\ Heard(s, <<>>) = cmq[s]
         /\ \A event : \/ Heard(s, <<event>>) = cmq[s]
                       \/ Heard(s, <<event>>) = Append(cmq[s], event) /\ HasConnectionId(s)
<1>1. cmq[s] \in Seq(CmEvent)
  BY DEF TypeOK, CmTypeOK
<1>2. cmq[s] \o <<>> = cmq[s]
  BY <1>1
<1>3. \A event : cmq[s] \o <<event>> = Append(cmq[s], event)
  BY <1>1
<1> QED BY <1>2, <1>3 DEF Heard

\* The main threads.
LEMMA MainHears ==
  ASSUME TypeInv, ClientMain \/ ServerMain, NEW s \in Side
  PROVE  Hearing(s)
<1> USE SideFacts
<1>1. TypeOK /\ cmq \in [Side -> Seq(CmEvent)]
  BY DEF TypeInv, TypeOK, CmTypeOK
<1>2. CASE cmq' = cmq
  BY <1>2 DEF Hearing
<1>3. CASE ClientBind
  <2>1. \/ cmq' = cmq
        \/ \E event \in {"ADDR_RESOLVED", "ADDR_ERROR"} :
             cmq' = [cmq EXCEPT !["client"] = Append(@, event)]
    BY <1>3 DEF ClientBind
  <2> QED BY <1>1, <1>3, <2>1 DEF Hearing
<1>4. CASE ClientConnect
  <2>1. \/ cmq' = cmq
        \/ Listening /\ cmq' = [cmq EXCEPT !["server"] = Append(@, "CONNECT_REQUEST")]
        \/ ~Listening /\ cmq' = [cmq EXCEPT !["client"] = Append(@, "REJECTED")]
    BY <1>4 DEF ClientConnect, ConnectRequest
  <2> QED BY <1>1, <1>4, <2>1 DEF Hearing
<1>5. ASSUME NEW x \in Side, Disconnect(x)
      PROVE  Hearing(s)
  <2>1. CASE conn = "established"
    <3>1. conn' = "closed" /\ cmq' = [y \in Side |-> Heard(y, <<"DISCONNECTED">>)]
      BY <1>5, <2>1 DEF Disconnect, DisconnectConnection
    <3>2. cmq'[s] = Heard(s, <<"DISCONNECTED">>)
      BY <3>1
    <3>3. \/ Heard(s, <<"DISCONNECTED">>) = cmq[s]
          \/ Heard(s, <<"DISCONNECTED">>) = Append(cmq[s], "DISCONNECTED") /\ HasConnectionId(s)
      BY <1>1, HeardOne
    <3> QED BY <2>1, <3>1, <3>2, <3>3 DEF Hearing, Answering, Answer
  <2>2. CASE conn # "established"
    BY <1>5, <2>2 DEF Disconnect, DisconnectConnection, Hearing
  <2> QED BY <2>1, <2>2
<1>6. ASSUME NEW x \in Side, DestroyConnectionId(x),
             \/ x = "client" /\ ClientDestroyId
             \/ x = "server" /\ ServerDestroyChild
      PROVE  Hearing(s)
  <2>1. CASE s = x
    <3>1. cmq'[x] = <<>>
      BY <1>1, <1>6 DEF DestroyConnectionId
    <3> QED BY <1>6, <2>1, <3>1 DEF Hearing
  <2>2. CASE s # x
    <3>1. s = Peer(x)
      BY <2>2 DEF Peer
    <3>2. \/ conn = "established" /\ conn' = "closed" /\ cmq'[s] = Heard(s, <<"DISCONNECTED">>)
          \/ /\ conn \in {"requested", "accepted"} /\ conn' = "closed"
             /\ cmq'[s] = Heard(s, <<"REJECTED">>)
          \/ cmq'[s] = Heard(s, <<>>)
      BY <1>1, <1>6, <3>1 DEF DestroyConnectionId
    <3>3. \/ cmq'[s] = cmq[s]
          \/ \E event \in {"DISCONNECTED", "REJECTED"} :
               cmq'[s] = Append(cmq[s], event) /\ HasConnectionId(s) /\ Answering
      BY <1>1, <3>2, HeardOne DEF Answering
    <3> QED BY <3>3 DEF Hearing, Answer
  <2> QED BY <2>1, <2>2
<1>7. CASE ServerAccept
  <2>1. \/ cmq' = cmq
        \/ /\ conn = "requested" /\ conn' = "closed"
           /\ cmq' = [cmq EXCEPT !["client"] = Heard("client", <<"REJECTED">>)]
    <3>1. cmq = [cmq EXCEPT !["client"] = @]
      BY <1>1
    <3> QED BY <1>7, <3>1 DEF ServerAccept
  <2>2. \/ cmq'[s] = cmq[s]
        \/ cmq'[s] = Append(cmq[s], "REJECTED") /\ HasConnectionId(s) /\ Answering
    BY <1>1, <2>1, HeardOne DEF Answering
  <2> QED BY <2>2 DEF Hearing, Answer
<1>8. CASE ServerDestroyListener
  <2>1. CASE s = "server"
    <3>1. cmq'[s] = cmq[s] \/ cmq'[s] = <<>>
      BY <1>1, <1>8, <2>1 DEF ServerDestroyListener
    <3> QED BY <1>8, <2>1, <3>1 DEF Hearing
  <2>2. CASE s = "client"
    <3>1. \/ cmq'[s] = cmq[s]
          \/ conn = "requested" /\ conn' = "closed" /\ cmq'[s] = Heard(s, <<"REJECTED">>)
      BY <1>1, <1>8, <2>2 DEF ServerDestroyListener
    <3>2. \/ cmq'[s] = cmq[s]
          \/ cmq'[s] = Append(cmq[s], "REJECTED") /\ HasConnectionId(s) /\ Answering
      BY <1>1, <3>1, HeardOne DEF Answering
    <3> QED BY <3>2 DEF Hearing, Answer
  <2> QED BY <2>1, <2>2
<1>9. \/ ClientBind \/ ClientConnect \/ ClientDestroyId \/ ServerAccept
      \/ ServerDestroyChild \/ ServerDestroyListener \/ \E x \in Side : Disconnect(x)
      \/ UNCHANGED cmq
  <2>1. CASE ClientMain
    BY <2>1
    DEF ClientMain, ClientStart, ClientBindWait, ClientBindCheck, ClientSetupQp,
        SetupBuffers, PostFirstRecv, ClientConnectWait, ClientConnectCheck,
        ClientAdvertise, ClientSend, ClientGoAheadWait, FreeBuffers, FreeQp, FreeCq, WaitEvent,
        cmVars
  <2>2. CASE ServerMain
    BY <2>2
    DEF ServerMain, ServerStart, ServerBind, ServerRequestWait, ServerRequestCheck,
        ServerSetupQp, SetupBuffers, PostFirstRecv, ServerAcceptWait, ServerAcceptCheck,
        ServerPingWait, ServerRead, ServerReadWait, ServerWrite, ServerWriteWait,
        ServerNextRound, ServerGoAhead, FreeBuffers, FreeQp, FreeCq, WaitEvent, cmVars
  <2> QED BY <2>1, <2>2
<1> QED BY <1>2, <1>3, <1>4, <1>5, <1>6, <1>7, <1>8, <1>9
        DEF ClientDestroyId, ServerDestroyChild

\* Whatever step is taken.
LEMMA Hears ==
  ASSUME TypeInv, Next, NEW s \in Side
  PROVE  Hearing(s)
<1> USE SideFacts
<1>1. TypeOK /\ cmq \in [Side -> Seq(CmEvent)]
  BY DEF TypeInv, TypeOK, CmTypeOK
<1>2. ASSUME NEW x \in Side, megaVM_cma_event_handler(x)
      PROVE  Hearing(s)
  <2>1. CASE CmaChild(x) \/ CmaWake(x)
    BY <2>1 DEF CmaChild, CmaWake, Hearing
  <2>3. CASE x # s /\ CmaEvent(x)
    <3>1. \E events : cmq' = [cmq EXCEPT ![x] = events]
      BY <2>3
      DEF CmaEvent, AddrResolved, ConnectRequested, StateAndWake, DeviceRemovalLogged
    <3> QED BY <1>1, <2>3, <3>1 DEF Hearing
  <2>2. CASE x = s /\ CmaEvent(x)
    <3>1. \/ cmq' = [cmq EXCEPT ![s] = Tail(@)]
          \/ /\ Head(cmq[s]) = "ADDR_RESOLVED"
             /\ \E event \in {"ROUTE_RESOLVED", "ROUTE_ERROR"} :
                  cmq' = [cmq EXCEPT ![s] = Append(Tail(@), event)]
      BY <2>2 DEF CmaEvent, AddrResolved, ConnectRequested, StateAndWake, DeviceRemovalLogged
    <3>2. \/ cmq'[s] = Tail(cmq[s])
          \/ /\ Head(cmq[s]) = "ADDR_RESOLVED"
             /\ \E event \in {"ROUTE_RESOLVED", "ROUTE_ERROR"} :
                  cmq'[s] = Append(Tail(cmq[s]), event)
      BY <1>1, <3>1
    <3> QED BY <2>2, <3>2 DEF Hearing
  <2> QED BY <1>2, <2>1, <2>2, <2>3 DEF megaVM_cma_event_handler
<1>3. CASE ConnectionEstablished \/ ConnectTimeout
  <2>1. Answering
    BY <1>3 DEF ConnectionEstablished, ConnectTimeout, Answering
  <2>2. \E event \in Answer : /\ cmq'[s] = Heard(s, <<event>>)
                              /\ event = "ESTABLISHED" => ConnectionEstablished
    <3>1. CASE ConnectionEstablished
      BY <1>1, <3>1 DEF ConnectionEstablished, Answer, Side
    <3>2. CASE ConnectTimeout
      BY <1>1, <3>2 DEF ConnectTimeout, Answer, Side
    <3> QED BY <1>3, <3>1, <3>2
  <2>3. \E event \in Answer :
          /\ \/ cmq'[s] = cmq[s]
             \/ cmq'[s] = Append(cmq[s], event) /\ HasConnectionId(s)
          /\ event = "ESTABLISHED" => ConnectionEstablished
    BY <1>1, <2>2, HeardOne
  <2> QED BY <2>1, <2>3 DEF Hearing
<1>4. ASSUME NEW x \in Side, StrayEvent(x)
      PROVE  Hearing(s)
  <2>1. CASE x = s
    <3>1. PICK event \in Stray : cmq'[s] = <<event>>
      BY <1>1, <1>4, <2>1 DEF StrayEvent, Stray
    <3>2. Append(cmq[s], event) = <<event>>
      BY <1>1, <1>4, <2>1 DEF StrayEvent
    <3> QED BY <1>4, <2>1, <3>1, <3>2 DEF StrayEvent, Hearing, threadVars
  <2>2. CASE x # s
    BY <1>1, <1>4, <2>2 DEF StrayEvent, Hearing
  <2> QED BY <2>1, <2>2
<1>5. CASE \/ UNCHANGED vars
           \/ \E x \in Side : megaVM_cq_event_handler(x) \/ Adapter(x) \/ Signal(x)
  BY <1>5, OtherCm DEF Hearing, cmVars, vars
<1> QED BY <1>2, <1>3, <1>4, <1>5, MainHears DEF Next, Progress, Fault, Over, Callbacks

-----------------------------------------------------------------------------
(* What is left behind, whatever fails.                                    *)

\* What a main thread may hold at a label, on every path that leads there: each err
\* label of the two programs gives back exactly what was taken since the label below.
Bound(label) ==
  IF label \in {"start", "done"} THEN {}
  ELSE IF label \in {"bind", "bind_wait", "bind_check", "request_wait", "request_check",
                     "setup_qp", "destroy_child", "destroy_listener", "destroy_id"}
  THEN {"context", "cm_id"}
  ELSE IF label \in {"setup_buffers", "free_qp"} THEN {"context", "cm_id", "pd", "cq", "qp"}
  ELSE IF label = "free_cq" THEN {"context", "cm_id", "pd", "cq"}
  ELSE Resource

\* The bail label of setup_buffers unmaps nothing.
Unmapped(s) == IF <<s, "setup">> \in Faults THEN Mapping ELSE {}

\* child_cm_id comes with a connection request, at any label.
Accounted(s) == held[s] \subseteq Bound(pc[s]) \cup {"child"} \cup Unmapped(s)

\* What Bound says of the labels.
LEMMA Bounds ==
  /\ \A label : Bound(label) \subseteq Resource
  /\ \A label \in {"start", "done"} : Bound(label) = {}
  /\ \A label \in {"bind", "bind_wait", "bind_check", "request_wait", "request_check",
                   "setup_qp", "destroy_child", "destroy_listener", "destroy_id"} :
       Bound(label) = {"context", "cm_id"}
  /\ \A label \in {"setup_buffers", "free_qp"} :
       Bound(label) = {"context", "cm_id", "pd", "cq", "qp"}
  /\ Bound("free_cq") = {"context", "cm_id", "pd", "cq"}
  /\ \A label \in {"post_recv", "connect", "connect_wait", "connect_check", "advertise", "send",
                   "goahead_wait", "accept", "accept_wait", "accept_check", "ping_wait",
                   "read", "read_wait", "write", "write_wait", "next_round", "go_ahead",
                   "disconnect", "free_buffers", "oops"} :
       Bound(label) = Resource
BY DEF Bound, Resource, VerbsObject

\* Main thread m goes to a label and takes or gives back the difference to what it may
\* hold there.
Keeps(m, label) ==
  /\ pc' = [pc EXCEPT ![m] = label]
  /\ UNCHANGED held
  /\ Bound(pc[m]) \subseteq Bound(label)

Takes(m, label, what) ==
  /\ pc' = [pc EXCEPT ![m] = label]
  /\ Holding(m, what) /\ "child" \notin what
  /\ Bound(pc[m]) \cup what \subseteq Bound(label) \cup Unmapped(m)

Returns(m, label, what) ==
  /\ pc' = [pc EXCEPT ![m] = label]
  /\ Released(m, what)
  /\ Bound(pc[m]) \subseteq Bound(label) \cup what \cup {"child"}

Accounts(m) ==
  \/ UNCHANGED <<pc, held>>
  \/ \E label : \/ Keeps(m, label)
                \/ \E what : Takes(m, label, what) \/ Returns(m, label, what)

\* The steps of the err labels and of the setup that both programs have.
LEMMA SharedAccounts ==
  ASSUME NEW m \in Side, NEW next,
         \/ SetupBuffers(m) \/ FreeBuffers(m) \/ FreeQp(m) \/ Disconnect(m)
         \/ PostFirstRecv(m, next) /\ next \in {"connect", "accept"}
         \/ FreeCq(m, next) /\ next \in {"destroy_id", "destroy_child"}
  PROVE  Accounts(m)
<1> USE Bounds
<1>1. CASE SetupBuffers(m)
  <2>1. BufferResources(m) \subseteq Resource /\ "child" \notin BufferResources(m)
    BY DEF BufferResources, Resource, Mapping, Memory, VerbsObject
  <2>2. \A left \in LeftByBail(m) : left \subseteq Mapping /\ "child" \notin left
    BY DEF LeftByBail, Mapping
  <2>3. Bound(pc[m]) = {"context", "cm_id", "pd", "cq", "qp"}
    BY <1>1 DEF SetupBuffers
  <2>4. CASE Holding(m, BufferResources(m)) /\ Goto(m, "post_recv")
    <3>1. Takes(m, "post_recv", BufferResources(m))
      BY <2>1, <2>4 DEF Takes, Goto
    <3> QED BY <3>1 DEF Accounts
  <2>5. CASE /\ <<m, "setup">> \in Faults
             /\ \E left \in LeftByBail(m) : Holding(m, left)
             /\ Goto(m, "free_qp")
    <3>1. PICK left \in LeftByBail(m) : Holding(m, left)
      BY <2>5
    <3>2. Takes(m, "free_qp", left)
      BY <2>2, <2>3, <2>5, <3>1 DEF Takes, Goto, Unmapped
    <3> QED BY <3>2 DEF Accounts
  <2>6. CASE Holding(m, BufferResources(m) \ {"dma_mr"}) /\ Goto(m, "oops")
    <3>1. Takes(m, "oops", BufferResources(m) \ {"dma_mr"})
      BY <2>1, <2>6 DEF Takes, Goto
    <3> QED BY <3>1 DEF Accounts
  <2> QED BY <1>1, <2>4, <2>5, <2>6 DEF SetupBuffers
<1>2. CASE FreeBuffers(m)
  <2>1. Returns(m, "free_qp", {"dma_mr"} \cup Mapping \cup Memory)
    BY <1>2 DEF FreeBuffers, Returns, Goto, Resource, VerbsObject, Mapping, Memory
  <2> QED BY <2>1 DEF Accounts
<1>3. CASE FreeQp(m)
  <2>1. Returns(m, "free_cq", {"qp"})
    BY <1>3 DEF FreeQp, Returns, Goto
  <2> QED BY <2>1 DEF Accounts
<1>4. CASE FreeCq(m, next) /\ next \in {"destroy_id", "destroy_child"}
  <2>1. Returns(m, next, {"cq", "pd"})
    BY <1>4 DEF FreeCq, Returns, Goto
  <2> QED BY <2>1 DEF Accounts
<1>5. CASE Disconnect(m)
  <2>1. Keeps(m, "free_buffers")
    BY <1>5 DEF Disconnect, Keeps, Goto, contextVars
  <2> QED BY <2>1 DEF Accounts
<1>6. CASE PostFirstRecv(m, next) /\ next \in {"connect", "accept"}
  <2>1. Keeps(m, next) \/ Keeps(m, "free_buffers")
    BY <1>6 DEF PostFirstRecv, Keeps, Goto, contextVars
  <2> QED BY <2>1 DEF Accounts
<1> QED BY <1>1, <1>2, <1>3, <1>4, <1>5, <1>6

\* The waits, from a label to one where no less may be held.
LEMMA WaitAccounts ==
  ASSUME NEW m \in Side, NEW from, NEW next, WaitEvent(m, from, next),
         Bound(from) \subseteq Bound(next)
  PROVE  Accounts(m)
BY DEF WaitEvent, Accounts, Keeps, Goto, contextVars

\* The client's main thread.
LEMMA ClientAccounts ==
  ASSUME ClientMain
  PROVE  Accounts("client")
<1> USE SideFacts, Bounds
<1>1. CASE ClientStart
  <2>1. \/ Takes("client", "bind", {"context", "cm_id"})
        \/ Keeps("client", "done")
        \/ Takes("client", "oops", {"context"})
    BY <1>1 DEF ClientStart, Takes, Keeps, Goto, Resource
  <2> QED BY <2>1 DEF Accounts
<1>2. CASE ClientBind
  <2>1. Keeps("client", "bind_wait") \/ Keeps("client", "destroy_id")
    BY <1>2 DEF ClientBind, Keeps, Goto, contextVars
  <2> QED BY <2>1 DEF Accounts
<1>3. CASE ClientBindCheck
  <2>1. Keeps("client", "setup_qp") \/ Keeps("client", "destroy_id")
    BY <1>3 DEF ClientBindCheck, Keeps, Goto, contextVars
  <2> QED BY <2>1 DEF Accounts
<1>4. CASE ClientSetupQp
  <2>1. Takes("client", "setup_buffers", {"pd", "cq", "qp"}) \/ Keeps("client", "destroy_id")
    BY <1>4 DEF ClientSetupQp, QpSetUp, Takes, Keeps, Goto
  <2> QED BY <2>1 DEF Accounts
<1>5. CASE ClientConnect
  <2>1. Keeps("client", "connect_wait") \/ Keeps("client", "free_buffers")
    BY <1>5 DEF ClientConnect, Keeps, Goto, contextVars
  <2> QED BY <2>1 DEF Accounts
<1>6. CASE ClientConnectCheck
  <2>1. Keeps("client", "advertise") \/ Keeps("client", "free_buffers")
    BY <1>6 DEF ClientConnectCheck, Keeps, Goto, contextVars
  <2> QED BY <2>1 DEF Accounts
<1>7. CASE ClientAdvertise \/ ClientSend
  <2>1. Keeps("client", "send") \/ Keeps("client", "goahead_wait")
    BY <1>7 DEF ClientAdvertise, ClientSend, Keeps, Goto, contextVars
  <2> QED BY <2>1 DEF Accounts
<1>8. CASE ClientBindWait \/ ClientConnectWait \/ ClientGoAheadWait
  BY <1>8, WaitAccounts DEF ClientBindWait, ClientConnectWait, ClientGoAheadWait
<1>9. CASE ClientDestroyId
  <2>1. Returns("client", "done", {"cm_id", "context"})
    BY <1>9 DEF ClientDestroyId, Returns, Goto
  <2> QED BY <2>1 DEF Accounts
<1> QED BY <1>1, <1>2, <1>3, <1>4, <1>5, <1>6, <1>7, <1>8, <1>9, SharedAccounts
        DEF ClientMain

\* The server's main thread.
LEMMA ServerAccounts ==
  ASSUME ServerMain
  PROVE  Accounts("server")
<1> USE SideFacts, Bounds
<1>1. CASE ServerStart
  <2>1. \/ Takes("server", "bind", {"context", "cm_id"})
        \/ Keeps("server", "done")
        \/ Takes("server", "oops", {"context"})
    BY <1>1 DEF ServerStart, Takes, Keeps, Goto, Resource
  <2> QED BY <2>1 DEF Accounts
<1>2. CASE ServerBind
  <2>1. Keeps("server", "request_wait") \/ Keeps("server", "destroy_listener")
    BY <1>2 DEF ServerBind, Keeps, Goto, contextVars
  <2> QED BY <2>1 DEF Accounts
<1>3. CASE ServerRequestCheck
  <2>1. Keeps("server", "setup_qp") \/ Keeps("server", "destroy_listener")
    BY <1>3 DEF ServerRequestCheck, Keeps, Goto, contextVars
  <2> QED BY <2>1 DEF Accounts
<1>4. CASE ServerSetupQp
  <2>1. \/ Takes("server", "setup_buffers", {"pd", "cq", "qp"})
        \/ Keeps("server", "destroy_child") \/ Keeps("server", "oops")
        \/ \E left \in {"pd", "cq"} : Takes("server", "oops", {left})
    BY <1>4 DEF ServerSetupQp, QpSetUp, Takes, Keeps, Goto, Resource, VerbsObject
  <2> QED BY <2>1 DEF Accounts
<1>5. CASE ServerAccept
  <2>1. Keeps("server", "accept_wait") \/ Keeps("server", "free_buffers")
    BY <1>5 DEF ServerAccept, Keeps, Goto, contextVars
  <2> QED BY <2>1 DEF Accounts
<1>6. CASE ServerAcceptCheck
  <2>1. Keeps("server", "ping_wait") \/ Keeps("server", "free_buffers")
    BY <1>6 DEF ServerAcceptCheck, Keeps, Goto, contextVars
  <2> QED BY <2>1 DEF Accounts
<1>7. CASE ServerRead \/ ServerWrite \/ ServerGoAhead
  <2>1. \E label \in {"read_wait", "write_wait", "disconnect"} : Keeps("server", label)
    BY <1>7 DEF ServerRead, ServerWrite, ServerGoAhead, Keeps, Goto, contextVars
  <2> QED BY <2>1 DEF Accounts
<1>8. CASE ServerNextRound
  <2>1. Keeps("server", "read") \/ Keeps("server", "go_ahead")
    BY <1>8 DEF ServerNextRound, Keeps, Goto, contextVars
  <2> QED BY <2>1 DEF Accounts
<1>9. CASE \/ ServerRequestWait \/ ServerAcceptWait \/ ServerPingWait
           \/ ServerReadWait \/ ServerWriteWait
  BY <1>9, WaitAccounts
  DEF ServerRequestWait, ServerAcceptWait, ServerPingWait, ServerReadWait, ServerWriteWait
<1>10. CASE ServerDestroyChild
  <2>1. Returns("server", "destroy_listener", {"child"})
    BY <1>10 DEF ServerDestroyChild, Returns, Goto
  <2> QED BY <2>1 DEF Accounts
<1>11. CASE ServerDestroyListener
  <2>1. Returns("server", "done", {"cm_id", "context"})
    BY <1>11 DEF ServerDestroyListener, Returns, Goto
  <2> QED BY <2>1 DEF Accounts
<1> QED BY <1>1, <1>2, <1>3, <1>4, <1>5, <1>6, <1>7, <1>8, <1>9, <1>10, <1>11,
           SharedAccounts
        DEF ServerMain

\* Beside the main threads only a connection request adds to what is held.
LEMMA OthersHold ==
  ASSUME NEW s \in Side,
         \/ Callbacks(s) \/ Adapter(s) \/ ConnectionEstablished \/ ConnectTimeout
         \/ StrayEvent(s) \/ Signal(s) \/ UNCHANGED vars
  PROVE  /\ pc' = pc
         /\ \/ held' = held
            \/ ConnectRequested(s) /\ CmaEvent(s) /\ held' = [held EXCEPT ![s] = @ \cup {"child"}]
<1>1. pc' = pc
  BY OtherThread DEF Signal, vars, threadVars
<1>2. CASE CmaEvent(s)
  BY <1>1, <1>2 DEF CmaEvent, AddrResolved, ConnectRequested, StateAndWake, DeviceRemovalLogged
<1>3. CASE \/ CmaChild(s) \/ CmaWake(s) \/ megaVM_cq_event_handler(s) \/ Adapter(s)
           \/ ConnectionEstablished \/ ConnectTimeout
           \/ StrayEvent(s) \/ Signal(s) \/ UNCHANGED vars
  BY <1>1, <1>3
  DEF CmaChild, CmaWake, megaVM_cq_event_handler, CqEvent, CqArm, CqPollEmpty, CqPoll, CqRepost,
      CqWake, Adapter, Transmit, TransmitFails, ReadArrives, CompleteSend,
      ConnectionEstablished, ConnectTimeout, StrayEvent, Signal, vars, contextVars
<1> QED BY <1>1, <1>2, <1>3 DEF Callbacks, megaVM_cma_event_handler

\* Whatever step is taken, both sides account for what they hold.
LEMMA AccountedStep ==
  ASSUME TypeInv, Next, NEW s \in Side, Accounted(s)
  PROVE  Accounted(s)'
<1> USE SideFacts
<1>1. pc \in [Side -> ClientLabel \cup ServerLabel] /\ held \in [Side -> SUBSET Resource]
  BY DEF TypeInv, TypeOK, ThreadTypeOK, ContextTypeOK
<1>2. ASSUME NEW m \in Side, Accounts(m)
      PROVE  Accounted(s)'
  <2>1. CASE UNCHANGED <<pc, held>>
    BY <2>1 DEF Accounted, Unmapped
  <2>2. ASSUME NEW label, Keeps(m, label)
        PROVE  Accounted(s)'
    BY <1>1, <2>2 DEF Accounted, Keeps, Unmapped
  <2>3. ASSUME NEW label, NEW what, Takes(m, label, what)
        PROVE  Accounted(s)'
    BY <1>1, <2>3 DEF Accounted, Takes, Holding, Unmapped
  <2>4. ASSUME NEW label, NEW what, Returns(m, label, what)
        PROVE  Accounted(s)'
    BY <1>1, <2>4 DEF Accounted, Returns, Released, Unmapped
  <2> QED BY <1>2, <2>1, <2>2, <2>3, <2>4 DEF Accounts
<1>3. CASE ClientMain \/ ServerMain
  BY <1>2, <1>3, ClientAccounts, ServerAccounts
<1>4. ASSUME pc' = pc,
             held' = held \/ \E x \in Side : held' = [held EXCEPT ![x] = @ \cup {"child"}]
      PROVE  Accounted(s)'
  BY <1>1, <1>4 DEF Accounted, Unmapped
<1> QED BY <1>3, <1>4, OthersHold DEF Next, Progress, Fault, Over

-----------------------------------------------------------------------------
(* One request, and one id that comes with it.                             *)

\* A queue of events with one of E in it, and with no more than one.
Has(q, E) == \E i \in 1 .. Len(q) : q[i] \in E
Once(q, E) == \A i, j \in 1 .. Len(q) : q[i] \in E /\ q[j] \in E => i = j

Asked(q) == Has(q, {"CONNECT_REQUEST"})
AskedOnce(q) == Once(q, {"CONNECT_REQUEST"})

\* How the events in a queue follow its changes.
LEMMA HasMoves ==
  ASSUME NEW q \in Seq(CmEvent), NEW E
  PROVE  /\ ~Has(<<>>, E) /\ Once(<<>>, E)
         /\ \A event \in CmEvent :
              /\ event \notin E => /\ Has(Append(q, event), E) => Has(q, E)
                                   /\ Once(q, E) => Once(Append(q, event), E)
              /\ ~Has(q, E) => Once(Append(q, event), E)
         /\ q # <<>> => /\ Has(Tail(q), E) => Has(q, E)
                        /\ Once(q, E) => Once(Tail(q), E)
                        /\ Head(q) \in E => Has(q, E)
                        /\ Once(q, E) /\ Head(q) \in E => ~Has(Tail(q), E)
<1>1. ~Has(<<>>, E) /\ Once(<<>>, E)
  BY DEF Has, Once
<1>2. ASSUME NEW event \in CmEvent
      PROVE  /\ Len(Append(q, event)) = Len(q) + 1
             /\ \A i \in 1 .. Len(q) : Append(q, event)[i] = q[i]
             /\ Append(q, event)[Len(q) + 1] = event
  OBVIOUS
<1>3. ASSUME NEW event \in CmEvent
      PROVE  /\ event \notin E => /\ Has(Append(q, event), E) => Has(q, E)
                                  /\ Once(q, E) => Once(Append(q, event), E)
             /\ ~Has(q, E) => Once(Append(q, event), E)
  <2>1. ASSUME event \notin E, NEW i \in 1 .. Len(Append(q, event)), Append(q, event)[i] \in E
        PROVE  i \in 1 .. Len(q) /\ q[i] \in E
    BY <1>2, <2>1
  <2>2. ASSUME ~Has(q, E), NEW i \in 1 .. Len(Append(q, event)), Append(q, event)[i] \in E
        PROVE  i = Len(q) + 1
    BY <1>2, <2>2 DEF Has
  <2>3. event \notin E => (Has(Append(q, event), E) => Has(q, E))
    BY <2>1 DEF Has
  <2>4. event \notin E => (Once(q, E) => Once(Append(q, event), E))
    BY <2>1 DEF Once
  <2>5. ~Has(q, E) => Once(Append(q, event), E)
    BY <2>2 DEF Once
  <2> QED BY <2>3, <2>4, <2>5
<1>4. ASSUME q # <<>>
      PROVE  /\ Has(Tail(q), E) => Has(q, E)
             /\ Once(q, E) => Once(Tail(q), E)
             /\ Head(q) \in E => Has(q, E)
             /\ Once(q, E) /\ Head(q) \in E => ~Has(Tail(q), E)
  <2>1. /\ Len(Tail(q)) = Len(q) - 1 /\ Head(q) = q[1] /\ Len(q) \in Nat /\ Len(q) > 0
        /\ \A i \in 1 .. Len(Tail(q)) : Tail(q)[i] = q[i + 1] /\ i + 1 \in 1 .. Len(q) /\ i \in Nat
    BY <1>4
  <2>2. Has(Tail(q), E) => Has(q, E)
    BY <2>1 DEF Has
  <2>3. Once(q, E) => Once(Tail(q), E)
    <3> SUFFICES ASSUME Once(q, E), NEW i \in 1 .. Len(Tail(q)), NEW j \in 1 .. Len(Tail(q)),
                        Tail(q)[i] \in E, Tail(q)[j] \in E
                 PROVE  i = j
      BY DEF Once
    <3>1. i + 1 = j + 1
      BY <2>1 DEF Once
    <3> QED BY <2>1, <3>1
  <2>4. Head(q) \in E => Has(q, E)
    BY <2>1 DEF Has
  <2>5. Once(q, E) /\ Head(q) \in E => ~Has(Tail(q), E)
    <3> SUFFICES ASSUME Once(q, E), Head(q) \in E, NEW i \in 1 .. Len(Tail(q)), Tail(q)[i] \in E
                 PROVE  FALSE
      BY DEF Has
    <3>1. i + 1 = 1
      BY <2>1 DEF Once
    <3> QED BY <2>1, <3>1
  <2> QED BY <2>2, <2>3, <2>4, <2>5
<1> QED BY <1>1, <1>3, <1>4

\* The same of connection requests.
LEMMA AskedMoves ==
  ASSUME NEW q \in Seq(CmEvent)
  PROVE  /\ ~Asked(<<>>) /\ AskedOnce(<<>>)
         /\ \A event \in CmEvent \ {"CONNECT_REQUEST"} :
              /\ Asked(Append(q, event)) => Asked(q)
              /\ AskedOnce(q) => AskedOnce(Append(q, event))
         /\ ~Asked(q) => AskedOnce(Append(q, "CONNECT_REQUEST"))
         /\ q # <<>> =>
              /\ Asked(Tail(q)) => Asked(q)
              /\ AskedOnce(q) => AskedOnce(Tail(q))
              /\ Head(q) = "CONNECT_REQUEST" => Asked(q)
              /\ AskedOnce(q) /\ Head(q) = "CONNECT_REQUEST" => ~Asked(Tail(q))
<1>1. "CONNECT_REQUEST" \in CmEvent
  BY DEF CmEvent
<1> QED BY <1>1, HasMoves DEF Asked, AskedOnce

PreConnect == {"start", "bind", "bind_wait", "bind_check", "setup_qp", "setup_buffers",
               "post_recv", "connect"}
PreQp == {"start", "bind", "request_wait", "request_check", "setup_qp"}

\* Where the server's main thread works with child_cm_id.
WithChild == {"setup_buffers", "post_recv", "accept", "accept_wait", "accept_check", "ping_wait",
              "read", "read_wait", "write", "write_wait", "next_round", "go_ahead",
              "disconnect", "free_buffers", "free_qp", "free_cq", "destroy_child"}

NoChild == child = "unset" /\ cmh["server"] # "child" /\ "child" \notin held["server"]

\* The client asks once; until the server's callback has taken the request, the server
\* knows of no id.
OneRequest ==
  /\ AskedOnce(cmq["server"])
  /\ Asked(cmq["server"]) => NoChild
  /\ pc["client"] \in PreConnect => ~Asked(cmq["server"]) /\ NoChild

\* A server that has made a queue pair for the id destroys the id before it ends, and
\* gets no other.
OneChild ==
  /\ pc["server"] \in PreQp => qp["server"] = "none"
  /\ pc["server"] \in WithChild => child = "set"
  /\ pc["server"] \in {"destroy_listener", "done"} /\ qp["server"] # "none" =>
       child = "set" /\ "child" \notin held["server"]

ClientHasNoChild ==
  /\ ~Asked(cmq["client"])
  /\ cmh["client"] # "child"
  /\ "child" \notin held["client"]

HeldInv ==
  /\ TypeInv
  /\ \A s \in Side : Accounted(s)
  /\ OneRequest
  /\ OneChild
  /\ ClientHasNoChild

\* The queue of a side gets a request from the client's rdma_connect only.
LEMMA RequestHeard ==
  ASSUME TypeInv, Next, NEW s \in Side
  PROVE  \/ s = "server" /\ ClientConnect /\ (~Asked(cmq[s]) => AskedOnce(cmq'[s]))
         \/ /\ Asked(cmq'[s]) => Asked(cmq[s])
            /\ AskedOnce(cmq[s]) => AskedOnce(cmq'[s])
            /\ AskedOnce(cmq[s]) /\ ConnectRequested(s) /\ CmaEvent(s) => ~Asked(cmq'[s])
<1>1. cmq \in [Side -> Seq(CmEvent)] /\ cmq[s] \in Seq(CmEvent)
  BY DEF TypeInv, TypeOK, CmTypeOK
<1>2. CmaEvent(s) => cmq[s] # <<>> /\ Tail(cmq[s]) \in Seq(CmEvent)
  BY <1>1 DEF CmaEvent
<1>3. CASE ConnectRequested(s) /\ CmaEvent(s)
  <2>1. Head(cmq[s]) = "CONNECT_REQUEST" /\ cmq'[s] = Tail(cmq[s])
    BY <1>1, <1>3 DEF ConnectRequested
  <2> QED BY <1>1, <1>2, <1>3, <2>1, AskedMoves
<1>4. CASE ~(ConnectRequested(s) /\ CmaEvent(s))
  <2>1. Hearing(s)
    BY Hears
  <2>2. CASE cmq'[s] = cmq[s] \/ cmq'[s] = <<>>
    BY <1>1, <1>4, <2>2, AskedMoves
  <2>3. CASE \E event \in CmEvent \ {"CONNECT_REQUEST"} : cmq'[s] = Append(cmq[s], event)
    BY <1>1, <1>4, <2>3, AskedMoves
  <2>4. CASE s = "server" /\ ClientConnect /\ cmq'[s] = Append(cmq[s], "CONNECT_REQUEST")
    BY <1>1, <2>4, AskedMoves
  <2>5. CASE CmaEvent(s) /\ cmq'[s] = Tail(cmq[s])
    BY <1>1, <1>2, <1>4, <2>5, AskedMoves
  <2>6. CASE /\ CmaEvent(s)
             /\ \E event \in CmEvent \ {"CONNECT_REQUEST"} : cmq'[s] = Append(Tail(cmq[s]), event)
    <3>1. PICK event \in CmEvent \ {"CONNECT_REQUEST"} : cmq'[s] = Append(Tail(cmq[s]), event)
      BY <2>6
    <3>2. /\ Asked(Append(Tail(cmq[s]), event)) => Asked(Tail(cmq[s]))
          /\ AskedOnce(Tail(cmq[s])) => AskedOnce(Append(Tail(cmq[s]), event))
      BY <1>2, <2>6, AskedMoves
    <3>3. /\ Asked(Tail(cmq[s])) => Asked(cmq[s])
          /\ AskedOnce(cmq[s]) => AskedOnce(Tail(cmq[s]))
      BY <1>1, <1>2, <2>6, AskedMoves
    <3> QED BY <1>4, <3>1, <3>2, <3>3
  <2> QED BY <2>1, <2>2, <2>3, <2>4, <2>5, <2>6 DEF Hearing, Stray, Answer, CmEvent
<1> QED BY <1>3, <1>4

\* What becomes of the queue pair of side s.
LEMMA QpMoves ==
  ASSUME TypeInv, Next, NEW s \in Side
  PROVE  \/ qp'[s] = qp[s]
         \/ qp[s] = "rts" /\ qp'[s] = "err" /\ pc' = pc
         \/ /\ pc[s] = "setup_qp" /\ pc'[s] = "setup_buffers" /\ qp'[s] = "init"
            /\ s = "server" => child = "set"
         \/ pc[s] \notin PreQp /\ pc'[s] \in {"accept_wait", "free_buffers", "free_cq"}
         \/ s = "client" /\ conn = "accepted" /\ qp[s] = "init" /\ qp'[s] = "rts" /\ pc' = pc
<1> USE SideFacts
<1>1. /\ qp \in [Side -> {"none", "init", "rts", "err", "gone"}]
      /\ pc \in [Side -> ClientLabel \cup ServerLabel]
  BY DEF TypeInv, TypeOK, QpTypeOK, ThreadTypeOK
<1>2. CASE ClientMain \/ ServerMain
  <2>1. CASE ClientSetupQp \/ ServerSetupQp
    <3>1. \/ qp' = qp
          \/ \E m \in Side : /\ pc[m] = "setup_qp" /\ pc' = [pc EXCEPT ![m] = "setup_buffers"]
                             /\ qp' = [qp EXCEPT ![m] = "init"]
                             /\ m = "server" => child = "set"
      BY <2>1 DEF ClientSetupQp, ServerSetupQp, QpSetUp, Goto
    <3> QED BY <1>1, <3>1
  <2>2. ASSUME NEW m \in Side, Disconnect(m) \/ FreeQp(m) \/ (m = "server" /\ ServerAccept)
        PROVE  \/ qp'[s] = qp[s]
               \/ pc[s] \notin PreQp /\ pc'[s] \in {"accept_wait", "free_buffers", "free_cq"}
    <3>1. /\ pc[m] \notin PreQp
          /\ \E label \in {"accept_wait", "free_buffers", "free_cq"} :
               pc' = [pc EXCEPT ![m] = label]
      BY <2>2 DEF Disconnect, FreeQp, ServerAccept, Goto, PreQp
    <3>2. s # m => qp'[s] = qp[s]
      BY <1>1, <2>2 DEF Disconnect, DisconnectConnection, FreeQp, ServerAccept, QpError
    <3> QED BY <1>1, <3>1, <3>2
  <2>3. \/ ClientSetupQp \/ ServerSetupQp \/ ServerAccept \/ UNCHANGED qp
        \/ \E m \in Side : Disconnect(m) \/ FreeQp(m)
    <3>1. CASE ClientMain
      BY <3>1
      DEF ClientMain, ClientStart, ClientBind, ClientBindWait, ClientBindCheck, SetupBuffers,
          PostFirstRecv, ClientConnect, ClientConnectWait, ClientConnectCheck,
          ClientAdvertise, ClientSend, ClientGoAheadWait, FreeBuffers, FreeCq,
          ClientDestroyId, WaitEvent, qpVars
    <3>2. CASE ServerMain
      BY <3>2
      DEF ServerMain, ServerStart, ServerBind, ServerRequestWait, ServerRequestCheck,
          SetupBuffers, PostFirstRecv, ServerAcceptWait, ServerAcceptCheck, ServerPingWait,
          ServerRead, ServerReadWait, ServerWrite, ServerWriteWait, ServerNextRound,
          ServerGoAhead, FreeBuffers, FreeCq, ServerDestroyChild, ServerDestroyListener,
          WaitEvent, qpVars
    <3> QED BY <1>2, <3>1, <3>2
  <2> QED BY <2>1, <2>2, <2>3
<1>3. ASSUME NEW x \in Side, NEW k \in 1 .. Len(sq[x]), TransmitFails(x, k)
      PROVE  \/ qp'[s] = qp[s]
             \/ qp[s] = "rts" /\ qp'[s] = "err" /\ pc' = pc
  <2>1. qp[x] = "rts" /\ pc' = pc
    BY <1>3 DEF TransmitFails, MayGoOut, threadVars
  <2>2. AccessRefused(x, sq[x][k]) => qp[Peer(x)] = "rts"
    BY DEF AccessRefused
  <2>3. s = x \/ s = Peer(x)
    BY DEF Peer
  <2>4. qp' = [y \in Side |-> IF y \in (IF AccessRefused(x, sq[x][k]) THEN Side ELSE {x})
                              THEN "err" ELSE qp[y]]
    BY <1>3 DEF TransmitFails, QpError
  <2> QED BY <2>1, <2>2, <2>3, <2>4
<1>4. CASE ConnectionEstablished
  BY <1>1, <1>4 DEF ConnectionEstablished, threadVars
<1>5. ASSUME NEW x \in Side,
             \/ ConnectTimeout \/ UNCHANGED vars
             \/ Callbacks(x) \/ StrayEvent(x) \/ Signal(x) \/ CompleteSend(x)
             \/ \E k \in 1 .. Len(sq[x]) : Transmit(x, k) \/ ReadArrives(x, k)
      PROVE  qp'[s] = qp[s]
  <2>1. CASE ConnectTimeout \/ UNCHANGED vars \/ StrayEvent(x) \/ Signal(x)
    BY <2>1 DEF ConnectTimeout, vars, StrayEvent, Signal, qpVars
  <2>2. CASE Callbacks(x)
    BY <2>2
    DEF Callbacks, megaVM_cma_event_handler, CmaEvent, CmaChild, CmaWake,
        megaVM_cq_event_handler, CqEvent, CqArm, CqPollEmpty, CqPoll, CqRepost, CqWake, qpVars
  <2>3. CASE \/ CompleteSend(x)
             \/ \E k \in 1 .. Len(sq[x]) : Transmit(x, k) \/ ReadArrives(x, k)
    BY <2>3 DEF Transmit, ReadArrives, CompleteSend
  <2> QED BY <1>5, <2>1, <2>2, <2>3
<1> QED BY <1>2, <1>3, <1>4, <1>5 DEF Next, Progress, Fault, Over, Adapter

\* A side gets an id, and its callback something to do with it, with a connection
\* request only.
LEMMA IdMoves ==
  ASSUME TypeInv, Next, NEW s \in Side, ~(ConnectRequested(s) /\ CmaEvent(s))
  PROVE  /\ "child" \in held'[s] => "child" \in held[s]
         /\ cmh'[s] = "child" => cmh[s] = "child"
<1> USE SideFacts
<1>1. held \in [Side -> SUBSET Resource] /\ cmh \in [Side -> CmPhase]
  BY DEF TypeInv, TypeOK, ContextTypeOK, CmTypeOK
<1>2. "child" \in held'[s] => "child" \in held[s]
  <2>1. ASSUME NEW m \in Side, Accounts(m)
        PROVE  "child" \in held'[s] => "child" \in held[s]
    BY <1>1, <2>1 DEF Accounts, Keeps, Takes, Returns, Holding, Released
  <2>2. CASE ClientMain \/ ServerMain
    BY <2>1, <2>2, ClientAccounts, ServerAccounts
  <2>3. CASE ~(ClientMain \/ ServerMain)
    <3>1. \/ held' = held
          \/ \E x \in Side : /\ ConnectRequested(x) /\ CmaEvent(x)
                             /\ held' = [held EXCEPT ![x] = @ \cup {"child"}]
      BY <2>3, OthersHold DEF Next, Progress, Fault, Over
    <3> QED BY <1>1, <3>1
  <2> QED BY <2>2, <2>3
<1>3. cmh'[s] = "child" => cmh[s] = "child"
  <2>1. CASE ClientMain \/ ServerMain
    <3>1. cmh' = cmh
      BY <2>1
      DEF ClientMain, ClientStart, ClientBind, ClientBindWait, ClientBindCheck, ClientSetupQp,
          SetupBuffers, PostFirstRecv, ClientConnect, ClientConnectWait, ClientConnectCheck,
          ClientAdvertise, ClientSend, ClientGoAheadWait, Disconnect, FreeBuffers, FreeQp,
          FreeCq, ClientDestroyId, ServerMain, ServerStart, ServerBind, ServerRequestWait,
          ServerRequestCheck, ServerSetupQp, ServerAccept, ServerAcceptWait,
          ServerAcceptCheck, ServerPingWait, ServerRead, ServerReadWait, ServerWrite,
          ServerWriteWait, ServerNextRound, ServerGoAhead, ServerDestroyChild,
          ServerDestroyListener, WaitEvent, cmVars
    <3> QED BY <3>1
  <2>2. ASSUME NEW x \in Side, megaVM_cma_event_handler(x)
        PROVE  cmh'[s] = "child" => cmh[s] = "child"
    <3>1. \/ cmh' = cmh
          \/ cmh' = [cmh EXCEPT ![x] = "wake"]
          \/ cmh' = [cmh EXCEPT ![x] = "idle"]
          \/ ConnectRequested(x) /\ CmaEvent(x) /\ cmh' = [cmh EXCEPT ![x] = "child"]
      BY <2>2
      DEF megaVM_cma_event_handler, CmaEvent, CmaChild, CmaWake, AddrResolved,
          ConnectRequested, StateAndWake, DeviceRemovalLogged
    <3> QED BY <1>1, <3>1
  <2>3. CASE \/ ConnectionEstablished \/ ConnectTimeout \/ UNCHANGED vars
             \/ \E x \in Side : \/ megaVM_cq_event_handler(x) \/ Adapter(x)
                                \/ StrayEvent(x) \/ Signal(x)
    <3>1. cmh' = cmh
      BY <2>3, OtherCm DEF ConnectionEstablished, ConnectTimeout, StrayEvent, vars, cmVars
    <3> QED BY <3>1
  <2> QED BY <2>1, <2>2, <2>3 DEF Next, Progress, Fault, Over, Callbacks
<1> QED BY <1>2, <1>3

\* child_cm_id is set once, by the callback that has an id to set it to.
LEMMA ChildMoves ==
  ASSUME TypeInv, ClientHasNoChild, Next
  PROVE  \/ child' = child
         \/ child' = "set" /\ cmh["server"] = "child"
<1> USE SideFacts
<1>1. CASE ClientMain \/ ServerMain
  BY <1>1, ClientContext, ServerContext
<1>2. ASSUME NEW x \in Side, Callbacks(x)
      PROVE  \/ child' = child
             \/ child' = "set" /\ cmh["server"] = "child"
  <2>1. CASE CmaChild(x)
    BY <2>1 DEF ClientHasNoChild, CmaChild
  <2>2. CASE CmaEvent(x) \/ CmaWake(x)
    BY <2>2 DEF CmaEvent, CmaWake, contextVars
  <2>3. CASE megaVM_cq_event_handler(x)
    BY <2>3
    DEF megaVM_cq_event_handler, CqEvent, CqArm, CqPollEmpty, CqPoll, CqRepost, CqWake,
        contextVars
  <2> QED BY <1>2, <2>1, <2>2, <2>3 DEF Callbacks, megaVM_cma_event_handler
<1>3. ASSUME NEW x \in Side, Adapter(x) \/ StrayEvent(x) \/ Signal(x)
      PROVE  child' = child
  BY <1>3
  DEF Adapter, Transmit, TransmitFails, ReadArrives, CompleteSend, StrayEvent, Signal, contextVars
<1>4. CASE ConnectionEstablished \/ ConnectTimeout \/ UNCHANGED vars
  BY <1>4 DEF ConnectionEstablished, ConnectTimeout, vars, contextVars
<1> QED BY <1>1, <1>2, <1>3, <1>4 DEF Next, Progress, Fault, Over

\* Where the server's main thread comes from.
LEMMA ServerGoes ==
  ASSUME TypeInv, ServerMain
  PROVE  /\ pc'["client"] = pc["client"]
         /\ pc'["server"] \in PreQp => pc["server"] \in PreQp
         /\ pc'["server"] \in WithChild =>
              \/ pc["server"] \in WithChild
              \/ pc["server"] = "setup_qp" /\ child = "set"
         /\ pc'["server"] \in {"destroy_listener", "done"} =>
              \/ pc["server"] \in PreQp \cup {"destroy_listener", "done"}
              \/ pc["server"] \in WithChild /\ "child" \notin held'["server"]
<1> USE SideFacts
<1>1. pc \in [Side -> ClientLabel \cup ServerLabel] /\ held \in [Side -> SUBSET Resource]
  BY DEF TypeInv, TypeOK, ThreadTypeOK, ContextTypeOK
<1>2. CASE \/ ServerStart \/ ServerBind \/ ServerRequestWait \/ ServerRequestCheck
  BY <1>1, <1>2
  DEF ServerStart, ServerBind, ServerRequestWait, ServerRequestCheck, WaitEvent, Goto, PreQp,
      WithChild
<1>3. CASE ServerSetupQp
  BY <1>1, <1>3 DEF ServerSetupQp, QpSetUp, Goto, PreQp, WithChild
<1>4. CASE \/ SetupBuffers("server") \/ PostFirstRecv("server", "accept") \/ ServerAccept
           \/ ServerAcceptWait \/ ServerAcceptCheck \/ ServerPingWait \/ ServerRead
  BY <1>1, <1>4
  DEF SetupBuffers, PostFirstRecv, ServerAccept, ServerAcceptWait, ServerAcceptCheck,
      ServerPingWait, ServerRead, WaitEvent, Goto, PreQp, WithChild
<1>5. CASE \/ ServerReadWait \/ ServerWrite \/ ServerWriteWait \/ ServerNextRound \/ ServerGoAhead
  BY <1>1, <1>5
  DEF ServerReadWait, ServerWrite, ServerWriteWait, ServerNextRound, ServerGoAhead, WaitEvent,
      Goto, PreQp, WithChild
<1>6. CASE \/ Disconnect("server") \/ FreeBuffers("server") \/ FreeQp("server")
           \/ FreeCq("server", "destroy_child")
  BY <1>1, <1>6 DEF Disconnect, FreeBuffers, FreeQp, FreeCq, Goto, PreQp, WithChild
<1>7. CASE ServerDestroyChild \/ ServerDestroyListener
  BY <1>1, <1>7 DEF ServerDestroyChild, ServerDestroyListener, Released, Goto, PreQp, WithChild
<1> QED BY <1>2, <1>3, <1>4, <1>5, <1>6, <1>7 DEF ServerMain

\* The client's never comes back to where it has not asked yet.
LEMMA ClientGoes ==
  ASSUME TypeInv, ClientMain
  PROVE  /\ pc'["server"] = pc["server"]
         /\ pc'["client"] \in PreConnect => pc["client"] \in PreConnect
<1> USE SideFacts
<1>1. pc \in [Side -> ClientLabel \cup ServerLabel]
  BY DEF TypeInv, TypeOK, ThreadTypeOK
<1>2. CASE \/ ClientStart \/ ClientBind \/ ClientBindWait \/ ClientBindCheck \/ ClientSetupQp
           \/ SetupBuffers("client") \/ PostFirstRecv("client", "connect")
  BY <1>1, <1>2
  DEF ClientStart, ClientBind, ClientBindWait, ClientBindCheck, ClientSetupQp, QpSetUp,
      SetupBuffers, PostFirstRecv, WaitEvent, Goto, PreConnect
<1>3. CASE ClientConnect \/ ClientConnectWait \/ ClientConnectCheck \/ ClientAdvertise
  BY <1>1, <1>3
  DEF ClientConnect, ClientConnectWait, ClientConnectCheck, ClientAdvertise, WaitEvent, Goto,
      PreConnect
<1>4. CASE \/ ClientSend \/ ClientGoAheadWait \/ Disconnect("client") \/ FreeBuffers("client")
  BY <1>1, <1>4
  DEF ClientSend, ClientGoAheadWait, Disconnect, FreeBuffers, WaitEvent, Goto, PreConnect
<1>5. CASE FreeQp("client") \/ FreeCq("client", "destroy_id") \/ ClientDestroyId
  BY <1>1, <1>5 DEF FreeQp, FreeCq, ClientDestroyId, Goto, PreConnect
<1> QED BY <1>2, <1>3, <1>4, <1>5 DEF ClientMain

\* Only the client asks, and it asks once.
LEMMA RequestStep ==
  ASSUME HeldInv, Next
  PROVE  OneRequest' /\ ClientHasNoChild'
<1> USE SideFacts
<1> DEFINE Coming == ConnectRequested("server") /\ CmaEvent("server")
<1>1. TypeInv /\ ClientHasNoChild /\ OneRequest
  BY DEF HeldInv
<1>2. /\ pc \in [Side -> ClientLabel \cup ServerLabel] /\ held \in [Side -> SUBSET Resource]
      /\ cmh \in [Side -> CmPhase] /\ cmq \in [Side -> Seq(CmEvent)]
  BY <1>1 DEF TypeInv, TypeOK, ThreadTypeOK, ContextTypeOK, CmTypeOK
<1>3. pc'["client"] \in PreConnect => pc["client"] \in PreConnect /\ ~ClientConnect
  <2>1. ClientConnect => pc'["client"] \notin PreConnect
    BY <1>2 DEF ClientConnect, Goto, PreConnect
  <2>2. pc'["client"] \in PreConnect => pc["client"] \in PreConnect
    BY <1>1, ClientGoes, ServerGoes, OthersHold DEF Next, Progress, Fault, Over
  <2> QED BY <2>1, <2>2
<1>4. ~(ConnectRequested("client") /\ CmaEvent("client"))
  BY <1>1, <1>2, AskedMoves DEF ClientHasNoChild, ConnectRequested, CmaEvent
<1>5. CASE Coming
  <2>1. Asked(cmq["server"])
    BY <1>2, <1>5, AskedMoves DEF ConnectRequested, CmaEvent
  <2>2. pc["client"] \notin PreConnect
    BY <1>1, <2>1 DEF OneRequest
  <2>3. UNCHANGED pc /\ cmq'["client"] = cmq["client"] /\ cmh'["client"] = cmh["client"]
        /\ held'["client"] = held["client"]
    BY <1>2, <1>5 DEF ConnectRequested, CmaEvent, threadVars
  <2>4. ~ClientConnect
    BY <2>2 DEF ClientConnect, PreConnect
  <2>5. AskedOnce(cmq'["server"]) /\ ~Asked(cmq'["server"])
    BY <1>1, <1>5, <2>4, RequestHeard DEF OneRequest
  <2> QED BY <1>1, <2>2, <2>3, <2>5 DEF OneRequest, ClientHasNoChild
<1>6. CASE ~Coming
  <2>1. NoChild => NoChild'
    <3>1. child' = child \/ cmh["server"] = "child"
      BY <1>1, ChildMoves
    <3> QED BY <1>1, <1>6, <3>1, IdMoves DEF NoChild
  <2>2. OneRequest'
    <3>1. CASE ClientConnect
      <4>1. pc["client"] = "connect" /\ pc'["client"] \notin PreConnect
        BY <1>2, <3>1 DEF ClientConnect, Goto, PreConnect
      <4>2. ~Asked(cmq["server"]) /\ NoChild
        BY <1>1, <4>1 DEF OneRequest, PreConnect
      <4>3. AskedOnce(cmq'["server"])
        BY <1>1, <4>2, RequestHeard DEF OneRequest
      <4> QED BY <2>1, <4>1, <4>2, <4>3 DEF OneRequest
    <3>2. CASE ~ClientConnect
      <4>1. AskedOnce(cmq'["server"]) /\ (Asked(cmq'["server"]) => Asked(cmq["server"]))
        BY <1>1, <3>2, RequestHeard DEF OneRequest
      <4> QED BY <1>1, <1>3, <2>1, <4>1 DEF OneRequest
    <3> QED BY <3>1, <3>2
  <2>3. ~Asked(cmq'["client"])
    BY <1>1, RequestHeard DEF ClientHasNoChild
  <2>4. cmh'["client"] # "child" /\ "child" \notin held'["client"]
    BY <1>1, <1>4, IdMoves DEF ClientHasNoChild
  <2> QED BY <2>2, <2>3, <2>4 DEF ClientHasNoChild
<1> QED BY <1>5, <1>6

\* The server's queue pair is made for the id, and the id is given back after it.
LEMMA ChildStep ==
  ASSUME HeldInv, Next
  PROVE  OneChild'
<1> USE SideFacts
<1> DEFINE Coming == ConnectRequested("server") /\ CmaEvent("server")
           Ending == {"destroy_listener", "done"}
<1>1. TypeInv /\ ClientHasNoChild /\ OneRequest /\ OneChild
  BY DEF HeldInv
<1>2. /\ pc \in [Side -> ClientLabel \cup ServerLabel] /\ cmq \in [Side -> Seq(CmEvent)]
      /\ child \in {"unset", "set"}
  BY <1>1 DEF TypeInv, TypeOK, ThreadTypeOK, ContextTypeOK, CmTypeOK
<1>3. child = "set" => child' = "set" /\ ~Coming
  <2>1. Coming => Asked(cmq["server"])
    BY <1>2, AskedMoves DEF ConnectRequested, CmaEvent
  <2>2. Coming => child = "unset"
    BY <1>1, <2>1 DEF OneRequest, NoChild
  <2> QED BY <1>1, <2>2, ChildMoves
<1>4. ~Coming => ("child" \in held'["server"] => "child" \in held["server"])
  BY <1>1, IdMoves
<1>5. /\ pc'["server"] \in PreQp => pc["server"] \in PreQp
      /\ pc'["server"] \in WithChild =>
           \/ pc["server"] \in WithChild
           \/ pc["server"] = "setup_qp" /\ child = "set"
      /\ pc'["server"] \in Ending =>
           \/ pc["server"] \in PreQp \cup Ending
           \/ pc["server"] \in WithChild /\ "child" \notin held'["server"]
  BY <1>1, ServerGoes, ClientGoes, OthersHold DEF Next, Progress, Fault, Over
<1>6. \/ qp'["server"] = qp["server"]
      \/ qp["server"] = "rts" /\ pc' = pc
      \/ pc'["server"] \in {"setup_buffers", "accept_wait", "free_buffers", "free_cq"}
  BY <1>1, QpMoves
<1>7. pc'["server"] \in PreQp => qp'["server"] = "none"
  BY <1>1, <1>5, <1>6 DEF OneChild, PreQp
<1>8. pc'["server"] \in WithChild => child' = "set"
  BY <1>1, <1>3, <1>5 DEF OneChild
<1>9. ASSUME pc'["server"] \in Ending, qp'["server"] # "none"
      PROVE  child' = "set" /\ "child" \notin held'["server"]
  <2>1. qp["server"] # "none"
    BY <1>6, <1>9
  <2>2. child = "set"
    BY <1>1, <1>5, <1>9, <2>1 DEF OneChild
  <2> QED BY <1>1, <1>3, <1>4, <1>5, <1>9, <2>1, <2>2 DEF OneChild
<1> QED BY <1>7, <1>8, <1>9 DEF OneChild

\* HeldInv is inductive.
THEOREM HeldInvariance == Spec => []HeldInv
<1>1. Init => HeldInv
  <2> SUFFICES ASSUME Init PROVE HeldInv
    OBVIOUS
  <2>1. \A s \in Side : Accounted(s)
    BY DEF Init, InitContext, Accounted
  <2>2. OneRequest /\ OneChild /\ ClientHasNoChild
    BY SideFacts, AskedMoves
    DEF Init, InitContext, OneRequest, NoChild, OneChild, ClientHasNoChild, Asked,
        AskedOnce, Has, Once, WithChild
  <2> QED BY <2>1, <2>2, InitType DEF HeldInv
<1>2. HeldInv /\ [Next]_vars => HeldInv'
  <2> SUFFICES ASSUME HeldInv, [Next]_vars PROVE HeldInv'
    OBVIOUS
  <2>1. TypeInv'
    BY ThreadStep, ContextStep, BufferStep, CmStep, QueueStep, MisuseStep, StutterType
    DEF HeldInv, TypeInv, TypeOK
  <2>2. CASE Next
    BY <2>1, <2>2, AccountedStep, RequestStep, ChildStep DEF HeldInv
  <2>3. CASE UNCHANGED vars
    BY <2>1, <2>3
    DEF HeldInv, Accounted, Unmapped, OneRequest, NoChild, OneChild, ClientHasNoChild, Asked,
        AskedOnce, Has, Once, vars, threadVars, contextVars, cmVars, qpVars
  <2> QED BY <2>2, <2>3
<1> QED BY <1>1, <1>2, PTL DEF Spec

\* Whatever fails, and wherever a module leaves through an err label, it leaves no more
\* behind than two kinds of things: DMA mappings, by the bail label of setup_buffers,
\* and the id of a connection request for which the server never made a queue pair.
THEOREM LeavesKnown == Spec => []LeaksAreKnown
<1>1. HeldInv => LeaksAreKnown
  <2> SUFFICES ASSUME HeldInv, NEW s \in Side, pc[s] = "done"
               PROVE  /\ held[s] \subseteq Mapping \cup {"child"}
                      /\ held[s] \cap Mapping # {} => <<s, "setup">> \in Faults
                      /\ "child" \in held[s] => qp[s] = "none"
    BY DEF LeaksAreKnown
  <2>1. held[s] \subseteq {"child"} \cup Unmapped(s)
    BY Bounds DEF HeldInv, Accounted
  <2>2. held[s] \cap Mapping # {} => <<s, "setup">> \in Faults
    BY <2>1 DEF Unmapped, Mapping
  <2>3. "child" \in held[s] => s = "server"
    BY SideFacts DEF HeldInv, ClientHasNoChild
  <2>4. "child" \in held[s] => qp[s] = "none"
    BY <2>3 DEF HeldInv, OneChild
  <2> QED BY <2>1, <2>2, <2>4 DEF Unmapped
<1> QED BY <1>1, HeldInvariance, PTL

-----------------------------------------------------------------------------
(* A session whose waits are not cut short gives everything back.          *)

\* No completions come to a side before its connection does.
Idle(s) == sq[s] = <<>> /\ cqe[s] = <<>> /\ cqh[s] # "repost"

\* Where the main threads are then.
Waiting == PreConnect \cup PreQp \cup {"connect_wait"}

\* Posting on one side leaves the queues of the other alone.
LEMMA OtherSide ==
  ASSUME TypeOK, NEW m \in Side, NEW s \in Side, s # m,
         \/ \E op, buf : PostSend(m, op, buf)
         \/ PostRecv(m) /\ UNCHANGED sq
         \/ QpError({m}, Only(m, Flushed(m, 0)))
         \/ FreeQp(m)
  PROVE  sq'[s] = sq[s] /\ cqe'[s] = cqe[s]
<1>1. sq \in [Side -> Seq(Wr)] /\ cqe \in [Side -> Seq(Wc)]
  BY DEF TypeOK, QpTypeOK, CqTypeOK
<1>2. ASSUME NEW q, AddCompletions(Only(m, q))
      PROVE  cqe'[s] = cqe[s]
  <2>1. cqe'[s] = cqe[s] \o <<>>
    BY <1>2 DEF AddCompletions, Only, NoCompletion
  <2> QED BY <1>1, <2>1
<1> QED BY <1>1, <1>2 DEF PostSend, PostRecv, QpError, FreeQp

\* The main threads leave a side idle until it connects.
LEMMA MainIdle ==
  ASSUME TypeInv, ClientMain \/ ServerMain, NEW s \in Side,
         Idle(s), qp[s] \in {"none", "init"}, pc'[s] \in Waiting
  PROVE  Idle(s)'
<1> USE SideFacts
<1>1. TypeOK /\ pc \in [Side -> ClientLabel \cup ServerLabel]
  BY DEF TypeInv, TypeOK, ThreadTypeOK
<1>2. ASSUME NEW m \in Side, \/ \E op, buf : PostSend(m, op, buf)
                             \/ QpError({m}, Only(m, Flushed(m, 0)))
                             \/ FreeQp(m),
             UNCHANGED cqh, pc'[m] \notin Waiting
      PROVE  Idle(s)'
  BY <1>1, <1>2, OtherSide DEF Idle
<1>3. ASSUME NEW m \in Side, PostRecv(m), UNCHANGED <<sq, cqh>>
      PROVE  Idle(s)'
  <2>1. CASE s # m
    BY <1>1, <1>3, <2>1, OtherSide DEF Idle
  <2>2. CASE s = m
    BY <1>3, <2>2 DEF PostRecv, Idle
  <2> QED BY <2>1, <2>2
<1>4. CASE UNCHANGED <<sq, cqe, cqh>>
  BY <1>4 DEF Idle
<1>5. CASE ClientSend \/ Disconnect("client") \/ FreeQp("client")
  BY <1>1, <1>2, <1>5
  DEF ClientSend, Disconnect, DisconnectConnection, FreeQp, Goto, Waiting, PreConnect, PreQp
<1>6. CASE \/ ServerRead \/ ServerWrite \/ ServerGoAhead \/ Disconnect("server")
           \/ FreeQp("server")
  BY <1>1, <1>2, <1>6
  DEF ServerRead, ServerWrite, ServerGoAhead, Disconnect, DisconnectConnection, FreeQp, Goto,
      Waiting, PreConnect, PreQp
<1>7. CASE ServerAccept
  BY <1>1, <1>2, <1>4, <1>7 DEF ServerAccept, Goto, Waiting, PreConnect, PreQp
<1>8. CASE PostFirstRecv("client", "connect") \/ PostFirstRecv("server", "accept")
  BY <1>3, <1>4, <1>8 DEF PostFirstRecv
<1>9. CASE ClientMain
  BY <1>4, <1>5, <1>8, <1>9
  DEF ClientMain, ClientStart, ClientBind, ClientBindWait, ClientBindCheck, ClientSetupQp,
      SetupBuffers, ClientConnect, ClientConnectWait, ClientConnectCheck, ClientAdvertise,
      ClientGoAheadWait, FreeBuffers, FreeCq, ClientDestroyId, WaitEvent, cqVars, qpVars
<1>10. CASE ServerMain
  BY <1>4, <1>6, <1>7, <1>8, <1>10
  DEF ServerMain, ServerStart, ServerBind, ServerRequestWait, ServerRequestCheck,
      ServerSetupQp, SetupBuffers, ServerAcceptWait, ServerAcceptCheck, ServerPingWait,
      ServerReadWait, ServerWriteWait, ServerNextRound, FreeBuffers, FreeCq,
      ServerDestroyChild, ServerDestroyListener, WaitEvent, cqVars, qpVars
<1> QED BY <1>9, <1>10

\* So does everybody else: the peer reaches no queue pair that is not connected.
LEMMA IdleStays ==
  ASSUME TypeInv, Next, NEW s \in Side,
         Idle(s), qp[s] \in {"none", "init"}, pc'[s] \in Waiting
  PROVE  Idle(s)'
<1> USE SideFacts
<1>1. /\ TypeOK /\ sq \in [Side -> Seq(Wr)] /\ cqe \in [Side -> Seq(Wc)]
      /\ cqh \in [Side -> CqPhase]
  BY DEF TypeInv, TypeOK, QpTypeOK, CqTypeOK
<1>2. ASSUME NEW x \in Side, megaVM_cq_event_handler(x)
      PROVE  Idle(s)'
  <2>1. CASE x = s
    <3>1. UNCHANGED <<sq, cqe>>
      BY <1>2, <2>1
      DEF Idle, megaVM_cq_event_handler, CqEvent, CqArm, CqPollEmpty, CqPoll, CqRepost, CqWake,
          qpVars
    <3>2. \E phase \in {"idle", "arm", "poll"} : cqh' = [cqh EXCEPT ![s] = phase]
      BY <1>2, <2>1
      DEF Idle, megaVM_cq_event_handler, CqEvent, CqArm, CqPollEmpty, CqPoll, CqRepost, CqWake,
          CqGoto
    <3> QED BY <1>1, <3>1, <3>2 DEF Idle
  <2>2. CASE x # s
    <3>1. sq' = sq
      BY <1>2 DEF megaVM_cq_event_handler, CqEvent, CqArm, CqPollEmpty, CqPoll, CqRepost, CqWake,
                  qpVars
    <3>2. \E phase : cqh' = [cqh EXCEPT ![x] = phase] \/ cqh' = cqh
      BY <1>2 DEF megaVM_cq_event_handler, CqEvent, CqArm, CqPollEmpty, CqPoll, CqRepost, CqWake,
                  CqGoto
    <3>3. cqe'[s] = cqe[s]
      <4>1. \/ cqe' = cqe
            \/ cqe' = [cqe EXCEPT ![x] = Tail(@)]
            \/ PostRecv(x)
        BY <1>2
        DEF megaVM_cq_event_handler, CqEvent, CqArm, CqPollEmpty, CqPoll, CqRepost, CqWake
      <4> QED BY <1>1, <2>2, <3>1, <4>1, OtherSide
    <3> QED BY <1>1, <2>2, <3>1, <3>2, <3>3 DEF Idle
  <2> QED BY <2>1, <2>2
<1>3. ASSUME NEW x \in Side, Adapter(x)
      PROVE  Idle(s)'
  <2>1. x # s
    BY <1>3 DEF Idle, Adapter, CompleteSend
  <2>2. s = Peer(x)
    BY <2>1 DEF Peer
  <2>3. cqh' = cqh
    BY <1>3 DEF Adapter, Transmit, TransmitFails, ReadArrives, CompleteSend, cqVars
  <2>4. ~\E k \in 1 .. Len(sq[x]) : Transmit(x, k)
    BY <2>2 DEF Transmit, Undeliverable
  <2>5. ASSUME NEW k \in 1 .. Len(sq[x]), TransmitFails(x, k)
        PROVE  sq'[s] = sq[s] /\ cqe'[s] = cqe[s]
    <3>1. ~AccessRefused(x, sq[x][k])
      BY <2>2 DEF AccessRefused
    <3>2. cqe'[s] = cqe[s] \o <<>>
      BY <2>1, <2>2, <2>5, <3>1 DEF TransmitFails, QpError, AddCompletions, NoCompletion
    <3>3. sq'[s] = sq[s]
      BY <2>1, <2>5, <3>1 DEF TransmitFails, QpError
    <3> QED BY <1>1, <3>2, <3>3
  <2>6. ASSUME NEW k \in 1 .. Len(sq[x]), ReadArrives(x, k)
        PROVE  sq'[s] = sq[s] /\ cqe'[s] = cqe[s]
    BY <1>1, <2>1, <2>6 DEF ReadArrives, cqVars
  <2>7. CASE CompleteSend(x)
    <3>1. cqe'[s] = cqe[s] \o <<>>
      BY <2>1, <2>7 DEF CompleteSend, AddCompletions, Only, NoCompletion
    <3>2. sq'[s] = sq[s]
      BY <1>1, <2>1, <2>7 DEF CompleteSend
    <3> QED BY <1>1, <2>3, <3>1, <3>2 DEF Idle
  <2> QED BY <1>3, <2>3, <2>4, <2>5, <2>6, <2>7 DEF Adapter, Idle
<1>4. CASE \/ ConnectionEstablished \/ ConnectTimeout \/ UNCHANGED vars
           \/ \E x \in Side : megaVM_cma_event_handler(x) \/ StrayEvent(x) \/ Signal(x)
  <2>1. UNCHANGED <<sq, cqe, cqh>>
    BY <1>4, OtherQueues DEF ConnectionEstablished, ConnectTimeout, vars, cqVars, qpVars
  <2> QED BY <2>1 DEF Idle
<1> QED BY <1>2, <1>3, <1>4, MainIdle DEF Next, Progress, Fault, Over, Callbacks

\* A queue with nothing in it but strays, one with at most one step of the resolution
\* besides, and one with connection requests besides.
Calm(q) == ~Has(q, CmEvent \ Stray)
Resolving(q) == ~Has(q, CmEvent \ (Stray \cup Resolution)) /\ Once(q, Resolution)
Calling(q) == ~Has(q, CmEvent \ (Stray \cup {"CONNECT_REQUEST"}))

\* What comes into such queues, and what is taken from them.
LEMMA CalmMoves ==
  ASSUME NEW q \in Seq(CmEvent)
  PROVE  /\ Calm(<<>>) /\ Calling(<<>>) /\ (Calm(q) => Resolving(q))
         /\ \A event \in Stray : /\ Calm(q) => Calm(Append(q, event))
                                 /\ Resolving(q) => Resolving(Append(q, event))
                                 /\ Calling(q) => Calling(Append(q, event))
         /\ \A event \in Resolution : Calm(q) => Resolving(Append(q, event))
         /\ Calling(q) => Calling(Append(q, "CONNECT_REQUEST"))
         /\ q # <<>> =>
              /\ Calm(q) => Head(q) \in Stray /\ Calm(Tail(q))
              /\ Calling(q) => Head(q) \in Stray \cup {"CONNECT_REQUEST"} /\ Calling(Tail(q))
              /\ Resolving(q) => /\ Resolving(Tail(q))
                                 /\ \/ Head(q) \in Stray
                                    \/ Head(q) \in Resolution /\ Calm(Tail(q))
<1>1. /\ Stray \subseteq CmEvent /\ Resolution \subseteq CmEvent /\ "CONNECT_REQUEST" \in CmEvent
      /\ Stray \cap Resolution = {} /\ "CONNECT_REQUEST" \notin Stray
  BY DEF Stray, Resolution, CmEvent
<1>2. \A r \in Seq(CmEvent) :
        Calm(r) <=> /\ ~Has(r, CmEvent \ (Stray \cup Resolution))
                    /\ ~Has(r, Resolution)
  BY <1>1 DEF Calm, Has
<1>3. Calm(q) => Resolving(q)
  BY <1>2 DEF Resolving, Has, Once
<1>4. Calm(<<>>) /\ Calling(<<>>)
  BY HasMoves DEF Calm, Calling
<1>5. ASSUME NEW event \in Stray
      PROVE  /\ Calm(q) => Calm(Append(q, event))
             /\ Resolving(q) => Resolving(Append(q, event))
             /\ Calling(q) => Calling(Append(q, event))
  BY <1>1, HasMoves DEF Calm, Resolving, Calling
<1>6. ASSUME NEW event \in Resolution, Calm(q)
      PROVE  Resolving(Append(q, event))
  BY <1>1, <1>2, <1>6, HasMoves DEF Resolving
<1>7. Calling(q) => Calling(Append(q, "CONNECT_REQUEST"))
  BY <1>1, HasMoves DEF Calling
<1>8. ASSUME q # <<>>
      PROVE  /\ Calm(q) => Head(q) \in Stray /\ Calm(Tail(q))
             /\ Calling(q) => Head(q) \in Stray \cup {"CONNECT_REQUEST"} /\ Calling(Tail(q))
             /\ Resolving(q) => /\ Resolving(Tail(q))
                                /\ \/ Head(q) \in Stray
                                   \/ Head(q) \in Resolution /\ Calm(Tail(q))
  <2>1. Head(q) \in CmEvent /\ Tail(q) \in Seq(CmEvent)
    BY <1>8
  <2>2. Calm(q) => Head(q) \in Stray /\ Calm(Tail(q))
    BY <1>8, <2>1, HasMoves DEF Calm
  <2>3. Calling(q) => Head(q) \in Stray \cup {"CONNECT_REQUEST"} /\ Calling(Tail(q))
    BY <1>8, <2>1, HasMoves DEF Calling
  <2>4. ASSUME Resolving(q)
        PROVE  /\ Resolving(Tail(q))
               /\ Head(q) \in Stray \/ Head(q) \in Resolution
               /\ Head(q) \in Resolution => ~Has(Tail(q), Resolution)
    BY <1>8, <2>1, <2>4, HasMoves DEF Resolving
  <2> QED BY <1>2, <2>1, <2>2, <2>3, <2>4 DEF Resolving
<1> QED BY <1>3, <1>4, <1>5, <1>6, <1>7, <1>8

\* What becomes of the connection.
LEMMA ConnMoves ==
  ASSUME TypeInv, Next
  PROVE  \/ conn' = conn
         \/ ServerAccept /\ conn' \in {"accepted", "closed"}
         \/ /\ Answering /\ conn' = "closed"
            /\ \/ conn # "requested" \/ pc["client"] = "destroy_id" \/ ConnectTimeout
               \/ pc["server"] \in {"destroy_child", "destroy_listener"}
         \/ conn = "accepted" /\ conn' = "established" /\ UNCHANGED pc
         \/ ClientConnect
<1>1. CASE ClientMain
  <2>1. CASE Disconnect("client") \/ ClientDestroyId
    BY <2>1 DEF Disconnect, DisconnectConnection, ClientDestroyId, DestroyConnectionId, Answering
  <2>2. CASE ~(Disconnect("client") \/ ClientDestroyId \/ ClientConnect)
    BY <1>1, <2>2
    DEF ClientMain, ClientStart, ClientBind, ClientBindWait, ClientBindCheck, ClientSetupQp,
        SetupBuffers, PostFirstRecv, ClientConnectWait, ClientConnectCheck,
        ClientAdvertise, ClientSend, ClientGoAheadWait, FreeBuffers, FreeQp, FreeCq, WaitEvent,
        cmVars
  <2> QED BY <2>1, <2>2
<1>2. CASE ServerMain
  <2>1. CASE Disconnect("server") \/ ServerDestroyChild
    BY <2>1
    DEF Disconnect, DisconnectConnection, ServerDestroyChild, DestroyConnectionId, Answering
  <2>2. CASE ServerDestroyListener
    BY <2>2 DEF ServerDestroyListener, Answering
  <2>3. CASE ServerAccept
    BY <2>3 DEF ServerAccept
  <2>4. CASE ~(\/ Disconnect("server") \/ ServerDestroyChild \/ ServerDestroyListener
               \/ ServerAccept)
    BY <1>2, <2>4
    DEF ServerMain, ServerStart, ServerBind, ServerRequestWait, ServerRequestCheck,
        ServerSetupQp, SetupBuffers, PostFirstRecv, ServerAcceptWait, ServerAcceptCheck,
        ServerPingWait, ServerRead, ServerReadWait, ServerWrite, ServerWriteWait,
        ServerNextRound, ServerGoAhead, FreeBuffers, FreeQp, FreeCq, WaitEvent, cmVars
  <2> QED BY <2>1, <2>2, <2>3, <2>4
<1>3. CASE ConnectionEstablished \/ ConnectTimeout
  BY <1>3 DEF ConnectionEstablished, ConnectTimeout, Answering, threadVars
<1>4. ASSUME NEW s \in Side, megaVM_cma_event_handler(s) \/ StrayEvent(s)
      PROVE  conn' = conn
  BY <1>4 DEF megaVM_cma_event_handler, CmaEvent, CmaChild, CmaWake, StrayEvent
<1>5. CASE \/ UNCHANGED vars
           \/ \E x \in Side : megaVM_cq_event_handler(x) \/ Adapter(x) \/ Signal(x)
  BY <1>5, OtherCm DEF cmVars, vars
<1> QED BY <1>1, <1>2, <1>3, <1>4, <1>5 DEF Next, Progress, Fault, Over, Callbacks

\* What the callback of the connection events does with the first of them.
LEMMA CmaMoves ==
  ASSUME TypeInv, NEW s \in Side, CmaEvent(s)
  PROVE  /\ cmq[s] # <<>> /\ UNCHANGED <<pc, conn>>
         /\ \/ /\ Head(cmq[s]) = "ADDR_RESOLVED" /\ state'[s] = ADDR_RESOLVED
               /\ \/ cmq'[s] = Tail(cmq[s])
                  \/ \E event \in Resolution : cmq'[s] = Append(Tail(cmq[s]), event)
            \/ /\ Head(cmq[s]) = "CONNECT_REQUEST" /\ state'[s] = CONNECT_REQUEST
               /\ cmq'[s] = Tail(cmq[s])
            \/ /\ Head(cmq[s]) \notin {"ADDR_RESOLVED", "CONNECT_REQUEST"}
               /\ state'[s] \in {state[s], StateOfEvent(s, Head(cmq[s]))}
               /\ cmq'[s] = Tail(cmq[s])
<1>1. /\ cmq \in [Side -> Seq(CmEvent)] /\ state \in [Side -> TestState]
  BY DEF TypeInv, TypeOK, CmTypeOK, ContextTypeOK
<1>2. cmq[s] # <<>> /\ UNCHANGED <<pc, conn>>
  BY DEF CmaEvent, threadVars
<1>3. CASE AddrResolved(s)
  BY <1>1, <1>2, <1>3 DEF AddrResolved, SetState, Resolution
<1>4. CASE ConnectRequested(s)
  BY <1>1, <1>2, <1>4 DEF ConnectRequested, SetState
<1>5. CASE StateAndWake(s)
  BY <1>1, <1>2, <1>5 DEF StateAndWake, SetState
<1>6. CASE DeviceRemovalLogged(s)
  BY <1>1, <1>2, <1>6 DEF DeviceRemovalLogged
<1> QED BY <1>3, <1>4, <1>5, <1>6 DEF CmaEvent

\* Who else sets a side's state: its other callback, when there are completions, and
\* the client before it advertises.
LEMMA StateMoves ==
  ASSUME TypeInv, Next, NEW s \in Side
  PROVE  \/ state'[s] = state[s]
         \/ CmaEvent(s)
         \/ ~Idle(s) /\ UNCHANGED <<pc, conn>>
         \/ s = "client" /\ pc[s] = "advertise" /\ pc'[s] = "send" /\ UNCHANGED conn
<1> USE SideFacts
<1>1. /\ state \in [Side -> TestState] /\ pc \in [Side -> ClientLabel \cup ServerLabel]
  BY DEF TypeInv, TypeOK, ContextTypeOK, ThreadTypeOK
<1>2. CASE ServerMain
  BY <1>2, ServerContext
<1>3. CASE ClientMain
  <2>1. CASE ClientAdvertise
    BY <1>1, <2>1 DEF ClientAdvertise, SetState, Goto, cmVars
  <2>2. CASE ~ClientAdvertise
    BY <1>3, <2>2
    DEF ClientMain, ClientStart, ClientBind, ClientBindWait, ClientBindCheck, ClientSetupQp,
        SetupBuffers, PostFirstRecv, ClientConnect, ClientConnectWait, ClientConnectCheck,
        ClientSend, ClientGoAheadWait, Disconnect, FreeBuffers, FreeQp, FreeCq,
        ClientDestroyId, WaitEvent, contextVars
  <2> QED BY <2>1, <2>2
<1>4. ASSUME NEW x \in Side, megaVM_cq_event_handler(x)
      PROVE  state'[s] = state[s] \/ (~Idle(s) /\ UNCHANGED <<pc, conn>>)
  <2>1. UNCHANGED <<pc, conn>>
    BY <1>4, OtherThread, OtherCm DEF Callbacks, cmVars
  <2>2. x # s => state'[s] = state[s]
    BY <1>1, <1>4
    DEF megaVM_cq_event_handler, CqEvent, CqArm, CqPollEmpty, CqPoll, CqRepost, CqWake,
        contextVars, recv, client_recv, server_recv, SetState
  <2>3. x = s /\ Idle(s) => state'[s] = state[s]
    BY <1>1, <1>4
    DEF Idle, megaVM_cq_event_handler, CqEvent, CqArm, CqPollEmpty, CqPoll, CqRepost, CqWake,
        contextVars
  <2> QED BY <2>1, <2>2, <2>3
<1>5. ASSUME NEW x \in Side, megaVM_cma_event_handler(x)
      PROVE  state'[s] = state[s] \/ CmaEvent(s)
  <2>1. CASE CmaChild(x) \/ CmaWake(x)
    BY <2>1 DEF CmaChild, CmaWake, contextVars
  <2>2. CASE CmaEvent(x) /\ x # s
    <3>1. state' = state \/ \E new : SetState(x, new)
      BY <2>2 DEF CmaEvent, AddrResolved, ConnectRequested, StateAndWake, DeviceRemovalLogged
    <3> QED BY <1>1, <2>2, <3>1 DEF SetState
  <2> QED BY <1>5, <2>1, <2>2 DEF megaVM_cma_event_handler
<1>6. ASSUME NEW x \in Side,
             \/ Adapter(x) \/ StrayEvent(x) \/ Signal(x)
             \/ ConnectionEstablished \/ ConnectTimeout \/ UNCHANGED vars
      PROVE  state' = state
  BY <1>6, OtherContext DEF vars, contextVars
<1> QED BY <1>2, <1>3, <1>4, <1>5, <1>6 DEF Next, Progress, Fault, Over, Callbacks

\* The client's way to its request, and that it ends by destroying its id.
LEMMA ClientPath ==
  ASSUME TypeInv, ClientMain
  PROVE  /\ pc'["server"] = pc["server"]
         /\ \/ pc'["client"] = pc["client"]
            \/ ClientStart /\ pc["client"] = "start" /\ pc'["client"] \in {"bind", "done", "oops"}
            \/ /\ ClientBind /\ pc["client"] = "bind"
               /\ pc'["client"] \in {"bind_wait", "destroy_id"}
            \/ pc["client"] = "bind_wait" /\ pc'["client"] = "bind_check"
            \/ /\ pc["client"] = "bind_check"
               /\ \/ pc'["client"] = "setup_qp" /\ state["client"] = ROUTE_RESOLVED
                  \/ pc'["client"] = "destroy_id"
            \/ /\ pc["client"] \in {"setup_qp", "setup_buffers", "post_recv"}
               /\ pc'["client"] \in {"setup_buffers", "post_recv", "connect", "destroy_id",
                                     "free_qp", "free_buffers", "oops"}
            \/ /\ ClientConnect /\ pc["client"] = "connect"
               /\ pc'["client"] \in {"connect_wait", "free_buffers"}
            \/ /\ pc["client"] = "connect_wait" /\ pc'["client"] = "connect_check"
               /\ state["client"] >= CONNECTED \/ "client" \in signalled
            \/ /\ pc["client"] \notin PreConnect \cup {"connect_wait", "done"}
               /\ pc'["client"] \notin PreConnect \cup {"connect_wait"}
               /\ pc'["client"] = "done" => ClientDestroyId
<1> USE SideFacts
<1>1. pc \in [Side -> ClientLabel \cup ServerLabel]
  BY DEF TypeInv, TypeOK, ThreadTypeOK
<1>2. CASE \/ ClientStart \/ ClientBind \/ ClientBindCheck
  BY <1>1, <1>2 DEF ClientStart, ClientBind, ClientBindCheck, Goto
<1>3. CASE \/ ClientBindWait \/ ClientConnectWait
  BY <1>1, <1>3 DEF ClientBindWait, ClientConnectWait, WaitEvent, Threshold, Goto
<1>4. CASE \/ ClientSetupQp \/ SetupBuffers("client") \/ PostFirstRecv("client", "connect")
           \/ ClientConnect
  BY <1>1, <1>4 DEF ClientSetupQp, QpSetUp, SetupBuffers, PostFirstRecv, ClientConnect, Goto
<1>5. CASE \/ ClientConnectCheck \/ ClientAdvertise \/ ClientSend \/ ClientGoAheadWait
           \/ Disconnect("client") \/ FreeBuffers("client") \/ FreeQp("client")
           \/ FreeCq("client", "destroy_id") \/ ClientDestroyId
  BY <1>1, <1>5
  DEF ClientConnectCheck, ClientAdvertise, ClientSend, ClientGoAheadWait, Disconnect,
      FreeBuffers, FreeQp, FreeCq, ClientDestroyId, WaitEvent, Goto, PreConnect
<1> QED BY <1>2, <1>3, <1>4, <1>5 DEF ClientMain

\* The server's way to its queue pair, and that it ends by destroying its listener.
LEMMA ServerPath ==
  ASSUME TypeInv, ServerMain
  PROVE  /\ pc'["client"] = pc["client"]
         /\ \/ pc'["server"] = pc["server"]
            \/ ServerStart /\ pc["server"] = "start" /\ pc'["server"] \in {"bind", "done", "oops"}
            \/ pc["server"] = "bind" /\ pc'["server"] \in {"request_wait", "destroy_listener"}
            \/ /\ pc["server"] = "request_wait" /\ pc'["server"] = "request_check"
               /\ state["server"] >= CONNECT_REQUEST \/ "server" \in signalled
            \/ /\ pc["server"] = "request_check"
               /\ \/ pc'["server"] = "setup_qp"
                  \/ pc'["server"] = "destroy_listener" /\ state["server"] # CONNECT_REQUEST
            \/ /\ pc["server"] = "setup_qp"
               /\ pc'["server"] \notin PreQp \cup {"destroy_listener", "done"}
            \/ /\ pc["server"] \in WithChild
               /\ pc'["server"] \in WithChild \cup {"oops"}
            \/ /\ ServerDestroyChild /\ pc["server"] \in WithChild
               /\ pc'["server"] = "destroy_listener"
            \/ /\ ServerDestroyListener /\ pc["server"] = "destroy_listener"
               /\ pc'["server"] = "done"
<1> USE SideFacts
<1>1. pc \in [Side -> ClientLabel \cup ServerLabel]
  BY DEF TypeInv, TypeOK, ThreadTypeOK
<1>2. CASE \/ ServerStart \/ ServerBind \/ ServerRequestCheck \/ ServerSetupQp
  BY <1>1, <1>2
  DEF ServerStart, ServerBind, ServerRequestCheck, ServerSetupQp, QpSetUp, Goto, PreQp
<1>3. CASE ServerRequestWait
  BY <1>1, <1>3 DEF ServerRequestWait, WaitEvent, Threshold, Goto
<1>4. CASE \/ SetupBuffers("server") \/ PostFirstRecv("server", "accept") \/ ServerAccept
           \/ ServerAcceptWait \/ ServerAcceptCheck \/ ServerPingWait \/ ServerRead
  BY <1>1, <1>4
  DEF SetupBuffers, PostFirstRecv, ServerAccept, ServerAcceptWait, ServerAcceptCheck,
      ServerPingWait, ServerRead, WaitEvent, Goto, WithChild
<1>5. CASE \/ ServerReadWait \/ ServerWrite \/ ServerWriteWait \/ ServerNextRound \/ ServerGoAhead
           \/ Disconnect("server") \/ FreeBuffers("server") \/ FreeQp("server")
           \/ FreeCq("server", "destroy_child")
  BY <1>1, <1>5
  DEF ServerReadWait, ServerWrite, ServerWriteWait, ServerNextRound, ServerGoAhead, WaitEvent,
      Disconnect, FreeBuffers, FreeQp, FreeCq, Goto, WithChild
<1>6. CASE ServerDestroyChild \/ ServerDestroyListener
  BY <1>1, <1>6 DEF ServerDestroyChild, ServerDestroyListener, Goto, WithChild
<1> QED BY <1>2, <1>3, <1>4, <1>5, <1>6 DEF ServerMain

\* Beside the main threads nobody moves them.
LEMMA ThreadMoves ==
  ASSUME TypeInv, Next, NEW s \in Side, pc'[s] # pc[s]
  PROVE  IF s = "client" THEN ClientMain ELSE ServerMain
<1> USE SideFacts
<1>1. ~(ClientMain \/ ServerMain) => pc' = pc
  BY OthersHold DEF Next, Progress, Fault, Over
<1> QED BY <1>1, ClientPath, ServerPath

\* No signal and no timeout cuts a wait short.
NothingCutShort == Faults \cap (Side \X {"signal", "timeout"}) = {}

\* The client's request is on its way or lies before the server.
Requesting == pc["client"] = "connect_wait" /\ conn = "requested"

\* The client waits for the answer to its request, and the server accepts it only with a
\* queue pair: no connection comes or goes before both are there.
ConnInv ==
  /\ pc["client"] \in PreConnect => conn = "none"
  /\ conn = "requested" => pc["client"] = "connect_wait"
  /\ conn \in {"accepted", "established"} => pc["server"] \notin PreQp
  /\ signalled = {}

\* The client hears of nothing but its address and its route before it connects, and has
\* its route when it does.
ClientQuiet ==
  /\ pc["client"] \in {"start", "bind"} => state["client"] = IDLE /\ Calm(cmq["client"])
  /\ pc["client"] \in {"bind_wait", "bind_check"} =>
       /\ Resolving(cmq["client"])
       /\ state["client"] = ROUTE_RESOLVED => Calm(cmq["client"])
  /\ pc["client"] \in {"setup_qp", "setup_buffers", "post_recv", "connect"} \/ Requesting =>
       state["client"] = ROUTE_RESOLVED /\ Calm(cmq["client"])
  /\ pc["client"] \in PreConnect \/ Requesting =>
       Idle("client") /\ qp["client"] \in {"none", "init"}

\* The server hears of nothing but the request before it has looked at its state, so that
\* it never leaves through the return of bind_server with an id in its hands.
ServerQuiet ==
  /\ pc["server"] \in {"start", "bind", "request_wait"} =>
       state["server"] \in {IDLE, CONNECT_REQUEST}
  /\ pc["server"] = "request_check" => state["server"] = CONNECT_REQUEST
  /\ pc["server"] \in {"start", "bind", "request_wait", "request_check"} =>
       Calling(cmq["server"])
  /\ pc["server"] \in {"start", "bind"} => ~Asked(cmq["server"]) /\ NoChild
  /\ pc["server"] \in {"destroy_listener", "done"} =>
       ~Asked(cmq["server"]) /\ "child" \notin held["server"]

\* Each side has its context from its first step to its last, and no callback runs or is
\* due before or after.
ContextKept(s) ==
  /\ pc[s] \notin {"start", "done"} => "context" \in held[s]
  /\ pc[s] \in {"start", "done"} => cmq[s] = <<>> /\ cmh[s] = "idle"
  /\ <<s, "context">> \notin misuse

QuietInv ==
  /\ DepthInv
  /\ HeldInv
  /\ ConnInv
  /\ ClientQuiet
  /\ ServerQuiet
  /\ \A s \in Side : ContextKept(s)

\* The connection follows the two main threads.
LEMMA ConnStep ==
  ASSUME NothingCutShort, QuietInv, Next
  PROVE  ConnInv'
<1> USE SideFacts
<1>1. /\ TypeInv /\ HeldInv /\ ConnInv /\ ClientQuiet
      /\ pc \in [Side -> ClientLabel \cup ServerLabel]
      /\ conn \in {"none", "requested", "accepted", "established", "closed"}
      /\ signalled' \subseteq Side
  <2>1. signalled' \subseteq Side
    BY ThreadStep DEF QuietInv, HeldInv, ThreadTypeOK
  <2> QED BY <2>1 DEF QuietInv, HeldInv, TypeInv, TypeOK, ThreadTypeOK, CmTypeOK
<1>2. signalled' = {}
  <2>1. ASSUME NEW s \in Side, Signal(s)
        PROVE  FALSE
    BY <2>1 DEF Signal, NothingCutShort
  <2>2. signalled' = signalled
    BY <1>1, <2>1, ClientThread, ServerThread, OtherThread
    DEF Next, Progress, Fault, Over, vars, threadVars
  <2> QED BY <1>1, <2>2 DEF ConnInv
<1>3. Requesting => pc'["client"] = "connect_wait"
  <2> SUFFICES ASSUME Requesting, pc'["client"] # pc["client"]
               PROVE  FALSE
    BY DEF Requesting
  <2>1. state["client"] = ROUTE_RESOLVED /\ "client" \notin signalled
    BY <1>1 DEF ClientQuiet, ConnInv
  <2>2. ~(state["client"] >= CONNECTED)
    BY <2>1 DEF ROUTE_RESOLVED, CONNECTED
  <2> QED BY <1>1, <2>1, <2>2, ThreadMoves, ClientPath DEF Requesting, PreConnect
<1>4. pc'["client"] \in PreConnect => pc["client"] \in PreConnect
  BY <1>1, ThreadMoves, ClientGoes
<1>5. pc'["server"] \in PreQp => pc["server"] \in PreQp
  BY <1>1, ThreadMoves, ServerGoes
<1>6. CASE conn' = conn
  BY <1>1, <1>2, <1>3, <1>4, <1>5, <1>6 DEF ConnInv, Requesting
<1>7. CASE ServerAccept /\ conn' \in {"accepted", "closed"}
  <2>1. pc["server"] = "accept" /\ pc'["server"] \in {"accept_wait", "free_buffers"}
    BY <1>1, <1>7 DEF ServerAccept, Goto
  <2>2. pc["client"] \notin PreConnect
    BY <1>1, <2>1 DEF HeldInv, OneChild, WithChild, OneRequest, NoChild
  <2> QED BY <1>2, <1>4, <1>7, <2>1, <2>2 DEF ConnInv, PreQp
<1>8. CASE Answering /\ conn' = "closed"
  BY <1>1, <1>2, <1>4, <1>8 DEF ConnInv, Answering
<1>9. CASE conn = "accepted" /\ conn' = "established" /\ UNCHANGED pc
  BY <1>1, <1>2, <1>9 DEF ConnInv
<1>10. CASE ClientConnect
  <2>1. pc["client"] = "connect" /\ pc'["client"] \in {"connect_wait", "free_buffers"}
        /\ (pc'["client"] = "free_buffers" => conn' = conn)
    BY <1>1, <1>10 DEF ClientConnect, Goto
  <2>2. conn = "none"
    BY <1>1, <2>1 DEF ConnInv, PreConnect
  <2>3. conn' \in {"none", "requested", "closed"}
    BY <1>10, <2>2 DEF ClientConnect, ConnectRequest
  <2> QED BY <1>2, <2>1, <2>2, <2>3 DEF ConnInv, PreConnect
<1> QED BY <1>1, <1>6, <1>7, <1>8, <1>9, <1>10, ConnMoves

\* What comes into a queue while its owner stands still, and no answer comes.
LEMMA StillHears ==
  ASSUME TypeInv, Next, NEW s \in Side, pc'[s] = pc[s], ~Answering, ~CmaEvent(s)
  PROVE  \/ cmq'[s] = cmq[s]
         \/ \E event \in Stray : cmq'[s] = Append(cmq[s], event) /\ HasConnectionId(s)
         \/ /\ s = "server" /\ ClientConnect /\ Listening
            /\ cmq'[s] = Append(cmq[s], "CONNECT_REQUEST")
<1>1. pc \in [Side -> ClientLabel \cup ServerLabel]
  BY DEF TypeInv, TypeOK, ThreadTypeOK
<1>2. /\ s = "client" => ~(ClientDestroyId \/ ClientBind \/ ClientConnect)
      /\ s = "server" => ~(ServerDestroyChild \/ ServerDestroyListener)
  BY <1>1
  DEF ClientDestroyId, ClientBind, ClientConnect, ServerDestroyChild, ServerDestroyListener, Goto
<1> QED BY <1>2, Hears DEF Hearing

\* Nobody answers a client that has not asked.
LEMMA NoAnswer ==
  ASSUME QuietInv, ConnInv', pc["client"] \in PreConnect \/ (Requesting /\ Requesting')
  PROVE  ~Answering
BY DEF QuietInv, ConnInv, Answering, Requesting

\* The client's state and its events stay quiet until its request is answered.
LEMMA ClientStep ==
  ASSUME NothingCutShort, QuietInv, Next
  PROVE  ClientQuiet'
<1> USE SideFacts
<1> DEFINE Ready == {"setup_qp", "setup_buffers", "post_recv", "connect"}
           Early == {"start", "bind", "bind_wait", "bind_check"}
<1>1. /\ TypeInv /\ HeldInv /\ ConnInv /\ ClientQuiet /\ ConnInv'
      /\ pc \in [Side -> ClientLabel \cup ServerLabel] /\ cmq \in [Side -> Seq(CmEvent)]
      /\ state \in [Side -> TestState] /\ cmq["client"] \in Seq(CmEvent)
  BY ConnStep DEF QuietInv, HeldInv, TypeInv, TypeOK, ThreadTypeOK, CmTypeOK, ContextTypeOK
<1>2. pc'["client"] \in PreConnect \/ Requesting' => pc["client"] \in PreConnect \/ Requesting
  <2>1. pc'["client"] \in PreConnect => pc["client"] \in PreConnect
    BY <1>1, ThreadMoves, ClientGoes
  <2>2. ASSUME Requesting', pc["client"] \notin PreConnect
        PROVE  Requesting
    <3>1. pc["client"] = "connect_wait"
      BY <1>1, <2>2, ThreadMoves, ClientPath DEF Requesting, PreConnect
    <3>2. ~ClientConnect
      BY <3>1 DEF ClientConnect
    <3>3. conn' = conn
      BY <1>1, <2>2, <3>2, ConnMoves DEF Requesting
    <3> QED BY <2>2, <3>1, <3>3 DEF Requesting
  <2> QED BY <2>1, <2>2
<1>3. ASSUME pc'["client"] \in PreConnect \/ Requesting'
      PROVE  Idle("client")' /\ qp'["client"] \in {"none", "init"}
  <2>1. Idle("client") /\ qp["client"] \in {"none", "init"}
    BY <1>1, <1>2, <1>3 DEF ClientQuiet
  <2>2. Idle("client")'
    BY <1>1, <1>3, <2>1, IdleStays DEF Waiting, Requesting
  <2>3. qp'["client"] \in {"none", "init"}
    <3>1. conn # "accepted"
      BY <1>1, <1>2, <1>3 DEF ConnInv, Requesting
    <3> QED BY <1>1, <1>3, <2>1, <3>1, QpMoves DEF PreConnect, Requesting
  <2> QED BY <2>2, <2>3
<1>4. CASE ~(pc'["client"] \in PreConnect \/ Requesting')
  BY <1>4 DEF ClientQuiet, PreConnect, Requesting
<1>5. ASSUME pc'["client"] \in PreConnect \/ Requesting', pc'["client"] = pc["client"]
      PROVE  ClientQuiet'
  <2>1. /\ Idle("client") /\ pc["client"] # "advertise"
        /\ Requesting' => Requesting
    BY <1>1, <1>2, <1>5 DEF ClientQuiet, PreConnect, Requesting
  <2>2. ~Answering
    BY <1>1, <1>5, <2>1, NoAnswer
  <2>3. CASE CmaEvent("client")
    <3>1. CASE pc["client"] \in {"start", "bind"} \cup Ready \/ Requesting
      <4>1. Calm(cmq["client"])
        BY <1>1, <3>1 DEF ClientQuiet
      <4>2. Head(cmq["client"]) \in Stray /\ Calm(Tail(cmq["client"]))
        BY <1>1, <2>3, <4>1, CalmMoves, CmaMoves
      <4>3. cmq'["client"] = Tail(cmq["client"]) /\ state'["client"] = state["client"]
        BY <1>1, <2>3, <4>2, CmaMoves DEF Stray, StateOfEvent, CmErrors
      <4> QED BY <1>1, <1>3, <1>5, <2>1, <3>1, <4>2, <4>3 DEF ClientQuiet, Requesting
    <3>2. CASE pc["client"] \in {"bind_wait", "bind_check"}
      <4>1. Resolving(cmq["client"]) /\ cmq["client"] # <<>>
        BY <1>1, <2>3, <3>2, CmaMoves DEF ClientQuiet
      <4>2. /\ Resolving(Tail(cmq["client"]))
            /\ \/ Head(cmq["client"]) \in Stray
               \/ Head(cmq["client"]) \in Resolution /\ Calm(Tail(cmq["client"]))
        BY <1>1, <4>1, CalmMoves
      <4>3. state["client"] = ROUTE_RESOLVED => Calm(cmq["client"])
        BY <1>1, <3>2 DEF ClientQuiet
      <4>4. CASE Head(cmq["client"]) \in Stray
        <5>1. cmq'["client"] = Tail(cmq["client"]) /\ state'["client"] = state["client"]
          BY <1>1, <2>3, <4>4, CmaMoves DEF Stray, StateOfEvent, CmErrors
        <5>2. Calm(cmq["client"]) => Calm(Tail(cmq["client"]))
          BY <1>1, <4>1, CalmMoves
        <5> QED BY <1>3, <1>5, <3>2, <4>2, <4>3, <5>1, <5>2 DEF ClientQuiet, Requesting
      <4>5. CASE Head(cmq["client"]) \in Resolution /\ Calm(Tail(cmq["client"]))
        <5>1. \/ cmq'["client"] = Tail(cmq["client"])
              \/ /\ state'["client"] = ADDR_RESOLVED
                 /\ \E event \in Resolution : cmq'["client"] = Append(Tail(cmq["client"]), event)
          BY <1>1, <2>3, CmaMoves
        <5>2. Tail(cmq["client"]) \in Seq(CmEvent)
          BY <1>1, <4>1
        <5>3. \A event \in Resolution : Resolving(Append(Tail(cmq["client"]), event))
          BY <4>5, <5>2, CalmMoves
        <5>4. CASE cmq'["client"] = Tail(cmq["client"])
          BY <1>3, <1>5, <3>2, <4>2, <4>5, <5>4 DEF ClientQuiet, Requesting
        <5>5. ASSUME state'["client"] = ADDR_RESOLVED,
                     NEW event \in Resolution, cmq'["client"] = Append(Tail(cmq["client"]), event)
              PROVE  ClientQuiet'
          <6>1. Resolving(cmq'["client"]) /\ state'["client"] # ROUTE_RESOLVED
            BY <5>3, <5>5 DEF ADDR_RESOLVED, ROUTE_RESOLVED
          <6> QED BY <1>3, <1>5, <3>2, <6>1 DEF ClientQuiet, Requesting
        <5> QED BY <5>1, <5>4, <5>5
      <4> QED BY <4>2, <4>4, <4>5
    <3> QED BY <1>5, <2>1, <3>1, <3>2 DEF PreConnect
  <2>4. CASE ~CmaEvent("client")
    <3>1. state'["client"] = state["client"]
      BY <1>1, <2>1, <2>4, StateMoves
    <3>2. \/ cmq'["client"] = cmq["client"]
          \/ \E event \in Stray : cmq'["client"] = Append(cmq["client"], event)
      BY <1>1, <1>5, <2>2, <2>4, StillHears
    <3>3. /\ Calm(cmq["client"]) => Calm(cmq'["client"])
          /\ Resolving(cmq["client"]) => Resolving(cmq'["client"])
      <4>1. CASE cmq'["client"] = cmq["client"]
        BY <4>1
      <4>2. ASSUME NEW event \in Stray, cmq'["client"] = Append(cmq["client"], event)
            PROVE  /\ Calm(cmq["client"]) => Calm(cmq'["client"])
                   /\ Resolving(cmq["client"]) => Resolving(cmq'["client"])
        BY <1>1, <4>2, CalmMoves
      <4> QED BY <3>2, <4>1, <4>2
    <3> QED BY <1>1, <1>3, <1>5, <2>1, <3>1, <3>3 DEF ClientQuiet, Requesting
  <2> QED BY <2>3, <2>4
<1>6. ASSUME pc'["client"] \in PreConnect \/ Requesting', pc'["client"] # pc["client"]
      PROVE  ClientQuiet'
  <2>1. ClientMain
    BY <1>1, <1>6, ThreadMoves
  <2>2. pc["client"] \in PreConnect
    BY <1>1, <1>2, <1>6, <2>1, ClientPath DEF Requesting, PreConnect
  <2>3. ~Answering
    BY <1>1, <2>2, NoAnswer
  <2>4. state'["client"] = state["client"]
    BY <1>1, <1>6, <2>2, StateMoves, CmaMoves DEF PreConnect
  <2>5. CASE ClientBind
    <3>1. /\ pc["client"] = "bind" /\ pc'["client"] = "bind_wait"
          /\ \E event \in Resolution : cmq'["client"] = Append(cmq["client"], event)
      BY <1>1, <1>6, <2>5 DEF ClientBind, Goto, PreConnect, Requesting, Resolution
    <3>2. state["client"] = IDLE /\ Calm(cmq["client"])
      BY <1>1, <3>1 DEF ClientQuiet
    <3>3. Resolving(cmq'["client"]) /\ state'["client"] # ROUTE_RESOLVED
      BY <1>1, <2>4, <3>1, <3>2, CalmMoves DEF IDLE, ROUTE_RESOLVED
    <3> QED BY <1>3, <1>6, <3>1, <3>3 DEF ClientQuiet, Requesting
  <2>6. CASE ClientConnect
    <3>1. pc["client"] = "connect" /\ Requesting' /\ conn = "none"
      BY <1>1, <1>6, <2>2, <2>6 DEF ClientConnect, Goto, PreConnect, Requesting, ConnInv
    <3>2. cmq'["client"] = cmq["client"]
      BY <1>1, <2>6, <3>1 DEF ClientConnect, ConnectRequest, Requesting
    <3>3. state["client"] = ROUTE_RESOLVED /\ Calm(cmq["client"])
      BY <1>1, <3>1 DEF ClientQuiet
    <3> QED BY <1>3, <2>4, <3>1, <3>2, <3>3 DEF ClientQuiet, Requesting
  <2>7. CASE ~ClientBind /\ ~ClientConnect
    <3>1. cmq'["client"] = cmq["client"]
      <4>1. ~CmaEvent("client") /\ pc' # pc /\ ~ClientDestroyId
        BY <1>1, <1>6, <2>2, CmaMoves DEF ClientDestroyId, PreConnect
      <4>2. Hearing("client")
        BY <1>1, Hears
      <4> QED BY <2>3, <2>7, <4>1, <4>2 DEF Hearing
    <3>2. \/ pc["client"] = "start" /\ pc'["client"] = "bind"
          \/ pc["client"] = "bind_wait" /\ pc'["client"] = "bind_check"
          \/ /\ pc["client"] = "bind_check" /\ pc'["client"] = "setup_qp"
             /\ state["client"] = ROUTE_RESOLVED
          \/ /\ pc["client"] \in Ready
             /\ pc'["client"] \in Ready
      BY <1>1, <1>6, <2>1, <2>2, <2>7, ClientPath DEF PreConnect, Requesting
    <3>3. CASE pc["client"] = "start" /\ pc'["client"] = "bind"
      BY <1>1, <1>3, <1>6, <2>4, <3>1, <3>3 DEF ClientQuiet, Requesting
    <3>4. CASE pc["client"] = "bind_wait" /\ pc'["client"] = "bind_check"
      BY <1>1, <1>3, <1>6, <2>4, <3>1, <3>4 DEF ClientQuiet, Requesting
    <3>5. CASE \/ /\ pc["client"] = "bind_check" /\ pc'["client"] = "setup_qp"
                  /\ state["client"] = ROUTE_RESOLVED
               \/ pc["client"] \in Ready /\ pc'["client"] \in Ready
      <4>1. state["client"] = ROUTE_RESOLVED /\ Calm(cmq["client"])
        BY <1>1, <3>5 DEF ClientQuiet
      <4> QED BY <1>3, <1>6, <2>4, <3>1, <3>5, <4>1 DEF ClientQuiet, Requesting
    <3> QED BY <3>2, <3>3, <3>4, <3>5
  <2> QED BY <2>5, <2>6, <2>7
<1> QED BY <1>4, <1>5, <1>6

\* Nobody refuses a request that the server has not looked at.
LEMMA NoRefusal ==
  ASSUME NothingCutShort, QuietInv, Next,
         pc["server"] \in {"start", "bind", "request_wait", "request_check"}
  PROVE  ~Answering
<1> USE SideFacts
<1>1. TypeInv /\ ConnInv
  BY DEF QuietInv, HeldInv
<1>2. conn \notin {"accepted", "established"}
  BY <1>1 DEF ConnInv, PreQp
<1>3. ~ConnectTimeout
  BY DEF ConnectTimeout, NothingCutShort
<1>4. ~ServerAccept /\ (ClientConnect => conn # "requested")
  BY <1>1 DEF ServerAccept, ClientConnect, ConnInv
<1>5. conn = "requested" => pc["client"] # "destroy_id"
  BY <1>1 DEF ConnInv
<1> QED BY <1>1, <1>2, <1>3, <1>4, <1>5, ConnMoves DEF Answering

\* No request comes in while the server does not listen.
LEMMA NotAsked ==
  ASSUME TypeInv, Next, ~Listening, ~Asked(cmq["server"])
  PROVE  ~Asked(cmq'["server"]) /\ ~(ConnectRequested("server") /\ CmaEvent("server"))
<1> USE SideFacts
<1>1. cmq \in [Side -> Seq(CmEvent)] /\ cmq["server"] \in Seq(CmEvent)
  BY DEF TypeInv, TypeOK, CmTypeOK
<1>2. CASE ClientConnect
  <2>1. cmq'["server"] = cmq["server"]
    BY <1>1, <1>2 DEF ClientConnect, ConnectRequest
  <2> QED BY <1>1, <2>1, AskedMoves DEF ConnectRequested, CmaEvent
<1> QED BY <1>1, <1>2, RequestHeard, AskedMoves DEF ConnectRequested, CmaEvent

\* The server stays quiet until it has looked at its state, and after it has destroyed
\* the id of its connection.
LEMMA ServerStep ==
  ASSUME NothingCutShort, QuietInv, Next
  PROVE  ServerQuiet'
<1> USE SideFacts
<1> DEFINE Early == {"start", "bind", "request_wait", "request_check"}
           Ending == {"destroy_listener", "done"}
<1>1. /\ TypeInv /\ HeldInv /\ ConnInv /\ ServerQuiet /\ ClientHasNoChild /\ OneRequest
      /\ pc \in [Side -> ClientLabel \cup ServerLabel] /\ cmq \in [Side -> Seq(CmEvent)]
      /\ held \in [Side -> SUBSET Resource] /\ signalled = {}
      /\ state \in [Side -> TestState] /\ cmq["server"] \in Seq(CmEvent)
  BY DEF QuietInv, HeldInv, TypeInv, TypeOK, ThreadTypeOK, CmTypeOK, ContextTypeOK, ConnInv
<1>2. pc["server"] \in {"start", "bind"} \cup Ending => ~Listening
  <2>1. Accounted("server")
    BY <1>1 DEF HeldInv
  <2>2. pc["server"] \in {"start", "done"} => "cm_id" \notin held["server"]
    BY <2>1, Bounds DEF Accounted, Unmapped, Mapping
  <2> QED BY <2>2 DEF Listening
<1>3. ASSUME pc["server"] \in {"start", "bind"} \cup Ending
      PROVE  /\ ~Asked(cmq'["server"]) /\ "child" \notin held'["server"]
             /\ pc["server"] \in {"start", "bind"} => NoChild'
  <2>1. ~Asked(cmq["server"]) /\ "child" \notin held["server"]
    BY <1>1, <1>3 DEF ServerQuiet, NoChild
  <2>2. ~Asked(cmq'["server"]) /\ ~(ConnectRequested("server") /\ CmaEvent("server"))
    BY <1>1, <1>2, <1>3, <2>1, NotAsked
  <2>3. /\ "child" \notin held'["server"]
        /\ cmh'["server"] = "child" => cmh["server"] = "child"
    BY <1>1, <2>1, <2>2, IdMoves
  <2>4. child' = child \/ cmh["server"] = "child"
    BY <1>1, ChildMoves
  <2> QED BY <1>1, <2>2, <2>3, <2>4 DEF ServerQuiet, NoChild
<1>4. pc["server"] \in Early => Idle("server")
  <2> SUFFICES ASSUME pc["server"] \in Early
               PROVE  Idle("server")
    OBVIOUS
  <2>1. Empty(Sizes("server"))
    BY DEF QuietInv, DepthInv, DepthOf, PreRecv
  <2>2. Len(sq["server"]) = 0 /\ Len(cqe["server"]) = 0 /\ cqh["server"] # "repost"
    BY <2>1 DEF Empty, Sizes
  <2>3. sq["server"] \in Seq(Wr) /\ cqe["server"] \in Seq(Wc)
    BY <1>1 DEF TypeInv, TypeOK, QpTypeOK, CqTypeOK
  <2> QED BY <2>2, <2>3 DEF Idle
<1>5. pc'["server"] # pc["server"] => ServerMain /\ ~CmaEvent("server")
  BY <1>1, ThreadMoves, CmaMoves
<1>6. ASSUME pc["server"] \in Early, ~CmaEvent("server")
      PROVE  state'["server"] = state["server"] /\ Calling(cmq'["server"])
  <2>1. ~Answering
    BY <1>6, NoRefusal
  <2>2. Calling(cmq["server"])
    BY <1>1, <1>6 DEF ServerQuiet
  <2>3. state'["server"] = state["server"]
    BY <1>1, <1>4, <1>6, StateMoves
  <2>4. ~ServerDestroyChild /\ ~ServerDestroyListener
    BY <1>6 DEF ServerDestroyChild, ServerDestroyListener
  <2>5. \/ cmq'["server"] = cmq["server"]
        \/ \E event \in Stray : cmq'["server"] = Append(cmq["server"], event)
        \/ cmq'["server"] = Append(cmq["server"], "CONNECT_REQUEST")
    BY <1>1, <1>6, <2>1, <2>4, Hears DEF Hearing
  <2>6. ASSUME NEW event \in Stray, cmq'["server"] = Append(cmq["server"], event)
        PROVE  Calling(cmq'["server"])
    BY <1>1, <2>2, <2>6, CalmMoves
  <2>7. Calling(Append(cmq["server"], "CONNECT_REQUEST"))
    BY <1>1, <2>2, CalmMoves
  <2> QED BY <2>2, <2>3, <2>5, <2>6, <2>7
<1>7. ASSUME pc["server"] \in Early, CmaEvent("server")
      PROVE  /\ state'["server"] \in {state["server"], CONNECT_REQUEST}
             /\ Calling(cmq'["server"]) /\ pc'["server"] = pc["server"]
  <2>1. Calling(cmq["server"]) /\ cmq["server"] # <<>> /\ pc' = pc
    BY <1>1, <1>7, CmaMoves DEF ServerQuiet
  <2>2. Head(cmq["server"]) \in Stray \cup {"CONNECT_REQUEST"} /\ Calling(Tail(cmq["server"]))
    BY <1>1, <2>1, CalmMoves
  <2>3. /\ cmq'["server"] = Tail(cmq["server"])
        /\ state'["server"] \in {state["server"], CONNECT_REQUEST}
    BY <1>1, <1>7, <2>2, CmaMoves DEF Stray, StateOfEvent, CmErrors
  <2> QED BY <2>1, <2>2, <2>3
<1>8. pc'["server"] \in Early => pc["server"] \in Early
  BY <1>1, <1>5, ServerPath, SideFacts DEF PreQp, WithChild
<1>9. ASSUME pc'["server"] \in {"start", "bind", "request_wait"}
      PROVE  state'["server"] \in {IDLE, CONNECT_REQUEST}
  <2>1. pc["server"] \in {"start", "bind", "request_wait"}
    BY <1>1, <1>5, <1>9, ServerPath, SideFacts DEF PreQp, WithChild
  <2> QED BY <1>1, <1>6, <1>7, <2>1 DEF ServerQuiet
<1>10. ASSUME pc'["server"] = "request_check"
       PROVE  state'["server"] = CONNECT_REQUEST
  <2>1. CASE pc["server"] = "request_check"
    BY <1>1, <1>6, <1>7, <2>1 DEF ServerQuiet
  <2>2. CASE pc["server"] # "request_check"
    <3>1. pc["server"] = "request_wait" /\ state["server"] >= CONNECT_REQUEST
      BY <1>1, <1>5, <1>10, <2>2, ServerPath, SideFacts DEF PreQp, WithChild
    <3>2. state["server"] = CONNECT_REQUEST
      BY <1>1, <3>1 DEF ServerQuiet, IDLE, CONNECT_REQUEST
    <3> QED BY <1>5, <1>6, <1>10, <2>2, <3>1, <3>2
  <2> QED BY <2>1, <2>2
<1>11. pc'["server"] \in {"start", "bind"} => pc["server"] \in {"start", "bind"}
  BY <1>1, <1>5, ServerPath, SideFacts DEF PreQp, WithChild
<1>12. ASSUME pc'["server"] \in Ending
       PROVE  ~Asked(cmq'["server"]) /\ "child" \notin held'["server"]
  <2>1. CASE pc["server"] \in {"start", "bind"} \cup Ending
    BY <1>3, <2>1
  <2>2. CASE pc["server"] \notin {"start", "bind"} \cup Ending
    <3>1. \/ pc["server"] = "request_check" /\ state["server"] # CONNECT_REQUEST
          \/ ServerDestroyChild
      BY <1>1, <1>5, <1>12, <2>2, ServerPath, SideFacts DEF PreQp, WithChild
    <3>2. ServerDestroyChild
      BY <1>1, <3>1 DEF ServerQuiet
    <3>3. cmq'["server"] = <<>> /\ "child" \notin held'["server"]
      BY <1>1, <3>2 DEF ServerDestroyChild, DestroyConnectionId, Released, Peer
    <3> QED BY <1>1, <3>3, AskedMoves
  <2> QED BY <2>1, <2>2
<1> QED BY <1>3, <1>6, <1>7, <1>8, <1>9, <1>10, <1>11, <1>12 DEF ServerQuiet

\* The context is freed by the last step of each program only.
LEMMA ContextFreed ==
  ASSUME TypeInv, Next, NEW s \in Side, "context" \in held[s], "context" \notin held'[s]
  PROVE  IF s = "client" THEN ClientDestroyId ELSE ServerDestroyListener
<1> USE SideFacts
<1>1. held \in [Side -> SUBSET Resource]
  BY DEF TypeInv, TypeOK, ContextTypeOK
<1>2. ASSUME NEW m \in Side, NEW what, "context" \notin what,
             Holding(m, what) \/ Released(m, what) \/ UNCHANGED held
      PROVE  FALSE
  BY <1>1, <1>2 DEF Holding, Released
<1>3. CASE ClientMain \/ ServerMain
  <2>1. CASE \E m \in Side : \/ FreeBuffers(m) \/ FreeQp(m)
                             \/ \E next : FreeCq(m, next)
    BY <1>2, <2>1 DEF FreeBuffers, FreeQp, FreeCq, Mapping, Memory
  <2>2. CASE ServerDestroyChild
    BY <1>2, <2>2 DEF ServerDestroyChild
  <2>3. CASE ClientDestroyId
    <3>1. s = "client"
      BY <1>1, <2>3 DEF ClientDestroyId, Released
    <3> QED BY <2>3, <3>1
  <2>4. CASE ServerDestroyListener
    <3>1. s = "server"
      BY <1>1, <2>4 DEF ServerDestroyListener, Released
    <3> QED BY <2>4, <3>1
  <2>5. CASE UNCHANGED held \/ \E m \in Side, what \in SUBSET Resource : Holding(m, what)
    BY <1>1, <2>5 DEF Holding
  <2>6. \/ UNCHANGED held \/ \E m \in Side, what \in SUBSET Resource : Holding(m, what)
        \/ ClientDestroyId \/ ServerDestroyListener \/ ServerDestroyChild
        \/ \E m \in Side : \/ FreeBuffers(m) \/ FreeQp(m)
                           \/ \E next : FreeCq(m, next)
    <3>1. \A m \in Side : /\ BufferResources(m) \subseteq Resource
                          /\ BufferResources(m) \ {"dma_mr"} \subseteq Resource
                          /\ \A left \in LeftByBail(m) : left \subseteq Resource
      BY DEF BufferResources, LeftByBail, Resource, Mapping, Memory, VerbsObject
    <3>2. /\ {"context", "cm_id"} \in SUBSET Resource /\ {"context"} \in SUBSET Resource
          /\ {"pd", "cq", "qp"} \in SUBSET Resource
          /\ \A left \in {"pd", "cq"} : {left} \in SUBSET Resource
      BY DEF Resource, VerbsObject
    <3>3. ASSUME NEW m \in Side, SetupBuffers(m)
          PROVE  UNCHANGED held \/ \E what \in SUBSET Resource : Holding(m, what)
      BY <3>1, <3>3 DEF SetupBuffers
    <3>4. CASE ClientStart \/ ClientSetupQp
      BY <3>2, <3>4 DEF ClientStart, ClientSetupQp, QpSetUp
    <3>5. CASE ServerStart \/ ServerSetupQp
      BY <3>2, <3>5 DEF ServerStart, ServerSetupQp, QpSetUp
    <3>6. CASE ClientMain
      BY <3>3, <3>4, <3>6
      DEF ClientMain, ClientBind, ClientBindWait, ClientBindCheck, PostFirstRecv,
          ClientConnect, ClientConnectWait, ClientConnectCheck, ClientAdvertise, ClientSend,
          ClientGoAheadWait, Disconnect, WaitEvent, contextVars
    <3>7. CASE ServerMain
      BY <3>3, <3>5, <3>7
      DEF ServerMain, ServerBind, ServerRequestWait, ServerRequestCheck, PostFirstRecv,
          ServerAccept, ServerAcceptWait, ServerAcceptCheck, ServerPingWait, ServerRead,
          ServerReadWait, ServerWrite, ServerWriteWait, ServerNextRound, ServerGoAhead,
          Disconnect, WaitEvent, contextVars
    <3> QED BY <1>3, <3>6, <3>7
  <2> QED BY <2>1, <2>2, <2>3, <2>4, <2>5, <2>6
<1>4. CASE held' = held \/ \E x \in Side : held' = [held EXCEPT ![x] = @ \cup {"child"}]
  BY <1>1, <1>4
<1> QED BY <1>3, <1>4, OthersHold DEF Next, Progress, Fault, Over

\* The callback of the connection events, and its notes of a freed context.
LEMMA CmhMoves ==
  ASSUME TypeInv, Next, NEW s \in Side
  PROVE  /\ cmh'[s] = cmh[s] \/ CmaEvent(s) \/ CmaChild(s) \/ CmaWake(s)
         /\ <<s, "context">> \in misuse' =>
              \/ <<s, "context">> \in misuse
              \/ (CmaEvent(s) \/ CmaWake(s)) /\ "context" \notin held[s]
<1> USE SideFacts
<1>1. cmh \in [Side -> CmPhase]
  BY DEF TypeInv, TypeOK, CmTypeOK
<1>2. CASE ClientMain \/ ServerMain
  <2>1. cmh' = cmh
    BY <1>2
    DEF ClientMain, ClientStart, ClientBind, ClientBindWait, ClientBindCheck, ClientSetupQp,
        SetupBuffers, PostFirstRecv, ClientConnect, ClientConnectWait, ClientConnectCheck,
        ClientAdvertise, ClientSend, ClientGoAheadWait, Disconnect, FreeBuffers, FreeQp,
        FreeCq, ClientDestroyId, ServerMain, ServerStart, ServerBind, ServerRequestWait,
        ServerRequestCheck, ServerSetupQp, ServerAccept, ServerAcceptWait,
        ServerAcceptCheck, ServerPingWait, ServerRead, ServerReadWait, ServerWrite,
        ServerWriteWait, ServerNextRound, ServerGoAhead, ServerDestroyChild,
        ServerDestroyListener, WaitEvent, cmVars
  <2>2. CASE ServerSetupQp
    BY <2>1, <2>2 DEF ServerSetupQp
  <2>3. misuse' = misuse \/ ServerSetupQp
    BY <1>2
    DEF ClientMain, ClientStart, ClientBind, ClientBindWait, ClientBindCheck, ClientSetupQp,
        SetupBuffers, PostFirstRecv, ClientConnect, ClientConnectWait, ClientConnectCheck,
        ClientAdvertise, ClientSend, ClientGoAheadWait, Disconnect, FreeBuffers, FreeQp,
        FreeCq, ClientDestroyId, ServerMain, ServerStart, ServerBind, ServerRequestWait,
        ServerRequestCheck, ServerAccept, ServerAcceptWait,
        ServerAcceptCheck, ServerPingWait, ServerRead, ServerReadWait, ServerWrite,
        ServerWriteWait, ServerNextRound, ServerGoAhead, ServerDestroyChild,
        ServerDestroyListener, WaitEvent
  <2> QED BY <2>1, <2>2, <2>3
<1>3. ASSUME NEW x \in Side, megaVM_cma_event_handler(x)
      PROVE  /\ cmh'[s] = cmh[s] \/ CmaEvent(s) \/ CmaChild(s) \/ CmaWake(s)
             /\ <<s, "context">> \in misuse' =>
                  \/ <<s, "context">> \in misuse
                  \/ (CmaEvent(s) \/ CmaWake(s)) /\ "context" \notin held[s]
  <2>1. \/ UNCHANGED misuse
        \/ NoteFreedContext(x) /\ (CmaEvent(x) \/ CmaWake(x))
    BY <1>3 DEF megaVM_cma_event_handler, CmaEvent, CmaChild, CmaWake
  <2>2. \/ cmh' = cmh
        \/ \E phase : cmh' = [cmh EXCEPT ![x] = phase]
    BY <1>3
    DEF megaVM_cma_event_handler, CmaEvent, CmaChild, CmaWake, AddrResolved,
        ConnectRequested, StateAndWake, DeviceRemovalLogged
  <2>3. x # s => cmh'[s] = cmh[s]
    BY <1>1, <2>2
  <2> QED BY <1>3, <2>1, <2>3 DEF NoteFreedContext, megaVM_cma_event_handler
<1>4. ASSUME NEW x \in Side, megaVM_cq_event_handler(x)
      PROVE  cmh' = cmh /\ \/ misuse' = misuse
                           \/ misuse' = misuse \cup {<<x, "qp">>}
  BY <1>4, OtherCm
  DEF megaVM_cq_event_handler, CqEvent, CqArm, CqPollEmpty, CqPoll, CqRepost, CqWake, cmVars
<1>5. ASSUME NEW x \in Side,
             \/ Adapter(x) \/ StrayEvent(x) \/ Signal(x)
             \/ ConnectionEstablished \/ ConnectTimeout \/ UNCHANGED vars
      PROVE  UNCHANGED <<cmh, misuse>>
  BY <1>5
  DEF Adapter, Transmit, TransmitFails, ReadArrives, CompleteSend, StrayEvent, Signal,
      ConnectionEstablished, ConnectTimeout, vars, cmVars
<1> QED BY <1>2, <1>3, <1>4, <1>5 DEF Next, Progress, Fault, Over, Callbacks

\* No event reaches a side that has no id or that has given it back.
LEMMA NothingHeard ==
  ASSUME NothingCutShort, QuietInv, Next, NEW s \in Side,
         pc[s] \in {"start", "done"}
  PROVE  cmq'[s] = <<>> /\ cmh'[s] = "idle"
<1> USE SideFacts
<1>1. /\ TypeInv /\ cmq[s] = <<>> /\ cmh[s] = "idle" /\ Accounted(s)
      /\ ServerQuiet /\ ClientHasNoChild
  BY DEF QuietInv, HeldInv, ContextKept
<1>2. "cm_id" \notin held[s]
  BY <1>1, Bounds DEF Accounted, Unmapped, Mapping
<1>3. s = "server" => "child" \notin held[s] /\ ~Asked(cmq[s])
  BY <1>1 DEF ServerQuiet, NoChild
<1>4. ~HasConnectionId(s)
  BY <1>2, <1>3 DEF HasConnectionId, Asked, Has
<1>5. ~CmaEvent(s) /\ ~CmaChild(s) /\ ~CmaWake(s)
  BY <1>1 DEF CmaEvent, CmaChild, CmaWake
<1>6. s = "client" => ~ClientBind /\ ~ClientConnect
  BY DEF ClientBind, ClientConnect
<1>7. s = "server" => ~Listening
  BY <1>2 DEF Listening
<1>8. cmq'[s] = <<>>
  BY <1>1, <1>4, <1>5, <1>6, <1>7, Hears DEF Hearing
<1> QED BY <1>1, <1>5, <1>8, CmhMoves

\* Each side keeps its context while anything can come.
LEMMA ContextKeptStep ==
  ASSUME NothingCutShort, QuietInv, Next, NEW s \in Side
  PROVE  ContextKept(s)'
<1> USE SideFacts
<1>1. /\ TypeInv /\ ContextKept(s) /\ ServerQuiet
      /\ pc \in [Side -> ClientLabel \cup ServerLabel] /\ held \in [Side -> SUBSET Resource]
      /\ cmq \in [Side -> Seq(CmEvent)] /\ cmh \in [Side -> CmPhase]
  BY DEF QuietInv, HeldInv, TypeInv, TypeOK, ThreadTypeOK, ContextTypeOK, CmTypeOK
<1>2. /\ pc[s] = "done" => pc'[s] = "done"
      /\ pc'[s] = "start" => pc[s] = "start"
      /\ pc[s] = "start" /\ pc'[s] # "start" =>
           IF s = "client" THEN ClientStart ELSE ServerStart
      /\ pc[s] \notin {"start", "done"} /\ pc'[s] = "done" =>
           IF s = "client" THEN ClientDestroyId ELSE ServerDestroyListener
  <2>1. CASE pc'[s] = pc[s]
    BY <2>1
  <2>2. CASE pc'[s] # pc[s] /\ s = "client"
    <3>1. ClientMain
      BY <1>1, <2>2, ThreadMoves
    <3> QED BY <1>1, <2>2, <3>1, ClientPath DEF PreConnect
  <2>3. CASE pc'[s] # pc[s] /\ s = "server"
    <3>1. ServerMain
      BY <1>1, <2>3, ThreadMoves
    <3> QED BY <1>1, <2>3, <3>1, ServerPath DEF PreQp, WithChild
  <2> QED BY <2>1, <2>2, <2>3
<1>3. ASSUME pc'[s] \notin {"start", "done"}
      PROVE  "context" \in held'[s]
  <2>1. CASE pc[s] = "start"
    BY <1>1, <1>2, <1>3, <2>1 DEF ClientStart, ServerStart, Holding, Goto
  <2>2. CASE pc[s] # "start"
    <3>1. "context" \in held[s]
      BY <1>1, <1>2, <1>3, <2>2 DEF ContextKept
    <3>2. /\ s = "client" => ~ClientDestroyId
          /\ s = "server" => ~ServerDestroyListener
      BY <1>1, <1>3 DEF ClientDestroyId, ServerDestroyListener, Goto
    <3> QED BY <1>1, <3>1, <3>2, ContextFreed
  <2> QED BY <2>1, <2>2
<1>4. ASSUME pc'[s] \in {"start", "done"}
      PROVE  cmq'[s] = <<>> /\ cmh'[s] = "idle"
  <2>1. CASE pc[s] \in {"start", "done"}
    BY <2>1, NothingHeard
  <2>2. CASE pc[s] \notin {"start", "done"}
    <3>1. IF s = "client" THEN ClientDestroyId ELSE ServerDestroyListener
      BY <1>2, <1>4, <2>2
    <3>2. CASE s = "client"
      BY <1>1, <3>1, <3>2 DEF ClientDestroyId, DestroyConnectionId, Peer
    <3>3. CASE s = "server"
      <4>1. "child" \notin held["server"]
        BY <1>1, <3>1, <3>3 DEF ServerDestroyListener, ServerQuiet
      <4> QED BY <1>1, <3>1, <3>3, <4>1 DEF ServerDestroyListener
    <3> QED BY <3>2, <3>3
  <2> QED BY <2>1, <2>2
<1>5. <<s, "context">> \notin misuse'
  <2>1. CmaEvent(s) \/ CmaWake(s) => "context" \in held[s]
    BY <1>1 DEF ContextKept, CmaEvent, CmaWake
  <2> QED BY <1>1, <2>1, CmhMoves DEF ContextKept
<1> QED BY <1>3, <1>4, <1>5 DEF ContextKept

\* QuietInv is inductive where nothing cuts a wait short.
THEOREM QuietInvariance ==
  ASSUME NothingCutShort
  PROVE  Spec => []QuietInv
<1>1. Init => ConnInv /\ ClientQuiet /\ ServerQuiet /\ \A s \in Side : ContextKept(s)
  <2> SUFFICES ASSUME Init
               PROVE  ConnInv /\ ClientQuiet /\ ServerQuiet /\ \A s \in Side : ContextKept(s)
    OBVIOUS
  <2> USE SideFacts DEF Init, InitContext
  <2>1. Calm(<<>>) /\ Calling(<<>>) /\ ~Asked(<<>>)
    <3>1. <<>> \in Seq(CmEvent)
      OBVIOUS
    <3> QED BY <3>1, CalmMoves, AskedMoves
  <2>2. ConnInv
    BY DEF ConnInv
  <2>3. Idle("client") /\ ~Requesting
    BY DEF Idle, Requesting
  <2>4. ClientQuiet
    BY <2>1, <2>3 DEF ClientQuiet
  <2>5. ServerQuiet
    BY <2>1 DEF ServerQuiet, NoChild
  <2>6. \A s \in Side : ContextKept(s)
    BY DEF ContextKept
  <2> QED BY <2>2, <2>4, <2>5, <2>6
<1>2. QuietInv /\ [Next]_vars /\ DepthInv' /\ HeldInv' => QuietInv'
  <2>1. CASE UNCHANGED vars
    BY <2>1
    DEF QuietInv, ConnInv, ClientQuiet, ServerQuiet, ContextKept, NoChild, Idle, Requesting,
        Calm, Calling, Resolving, Has, Once, Asked, vars, threadVars, contextVars, cmVars,
        cqVars, qpVars
  <2>2. CASE Next
    BY <2>2, ConnStep, ClientStep, ServerStep, ContextKeptStep DEF QuietInv
  <2> QED BY <2>1, <2>2
<1>3. /\ DepthInv /\ HeldInv /\ ConnInv /\ ClientQuiet /\ ServerQuiet
      /\ \A s \in Side : ContextKept(s)
      => QuietInv
  BY DEF QuietInv
<1> QED BY <1>1, <1>2, <1>3, DepthInvariance, HeldInvariance, PTL DEF Spec

\* Where no signal and no timeout cuts a wait short, no callback runs on a freed context,
\* in whatever order events, refusals and the two programs' err labels come.
THEOREM ContextOutlives ==
  ASSUME NothingCutShort
  PROVE  Spec => []ContextOutlivesCallbacks
<1>1. QuietInv => ContextOutlivesCallbacks
  BY DEF QuietInv, ContextKept, ContextOutlivesCallbacks
<1> QED BY <1>1, QuietInvariance, PTL

\* Where nothing fails to be allocated either, both programs give back all that they
\* allocated, through whichever err label a failed, rejected or broken connection takes
\* them out.
THEOREM LeavesNothing ==
  ASSUME NothingCutShort, Faults \cap (Side \X {"setup"}) = {}
  PROVE  Spec => []NothingLeaked
<1>1. QuietInv => NothingLeaked
  <2> SUFFICES ASSUME QuietInv, NEW s \in Side, pc[s] = "done"
               PROVE  held[s] = {}
    BY DEF NothingLeaked
  <2>1. held[s] \subseteq {"child"} \cup Unmapped(s)
    BY Bounds DEF QuietInv, HeldInv, Accounted
  <2>2. Unmapped(s) = {}
    BY DEF Unmapped
  <2>3. "child" \notin held[s]
    BY SideFacts DEF QuietInv, HeldInv, ClientHasNoChild, ServerQuiet
  <2> QED BY <2>1, <2>2, <2>3
<1> QED BY <1>1, QuietInvariance, PTL

-----------------------------------------------------------------------------
(* What enters the completion queues, and what leaves the send queues.     *)

\* Side s posts a request with operation op, from the one place that does.
Posts(s, op) ==
  \/ s = "client" /\ op = "SEND" /\ ClientSend
  \/ s = "server" /\ \/ op = "READ" /\ ServerRead
                     \/ op = "WRITE" /\ ServerWrite
                     \/ op = "SEND" /\ ServerGoAhead

\* The completions q enter the queue of s, which raises its event if it is armed.
Enter(s, q) ==
  /\ cqe'[s] = cqe[s] \o q
  /\ cqh'[s] = cqh[s]
  /\ s \in armed' <=> s \in armed /\ q = <<>>
  /\ s \in cqevent' <=> s \in cqevent \/ (s \in armed /\ q # <<>>)

\* Where completions come from: the queue pair goes to the error state, the oldest
\* request is done, a post is flushed at once, or the other side's message is taken.
Source(s, q) ==
  \/ q = <<>>
  \/ /\ q = Flushed(s, 0)
     /\ \/ pc[s] \in {"accept", "disconnect"} /\ pc'[s] = "free_buffers"
        \/ qp[s] = "rts" /\ \E k \in 1 .. Len(sq[Peer(s)]) : TransmitFails(Peer(s), k)
  \/ \E k \in 1 .. Len(sq[s]) : TransmitFails(s, k) /\ q = Flushed(s, k)
  \/ /\ sq[s] # <<>> /\ Head(sq[s]).phase = "done"
     /\ q = <<WcOf(Head(sq[s]).op, "ok", NoBuffer)>>
  \/ /\ qp[s] = "err"
     /\ \/ pc[s] = "post_recv" /\ q = <<WcOf("RECV", "flush", NoBuffer)>>
        \/ \E op \in Operation : Posts(s, op) /\ q = <<WcOf(op, "flush", NoBuffer)>>
  \/ /\ qp[s] = "rts"
     /\ \E k \in 1 .. Len(sq[Peer(s)]) :
          /\ Transmit(Peer(s), k) /\ sq[Peer(s)][k].op = "SEND"
          /\ q = <<WcOf("RECV", "ok", sq[Peer(s)][k].buf)>>

\* One side's completions enter its queue and nothing enters the other's.
LEMMA OnlyEnter ==
  ASSUME TypeOK, NEW m \in Side, NEW q \in Seq(Wc), AddCompletions(Only(m, q)), cqh' = cqh,
         NEW s \in Side
  PROVE  IF s = m THEN Enter(s, q) ELSE Enter(s, <<>>)
<1>1. Only(m, q)[s] = IF s = m THEN q ELSE <<>>
  BY DEF Only, NoCompletion
<1>2. CASE s = m
  BY <1>1, <1>2 DEF AddCompletions, Enter
<1>3. CASE s # m
  BY <1>1, <1>3 DEF AddCompletions, Enter
<1> QED BY <1>2, <1>3

\* A queue that nothing enters.
LEMMA NoneEnter ==
  ASSUME TypeOK, NEW s \in Side, UNCHANGED <<cqe, armed, cqevent>>, cqh'[s] = cqh[s]
  PROVE  Enter(s, <<>>) /\ Source(s, <<>>)
<1>1. cqe[s] \o <<>> = cqe[s]
  BY DEF TypeOK, CqTypeOK
<1> QED BY <1>1 DEF Enter, Source

\* The callback of the other side.
LEMMA PeerCallback ==
  ASSUME TypeOK, NEW s \in Side, NEW x \in Side, x # s, megaVM_cq_event_handler(x)
  PROVE  Enter(s, <<>>)
<1>1. /\ cqe \in [Side -> Seq(Wc)] /\ cqh \in [Side -> CqPhase]
      /\ cqe[s] \o <<>> = cqe[s]
  BY DEF TypeOK, CqTypeOK
<1>2. \/ cqh' = cqh
      \/ \E phase : cqh' = [cqh EXCEPT ![x] = phase]
  BY DEF megaVM_cq_event_handler, CqEvent, CqArm, CqPollEmpty, CqPoll, CqRepost, CqWake, CqGoto
<1>3. cqh'[s] = cqh[s]
  BY <1>1, <1>2
<1>4. CASE CqRepost(x) /\ PostRecv(x)
  <2>1. CASE qp[x] = "err"
    <3>1. AddCompletions(Only(x, <<WcOf("RECV", "flush", NoBuffer)>>))
      BY <1>4, <2>1 DEF PostRecv
    <3>2. Only(x, <<WcOf("RECV", "flush", NoBuffer)>>)[s] = <<>>
      BY DEF Only, NoCompletion
    <3> QED BY <1>3, <3>1, <3>2 DEF AddCompletions, Enter
  <2>2. CASE qp[x] # "err"
    BY <1>1, <1>3, <1>4, <2>2 DEF PostRecv, Enter
  <2> QED BY <2>1, <2>2
<1>5. CASE ~(CqRepost(x) /\ PostRecv(x))
  <2>1. /\ cqe'[s] = cqe[s]
        /\ s \in armed' <=> s \in armed
        /\ s \in cqevent' <=> s \in cqevent
    BY <1>1, <1>5
    DEF megaVM_cq_event_handler, CqEvent, CqArm, CqPollEmpty, CqPoll, CqRepost, CqWake
  <2> QED BY <1>1, <1>3, <2>1 DEF Enter
<1> QED BY <1>4, <1>5

\* Posting a request.
LEMMA SendEnters ==
  ASSUME TypeOK, NEW m \in Side, NEW op \in Operation, NEW buf, PostSend(m, op, buf),
         Posts(m, op), cqh' = cqh, NEW s \in Side
  PROVE  \E q \in Seq(Wc) : Source(s, q) /\ Enter(s, q)
<1>0. <<>> \in Seq(Wc)
  OBVIOUS
<1>1. CASE UNCHANGED <<cqe, armed, cqevent>>
  BY <1>0, <1>1, NoneEnter
<1>2. CASE qp[m] = "err" /\ AddCompletions(Only(m, <<WcOf(op, "flush", NoBuffer)>>))
  <2>1. <<WcOf(op, "flush", NoBuffer)>> \in Seq(Wc)
    BY WcOfType
  <2>2. Source(m, <<WcOf(op, "flush", NoBuffer)>>) /\ Source(s, <<>>)
    BY <1>2 DEF Source
  <2>3. IF s = m THEN Enter(s, <<WcOf(op, "flush", NoBuffer)>>) ELSE Enter(s, <<>>)
    BY <1>2, <2>1, OnlyEnter
  <2> QED BY <1>0, <2>1, <2>2, <2>3
<1> QED BY <1>1, <1>2 DEF PostSend

\* Posting the first receive.
LEMMA RecvEnters ==
  ASSUME TypeOK, NEW m \in Side, PostRecv(m), pc[m] = "post_recv", cqh' = cqh, NEW s \in Side
  PROVE  \E q \in Seq(Wc) : Source(s, q) /\ Enter(s, q)
<1>0. <<>> \in Seq(Wc)
  OBVIOUS
<1>1. CASE UNCHANGED <<cqe, armed, cqevent>>
  BY <1>0, <1>1, NoneEnter
<1>2. CASE qp[m] = "err" /\ AddCompletions(Only(m, <<WcOf("RECV", "flush", NoBuffer)>>))
  <2>1. <<WcOf("RECV", "flush", NoBuffer)>> \in Seq(Wc)
    BY WcOfType
  <2>2. Source(m, <<WcOf("RECV", "flush", NoBuffer)>>) /\ Source(s, <<>>)
    BY <1>2 DEF Source
  <2>3. IF s = m THEN Enter(s, <<WcOf("RECV", "flush", NoBuffer)>>) ELSE Enter(s, <<>>)
    BY <1>2, <2>1, OnlyEnter
  <2> QED BY <1>0, <2>1, <2>2, <2>3
<1> QED BY <1>1, <1>2 DEF PostRecv

\* Taking a queue pair down.
LEMMA DownEnters ==
  ASSUME TypeOK, NEW m \in Side, pc[m] \in {"accept", "disconnect"}, pc'[m] = "free_buffers",
         QpError({m}, Only(m, Flushed(m, 0))), cqh' = cqh, NEW s \in Side
  PROVE  \E q \in Seq(Wc) : Source(s, q) /\ Enter(s, q)
<1>0. <<>> \in Seq(Wc)
  OBVIOUS
<1>1. Flushed(m, 0) \in Seq(Wc)
  BY FlushedType DEF TypeOK
<1>2. Source(m, Flushed(m, 0)) /\ Source(s, <<>>)
  BY DEF Source
<1>3. IF s = m THEN Enter(s, Flushed(m, 0)) ELSE Enter(s, <<>>)
  BY <1>1, OnlyEnter DEF QpError
<1> QED BY <1>0, <1>1, <1>2, <1>3

\* The adapters.
LEMMA AdapterEnters ==
  ASSUME TypeOK, NEW x \in Side, Adapter(x), NEW s \in Side
  PROVE  \E q \in Seq(Wc) : Source(s, q) /\ Enter(s, q)
<1> USE SideFacts
<1>0. <<>> \in Seq(Wc) /\ Source(s, <<>>) /\ QpTypeOK
  BY DEF TypeOK, Source
<1>1. cqh' = cqh
  BY DEF Adapter, Transmit, TransmitFails, ReadArrives, CompleteSend, cqVars
<1>2. CASE UNCHANGED <<cqe, armed, cqevent>>
  BY <1>0, <1>1, <1>2, NoneEnter
<1>3. ASSUME NEW k \in 1 .. Len(sq[x]), Transmit(x, k)
      PROVE  \E q \in Seq(Wc) : Source(s, q) /\ Enter(s, q)
  <2>1. CASE /\ sq[x][k].op = "SEND"
             /\ AddCompletions(Only(Peer(x), <<WcOf("RECV", "ok", sq[x][k].buf)>>))
    <3>1. sq[x][k].buf \in Buffer \cup {NoBuffer}
      BY <1>0, SqEntryType
    <3>2. <<WcOf("RECV", "ok", sq[x][k].buf)>> \in Seq(Wc)
      BY <3>1, WcOfType
    <3>3. IF s = Peer(x) THEN Enter(s, <<WcOf("RECV", "ok", sq[x][k].buf)>>) ELSE Enter(s, <<>>)
      BY <1>1, <2>1, <3>2, OnlyEnter
    <3>4. qp[Peer(x)] = "rts"
      BY <1>3 DEF Transmit, Undeliverable
    <3>5. CASE s = Peer(x)
      <4>1. Peer(s) = x
        BY <3>5 DEF Peer, Side
      <4>2. Source(s, <<WcOf("RECV", "ok", sq[x][k].buf)>>)
        BY <1>3, <2>1, <3>4, <3>5, <4>1 DEF Source
      <4> QED BY <3>2, <3>3, <3>5, <4>2
    <3> QED BY <1>0, <3>3, <3>5
  <2> QED BY <1>2, <1>3, <2>1 DEF Transmit
<1>4. ASSUME NEW k \in 1 .. Len(sq[x]), TransmitFails(x, k)
      PROVE  \E q \in Seq(Wc) : Source(s, q) /\ Enter(s, q)
  <2> DEFINE refused == AccessRefused(x, sq[x][k])
             lost == [NoCompletion EXCEPT ![x] = Flushed(x, k),
                        ![Peer(x)] = IF refused THEN Flushed(Peer(x), 0) ELSE <<>>]
  <2>1. AddCompletions(lost)
    BY <1>4 DEF TransmitFails, QpError
  <2>2. /\ lost[x] = Flushed(x, k)
        /\ lost[Peer(x)] = IF refused THEN Flushed(Peer(x), 0) ELSE <<>>
    BY DEF NoCompletion
  <2>3. Enter(s, lost[s])
    BY <1>1, <2>1 DEF AddCompletions, Enter
  <2>4. /\ qp[x] = "rts"
        /\ refused => qp[Peer(x)] = "rts"
    BY <1>4 DEF TransmitFails, MayGoOut, AccessRefused
  <2>5. k \in Nat /\ Flushed(x, k) \in Seq(Wc) /\ Flushed(Peer(x), 0) \in Seq(Wc)
    BY <1>0, FlushedType
  <2> HIDE DEF refused, lost
  <2>6. CASE s = x
    <3>1. Source(s, Flushed(s, k))
      BY <1>4, <2>4, <2>6 DEF Source
    <3> QED BY <2>2, <2>3, <2>5, <2>6, <3>1
  <2>7. CASE s = Peer(x) /\ refused
    <3>1. Source(s, Flushed(s, 0))
      <4>1. Peer(s) = x
        BY <2>7 DEF Peer, Side
      <4> QED BY <1>4, <2>4, <2>7, <4>1 DEF Source
    <3> QED BY <2>2, <2>3, <2>5, <2>7, <3>1
  <2>8. s = x \/ s = Peer(x)
    BY DEF Side, Peer
  <2> QED BY <1>0, <2>2, <2>3, <2>6, <2>7, <2>8
<1>5. CASE CompleteSend(x)
  <2>1. x \in Side /\ sq[x] # <<>> /\ 1 \in 1 .. Len(sq[x]) /\ Head(sq[x]) = sq[x][1]
    BY <1>5 DEF CompleteSend, TypeOK, QpTypeOK
  <2>2. Head(sq[x]).op \in Operation
    BY <1>0, <2>1, SqEntryType
  <2>3. <<WcOf(Head(sq[x]).op, "ok", NoBuffer)>> \in Seq(Wc)
    BY <2>2, WcOfType
  <2>4. Source(x, <<WcOf(Head(sq[x]).op, "ok", NoBuffer)>>)
    BY <1>5, <2>1 DEF Source, CompleteSend
  <2>5. IF s = x THEN Enter(s, <<WcOf(Head(sq[x]).op, "ok", NoBuffer)>>) ELSE Enter(s, <<>>)
    BY <1>1, <1>5, <2>3, OnlyEnter DEF CompleteSend
  <2> QED BY <1>0, <2>3, <2>4, <2>5
<1>6. ASSUME NEW k \in 1 .. Len(sq[x]), ReadArrives(x, k)
      PROVE  \E q \in Seq(Wc) : Source(s, q) /\ Enter(s, q)
  BY <1>2, <1>6 DEF ReadArrives, cqVars
<1> QED BY <1>3, <1>4, <1>5, <1>6 DEF Adapter

\* The completion queue of s beside its callback: the main thread makes the queue pair, or
\* destroys it or the queue, or completions enter.
CqOwner(s) ==
  \/ QpSetUp(s) /\ pc[s] = "setup_qp" /\ UNCHANGED <<cqh, cqe, cqevent>>
  \/ FreeQp(s)
  \/ \E next : FreeCq(s, next)

\* The main threads.
LEMMA MainEnters ==
  ASSUME TypeOK, ClientMain \/ ServerMain, NEW s \in Side
  PROVE  CqOwner(s) \/ \E q \in Seq(Wc) : Source(s, q) /\ Enter(s, q)
<1> USE SideFacts
<1>0. <<>> \in Seq(Wc)
  OBVIOUS
<1>1. CASE UNCHANGED cqVars
  BY <1>0, <1>1, NoneEnter DEF cqVars
<1>2. ASSUME NEW m \in Side, NEW op \in Operation, NEW buf, PostSend(m, op, buf),
             Posts(m, op), cqh' = cqh
      PROVE  \E q \in Seq(Wc) : Source(s, q) /\ Enter(s, q)
  BY <1>2, SendEnters
<1>3. ASSUME NEW m \in Side, PostRecv(m), pc[m] = "post_recv", cqh' = cqh
      PROVE  \E q \in Seq(Wc) : Source(s, q) /\ Enter(s, q)
  BY <1>3, RecvEnters
<1>4. ASSUME NEW m \in Side, pc[m] \in {"accept", "disconnect"}, pc'[m] = "free_buffers",
             QpError({m}, Only(m, Flushed(m, 0))), cqh' = cqh
      PROVE  \E q \in Seq(Wc) : Source(s, q) /\ Enter(s, q)
  BY <1>4, DownEnters
<1>5. ASSUME NEW m \in Side,
             \/ QpSetUp(m) /\ pc[m] = "setup_qp" /\ UNCHANGED <<cqh, cqe, cqevent>>
             \/ FreeQp(m)
             \/ \E next : FreeCq(m, next)
      PROVE  CqOwner(s) \/ (Enter(s, <<>>) /\ Source(s, <<>>))
  <2>1. CASE s = m
    BY <1>5, <2>1 DEF CqOwner
  <2>2. CASE s # m
    <3>1. /\ cqe'[s] = cqe[s] /\ cqh'[s] = cqh[s]
          /\ s \in armed' <=> s \in armed
          /\ s \in cqevent' <=> s \in cqevent
      BY <1>5, <2>2 DEF QpSetUp, FreeQp, FreeCq, TypeOK, CqTypeOK
    <3>2. cqe[s] \o <<>> = cqe[s]
      BY DEF TypeOK, CqTypeOK
    <3> QED BY <3>1, <3>2 DEF Enter, Source
  <2> QED BY <2>1, <2>2
<1>6. \/ UNCHANGED cqVars
      \/ \E m \in Side :
           \/ \E op \in Operation : \E buf : PostSend(m, op, buf) /\ Posts(m, op) /\ cqh' = cqh
           \/ PostRecv(m) /\ pc[m] = "post_recv" /\ cqh' = cqh
           \/ /\ pc[m] \in {"accept", "disconnect"} /\ pc'[m] = "free_buffers"
              /\ QpError({m}, Only(m, Flushed(m, 0))) /\ cqh' = cqh
           \/ QpSetUp(m) /\ pc[m] = "setup_qp" /\ UNCHANGED <<cqh, cqe, cqevent>>
           \/ FreeQp(m)
           \/ \E next : FreeCq(m, next)
  <2>1. /\ "SEND" \in Operation /\ "READ" \in Operation /\ "WRITE" \in Operation
        /\ pc \in [Side -> ClientLabel \cup ServerLabel]
    BY DEF Operation, TypeOK, ThreadTypeOK
  <2>2. CASE ClientMain
    BY <2>1, <2>2
    DEF ClientMain, ClientStart, ClientBind, ClientBindWait, ClientBindCheck, ClientSetupQp,
        SetupBuffers, PostFirstRecv, ClientConnect, ClientConnectWait,
        ClientConnectCheck, ClientAdvertise, ClientSend, ClientGoAheadWait, Disconnect,
        DisconnectConnection, FreeBuffers, ClientDestroyId, WaitEvent, cqVars, Posts,
        Goto
  <2>3. CASE ServerMain
    BY <2>1, <2>3
    DEF ServerMain, ServerStart, ServerBind, ServerRequestWait, ServerRequestCheck,
        ServerSetupQp, SetupBuffers, PostFirstRecv, ServerAccept, ServerAcceptWait,
        ServerAcceptCheck, ServerPingWait, ServerRead, ServerReadWait, ServerWrite,
        ServerWriteWait, ServerNextRound, ServerGoAhead, Disconnect, DisconnectConnection,
        FreeBuffers, ServerDestroyChild, ServerDestroyListener, WaitEvent, cqVars, Posts,
        Goto
  <2> QED BY <2>2, <2>3
<1> QED BY <1>0, <1>1, <1>2, <1>3, <1>4, <1>5, <1>6

\* Whatever step is taken.
LEMMA CqMoves ==
  ASSUME TypeInv, Next, NEW s \in Side
  PROVE  \/ megaVM_cq_event_handler(s)
         \/ CqOwner(s)
         \/ \E q \in Seq(Wc) : Source(s, q) /\ Enter(s, q)
<1>0. TypeOK /\ <<>> \in Seq(Wc) /\ Source(s, <<>>)
  BY DEF TypeInv, Source
<1>1. ASSUME NEW x \in Side, megaVM_cq_event_handler(x), x # s
      PROVE  Enter(s, <<>>)
  BY <1>0, <1>1, PeerCallback
<1>2. CASE \/ ConnectionEstablished \/ ConnectTimeout \/ UNCHANGED vars
           \/ \E x \in Side : megaVM_cma_event_handler(x) \/ StrayEvent(x) \/ Signal(x)
  <2>1. UNCHANGED cqVars
    BY <1>2, OtherQueues DEF ConnectionEstablished, ConnectTimeout, vars
  <2> QED BY <1>0, <2>1, NoneEnter DEF cqVars
<1> QED BY <1>0, <1>1, <1>2, MainEnters, AdapterEnters DEF Next, Progress, Fault, Over, Callbacks

\* Send queue r is what is left of q: entries went, or were carried out.
Remains(r, q) ==
  /\ Len(r) <= Len(q)
  /\ \A i \in 1 .. Len(r) : \E j \in 1 .. Len(q) :
       r[i].op = q[j].op /\ (r[i].phase = "posted" => q[j].phase = "posted")

\* Request op enters the send queue of s.
Enqueued(s, op) ==
  /\ Posts(s, op)
  /\ \E buf : sq'[s] = Append(sq[s], [op |-> op, buf |-> buf, phase |-> "posted", val |-> "junk"])

\* What is left of a queue.
LEMMA QueueRemains ==
  ASSUME NEW q \in Seq(Wr)
  PROVE  /\ Remains(q, q) /\ Remains(<<>>, q)
         /\ q # <<>> => Remains(Tail(q), q)
         /\ \A k \in 1 .. Len(q), wr \in Wr :
              wr.op = q[k].op /\ wr.phase # "posted" => Remains([q EXCEPT ![k] = wr], q)
<1>1. Remains(q, q) /\ Remains(<<>>, q)
  BY DEF Remains
<1>2. ASSUME q # <<>> PROVE Remains(Tail(q), q)
  <2>1. /\ Len(Tail(q)) = Len(q) - 1
        /\ \A i \in 1 .. Len(Tail(q)) : i + 1 \in 1 .. Len(q) /\ Tail(q)[i] = q[i + 1]
    BY <1>2
  <2> QED BY <2>1 DEF Remains
<1>3. ASSUME NEW k \in 1 .. Len(q), NEW wr \in Wr, wr.op = q[k].op, wr.phase # "posted"
      PROVE  Remains([q EXCEPT ![k] = wr], q)
  BY <1>3 DEF Remains
<1> QED BY <1>1, <1>2, <1>3

\* One entry of a queue changes as a whole.
LEMMA EntryChanges ==
  ASSUME QpTypeOK, NEW s \in Side, NEW k \in 1 .. Len(sq[s])
  PROVE  /\ [sq EXCEPT ![s][k].phase = "done"]
              = [sq EXCEPT ![s][k] = [sq[s][k] EXCEPT !.phase = "done"]]
         /\ \A v \in Content :
              [sq EXCEPT ![s][k].phase = "fetched", ![s][k].val = v]
                = [sq EXCEPT ![s][k] = [sq[s][k] EXCEPT !.phase = "fetched", !.val = v]]
<1>1. sq \in [Side -> Seq(Wr)] /\ sq[s] \in Seq(Wr)
  BY DEF QpTypeOK
<1>2. sq[s][k] \in Wr
  BY <1>1
<1>3. [sq EXCEPT ![s][k].phase = "done"]
        = [sq EXCEPT ![s][k] = [sq[s][k] EXCEPT !.phase = "done"]]
  BY <1>1, <1>2
<1>4. \A v \in Content :
        [sq EXCEPT ![s][k].phase = "fetched", ![s][k].val = v]
          = [sq EXCEPT ![s][k] = [sq[s][k] EXCEPT !.phase = "fetched", !.val = v]]
  BY <1>1, <1>2
<1> QED BY <1>3, <1>4

\* Whatever step is taken.
LEMMA SqMoves ==
  ASSUME TypeInv, Next, NEW s \in Side
  PROVE  Remains(sq'[s], sq[s]) \/ \E op \in Operation : Enqueued(s, op)
<1> USE SideFacts
<1>1. /\ TypeOK /\ QpTypeOK /\ sq \in [Side -> Seq(Wr)] /\ sq[s] \in Seq(Wr)
      /\ mem \in [Buffer -> Content] /\ BufferTypeOK
  BY DEF TypeInv, TypeOK, QpTypeOK, BufferTypeOK
<1>2. Remains(sq[s], sq[s]) /\ Remains(<<>>, sq[s])
  BY <1>1, QueueRemains
<1>3. CASE sq' = sq
  BY <1>2, <1>3
<1>4. ASSUME NEW m \in Side, NEW op \in Operation, NEW buf, PostSend(m, op, buf), Posts(m, op)
      PROVE  Remains(sq'[s], sq[s]) \/ Enqueued(s, op)
  <2>1. CASE sq' = [sq EXCEPT ![m] = Append(@, [op |-> op, buf |-> buf, phase |-> "posted",
                                                  val |-> "junk"])]
    <3>1. CASE s = m
      BY <1>1, <1>4, <2>1, <3>1 DEF Enqueued
    <3>2. CASE s # m
      BY <1>1, <1>2, <2>1, <3>2
    <3> QED BY <3>1, <3>2
  <2>2. \/ sq' = sq
        \/ sq' = [sq EXCEPT ![m] = Append(@, [op |-> op, buf |-> buf, phase |-> "posted",
                                             val |-> "junk"])]
    BY <1>4 DEF PostSend
  <2> QED BY <1>2, <2>1, <2>2
<1>5. ASSUME NEW sides, NEW add, QpError(sides, add)
      PROVE  Remains(sq'[s], sq[s])
  BY <1>2, <1>5 DEF QpError
<1>6. ASSUME NEW m \in Side, FreeQp(m)
      PROVE  Remains(sq'[s], sq[s])
  BY <1>1, <1>2, <1>6 DEF FreeQp
<1>7. CASE ClientMain \/ ServerMain
  <2>1. \/ sq' = sq
        \/ \E m \in Side :
             \/ \E op \in Operation : \E buf : PostSend(m, op, buf) /\ Posts(m, op)
             \/ \E sides : \E add : QpError(sides, add)
             \/ FreeQp(m)
    <3>1. "SEND" \in Operation /\ "READ" \in Operation /\ "WRITE" \in Operation
      BY DEF Operation
    <3>2. CASE ClientMain
      BY <3>1, <3>2
      DEF ClientMain, ClientStart, ClientBind, ClientBindWait, ClientBindCheck, ClientSetupQp,
          SetupBuffers, PostFirstRecv, ClientConnect, ClientConnectWait,
          ClientConnectCheck, ClientAdvertise, ClientSend, ClientGoAheadWait, Disconnect,
          DisconnectConnection, FreeBuffers, FreeCq, ClientDestroyId, WaitEvent, qpVars, Posts
    <3>3. CASE ServerMain
      BY <3>1, <3>3
      DEF ServerMain, ServerStart, ServerBind, ServerRequestWait, ServerRequestCheck,
          ServerSetupQp, SetupBuffers, PostFirstRecv, ServerAccept, ServerAcceptWait,
          ServerAcceptCheck, ServerPingWait, ServerRead, ServerReadWait, ServerWrite,
          ServerWriteWait, ServerNextRound, ServerGoAhead, Disconnect, DisconnectConnection,
          FreeBuffers, FreeCq, ServerDestroyChild, ServerDestroyListener, WaitEvent, qpVars,
          Posts
    <3> QED BY <1>7, <3>2, <3>3
  <2> QED BY <1>3, <1>4, <1>5, <1>6, <2>1
<1>8. ASSUME NEW x \in Side, Adapter(x)
      PROVE  Remains(sq'[s], sq[s])
  <2>1. ASSUME NEW k \in 1 .. Len(sq[x]),
               \/ sq' = [sq EXCEPT ![x][k].phase = "done"]
               \/ \E v \in Content : sq' = [sq EXCEPT ![x][k].phase = "fetched", ![x][k].val = v]
        PROVE  Remains(sq'[s], sq[s])
    <3>1. CASE s # x
      BY <1>1, <1>2, <2>1, <3>1
    <3>2. CASE s = x
      <4>1. PICK wr \in Wr : /\ wr.op = sq[x][k].op /\ wr.phase # "posted"
                             /\ sq' = [sq EXCEPT ![x][k] = wr]
        <5>1. sq[x][k] \in Wr
          BY <1>1
        <5>2. /\ [sq[x][k] EXCEPT !.phase = "done"] \in Wr
              /\ \A v \in Content : [sq[x][k] EXCEPT !.phase = "fetched", !.val = v] \in Wr
          BY <5>1 DEF Wr
        <5>3. /\ [sq EXCEPT ![x][k].phase = "done"]
                   = [sq EXCEPT ![x][k] = [sq[x][k] EXCEPT !.phase = "done"]]
              /\ \A v \in Content :
                   [sq EXCEPT ![x][k].phase = "fetched", ![x][k].val = v]
                     = [sq EXCEPT ![x][k] = [sq[x][k] EXCEPT !.phase = "fetched", !.val = v]]
          BY <1>1, EntryChanges
        <5>5. /\ [sq[x][k] EXCEPT !.phase = "done"].op = sq[x][k].op
              /\ [sq[x][k] EXCEPT !.phase = "done"].phase = "done"
              /\ \A v \in Content :
                   /\ [sq[x][k] EXCEPT !.phase = "fetched", !.val = v].op = sq[x][k].op
                   /\ [sq[x][k] EXCEPT !.phase = "fetched", !.val = v].phase = "fetched"
          BY <5>1 DEF Wr
        <5>6. CASE sq' = [sq EXCEPT ![x][k].phase = "done"]
          BY <5>2, <5>3, <5>5, <5>6
        <5>7. ASSUME NEW v \in Content,
                     sq' = [sq EXCEPT ![x][k].phase = "fetched", ![x][k].val = v]
              PROVE  \E wr \in Wr : /\ wr.op = sq[x][k].op /\ wr.phase # "posted"
                                    /\ sq' = [sq EXCEPT ![x][k] = wr]
          BY <5>2, <5>3, <5>5, <5>7
        <5> QED BY <2>1, <5>6, <5>7
      <4>2. sq'[s] = [sq[s] EXCEPT ![k] = wr]
        BY <1>1, <3>2, <4>1
      <4> QED BY <1>1, <2>1, <3>2, <4>1, <4>2, QueueRemains
    <3> QED BY <3>1, <3>2
  <2>2. ASSUME NEW k \in 1 .. Len(sq[x]), Transmit(x, k)
        PROVE  Remains(sq'[s], sq[s])
    <3>1. CASE sq[x][k].op = "READ"
      <4>1. qp[Peer(x)] = "rts" /\ ~AccessRefused(x, sq[x][k])
        BY <2>2 DEF Transmit, Undeliverable
      <4>2. sq[x][k].buf \in Buffer
        BY <1>1, <3>1, <4>1, SqEntryType DEF AccessRefused
      <4>3. mem[sq[x][k].buf] \in Content
        BY <1>1, <4>2
      <4>4. sq' = [sq EXCEPT ![x][k].phase = "fetched", ![x][k].val = mem[sq[x][k].buf]]
        BY <2>2, <3>1 DEF Transmit
      <4> QED BY <2>1, <4>3, <4>4
    <3>2. CASE sq[x][k].op # "READ"
      <4>1. sq' = [sq EXCEPT ![x][k].phase = "done"]
        BY <2>2, <3>2 DEF Transmit
      <4> QED BY <2>1, <4>1
    <3> QED BY <3>1, <3>2
  <2>3. ASSUME NEW k \in 1 .. Len(sq[x]), ReadArrives(x, k)
        PROVE  Remains(sq'[s], sq[s])
    BY <2>1, <2>3 DEF ReadArrives
  <2>4. ASSUME NEW k \in 1 .. Len(sq[x]), TransmitFails(x, k)
        PROVE  Remains(sq'[s], sq[s])
    BY <1>5, <2>4 DEF TransmitFails
  <2>5. CASE CompleteSend(x)
    BY <1>1, <1>2, <2>5, QueueRemains DEF CompleteSend
  <2> QED BY <1>8, <2>2, <2>3, <2>4, <2>5 DEF Adapter
<1>9. CASE \/ ConnectionEstablished \/ ConnectTimeout \/ UNCHANGED vars
           \/ \E x \in Side : \/ megaVM_cma_event_handler(x) \/ StrayEvent(x) \/ Signal(x)
                              \/ megaVM_cq_event_handler(x)
  <2>1. sq' = sq
    BY <1>9, OtherQueues
    DEF ConnectionEstablished, ConnectTimeout, vars, qpVars, megaVM_cq_event_handler, CqEvent,
        CqArm, CqPollEmpty, CqPoll, CqRepost, CqWake
  <2> QED BY <1>3, <2>1
<1> QED BY <1>7, <1>8, <1>9 DEF Next, Progress, Fault, Over, Callbacks

\* Who sets the state of a side.
LEMMA StateBy ==
  ASSUME TypeInv, Next, NEW s \in Side
  PROVE  \/ state'[s] = state[s]
         \/ CmaEvent(s) \/ CqPoll(s) \/ CqRepost(s)
         \/ s = "client" /\ ClientAdvertise
<1> USE SideFacts
<1>1. /\ state \in [Side -> TestState] /\ pc \in [Side -> ClientLabel \cup ServerLabel]
  BY DEF TypeInv, TypeOK, ContextTypeOK, ThreadTypeOK
<1>2. CASE ServerMain
  BY <1>2, ServerContext
<1>3. CASE ClientMain
  <2>1. CASE ClientAdvertise
    BY <1>1, <2>1 DEF ClientAdvertise, SetState
  <2>2. CASE ~ClientAdvertise
    BY <1>3, <2>2
    DEF ClientMain, ClientStart, ClientBind, ClientBindWait, ClientBindCheck, ClientSetupQp,
        SetupBuffers, PostFirstRecv, ClientConnect, ClientConnectWait, ClientConnectCheck,
        ClientSend, ClientGoAheadWait, Disconnect, FreeBuffers, FreeQp, FreeCq,
        ClientDestroyId, WaitEvent, contextVars
  <2> QED BY <2>1, <2>2
<1>4. ASSUME NEW x \in Side, megaVM_cq_event_handler(x)
      PROVE  state'[s] = state[s] \/ CqPoll(s) \/ CqRepost(s)
  <2>1. state' = state \/ ((CqPoll(x) \/ CqRepost(x)) /\ \E new : SetState(x, new))
    BY <1>4
    DEF megaVM_cq_event_handler, CqEvent, CqArm, CqPollEmpty, CqPoll, CqRepost, CqWake,
        contextVars, recv, client_recv, server_recv
  <2> QED BY <1>1, <2>1 DEF SetState
<1>5. ASSUME NEW x \in Side, megaVM_cma_event_handler(x)
      PROVE  state'[s] = state[s] \/ CmaEvent(s)
  <2>1. state' = state \/ (CmaEvent(x) /\ \E new : SetState(x, new))
    BY <1>5
    DEF megaVM_cma_event_handler, CmaEvent, CmaChild, CmaWake, AddrResolved, ConnectRequested,
        StateAndWake, DeviceRemovalLogged, contextVars
  <2> QED BY <1>1, <2>1 DEF SetState
<1>6. ASSUME NEW x \in Side,
             \/ Adapter(x) \/ StrayEvent(x) \/ Signal(x)
             \/ ConnectionEstablished \/ ConnectTimeout \/ UNCHANGED vars
      PROVE  state' = state
  BY <1>6, OtherContext DEF vars, contextVars
<1> QED BY <1>2, <1>3, <1>4, <1>5, <1>6 DEF Next, Progress, Fault, Over, Callbacks

-----------------------------------------------------------------------------
(* Until the advertisement is there.                                       *)

\* The events that set a side's state to ERROR.
Alarm == CmErrors \cup {"DISCONNECTED"}

\* The client before it has posted its advertisement.
Unsent == PreConnect \cup {"connect_wait", "connect_check", "advertise", "send"}

\* The server until it learns of the advertisement, and on its way out.
Opening == {"start", "bind", "request_wait", "request_check", "setup_qp", "setup_buffers",
            "post_recv", "accept", "accept_wait"}
Leaving == {"free_buffers", "free_qp", "free_cq", "destroy_child", "destroy_listener",
            "done", "oops"}

\* The labels where a side may have made no queue pair.
NoQp == {"start", "bind", "bind_wait", "bind_check", "request_wait", "request_check",
         "setup_qp", "destroy_id", "destroy_child", "destroy_listener", "done", "oops"}

\* A client that has its route, or knows that there is none, hears nothing more of it;
\* a server never does.
Resolved ==
  /\ pc["client"] \in {"bind_wait", "bind_check"} =>
       /\ state["client"] \in {IDLE, ADDR_RESOLVED, ROUTE_RESOLVED, ERROR}
       /\ state["client"] \in {ROUTE_RESOLVED, ERROR} => Calm(cmq["client"])
  /\ pc["client"] = "bind_check" => state["client"] \in {ROUTE_RESOLVED, ERROR}
  /\ pc["client"] \notin {"start", "bind", "bind_wait", "bind_check"} =>
       ~Has(cmq["client"], Resolution)
  /\ ~Has(cmq["server"], Resolution)

\* Who hears nothing of its address or route goes on so, the client's bind apart.
LEMMA Unresolved ==
  ASSUME TypeInv, Next, NEW s \in Side, ~Has(cmq[s], Resolution), ~(s = "client" /\ ClientBind)
  PROVE  ~Has(cmq'[s], Resolution)
<1>1. cmq[s] \in Seq(CmEvent)
  BY DEF TypeInv, TypeOK, CmTypeOK
<1>2. /\ Stray \cap Resolution = {} /\ Stray \subseteq CmEvent
      /\ Answer \cap Resolution = {} /\ Answer \subseteq CmEvent
      /\ "CONNECT_REQUEST" \in CmEvent \ Resolution /\ "REJECTED" \in CmEvent \ Resolution
      /\ "ADDR_RESOLVED" \in Resolution
  BY DEF Stray, Answer, Resolution, CmEvent
<1>3. \A event \in CmEvent \ Resolution : ~Has(Append(cmq[s], event), Resolution)
  BY <1>1, HasMoves
<1>4. /\ ~Has(<<>>, Resolution)
      /\ cmq[s] # <<>> => ~Has(Tail(cmq[s]), Resolution) /\ Head(cmq[s]) \notin Resolution
  BY <1>1, HasMoves
<1>5. CmaEvent(s) => cmq[s] # <<>>
  BY DEF CmaEvent
<1> QED BY <1>2, <1>3, <1>4, <1>5, Hears DEF Hearing

\* What has been heard of the client's address and route stays so.
LEMMA ResolvedStep ==
  ASSUME NothingCutShort, QuietInv, Resolved, Next
  PROVE  Resolved'
<1> USE SideFacts
<1>1. /\ TypeInv /\ ConnInv /\ ClientQuiet /\ ConnInv'
      /\ pc \in [Side -> ClientLabel \cup ServerLabel] /\ cmq["client"] \in Seq(CmEvent)
      /\ state["client"] \in TestState /\ signalled = {}
  BY ConnStep DEF QuietInv, HeldInv, ConnInv, TypeInv, TypeOK, ThreadTypeOK, CmTypeOK, ContextTypeOK
<1>2. ~Has(cmq'["server"], Resolution)
  BY <1>1, Unresolved DEF Resolved
<1>3. Calm(cmq["client"]) => ~Has(cmq["client"], Resolution)
  BY DEF Calm, Has, Stray, Resolution, CmEvent
<1>4. ASSUME pc'["client"] \notin {"start", "bind", "bind_wait", "bind_check"}
      PROVE  ~Has(cmq'["client"], Resolution)
  <2>1. CASE pc["client"] \notin {"start", "bind", "bind_wait", "bind_check"}
    BY <1>1, <2>1, Unresolved DEF Resolved, ClientBind
  <2>2. CASE pc["client"] \in {"start", "bind", "bind_wait", "bind_check"}
    <3>1. /\ ClientMain
          /\ \/ pc["client"] = "start"
             \/ pc["client"] = "bind" /\ pc'["client"] = "destroy_id"
             \/ pc["client"] = "bind_check"
      <4>1. ClientMain
        BY <1>1, <1>4, <2>2, ThreadMoves
      <4> QED BY <1>1, <1>4, <2>2, <4>1, ClientPath DEF PreConnect
    <3>2. Calm(cmq["client"])
      BY <1>1, <3>1 DEF ClientQuiet, Resolved
    <3>3. CASE ClientBind
      <4>1. cmq' = cmq
        BY <1>1, <1>4, <3>3 DEF ClientBind, Goto
      <4> QED BY <1>3, <3>2, <4>1
    <3> QED BY <1>1, <1>3, <3>2, <3>3, Unresolved
  <2> QED BY <2>1, <2>2
<1>5. ASSUME pc'["client"] \in {"bind_wait", "bind_check"}, pc'["client"] # pc["client"]
      PROVE  Resolved'
  <2>1. ClientMain
    BY <1>1, <1>5, ThreadMoves
  <2>2. state'["client"] = state["client"]
    BY <1>1, <1>5, StateMoves, CmaMoves
  <2>3. \/ pc["client"] = "bind" /\ pc'["client"] = "bind_wait"
        \/ /\ pc["client"] = "bind_wait" /\ pc'["client"] = "bind_check"
           /\ state["client"] >= ROUTE_RESOLVED
    <3>1. pc["client"] = "bind_wait" => ClientBindWait
      BY <1>1, <1>5, <2>1
      DEF ClientMain, ClientStart, ClientBind, ClientBindCheck, ClientSetupQp, SetupBuffers,
          PostFirstRecv, ClientConnect, ClientConnectWait, ClientConnectCheck, ClientAdvertise,
          ClientSend, ClientGoAheadWait, Disconnect, FreeBuffers, FreeQp, FreeCq,
          ClientDestroyId, WaitEvent
    <3>2. ClientBindWait => state["client"] >= ROUTE_RESOLVED
      BY <1>1, <1>5 DEF ClientBindWait, WaitEvent, Threshold
    <3> QED BY <1>1, <1>5, <2>1, <3>1, <3>2, ClientPath DEF PreConnect
  <2>4. CASE pc["client"] = "bind" /\ pc'["client"] = "bind_wait"
    <3>1. state'["client"] = IDLE
      BY <1>1, <2>2, <2>4 DEF ClientQuiet
    <3> QED BY <1>2, <2>4, <3>1 DEF Resolved, IDLE, ROUTE_RESOLVED, ERROR
  <2>5. CASE /\ pc["client"] = "bind_wait" /\ pc'["client"] = "bind_check"
             /\ state["client"] >= ROUTE_RESOLVED
    <3>1. state["client"] \in {ROUTE_RESOLVED, ERROR} /\ Calm(cmq["client"])
      BY <2>5 DEF Resolved, IDLE, ADDR_RESOLVED, ROUTE_RESOLVED, ERROR
    <3>2. cmq'["client"] = cmq["client"]
      <4>1. ~CmaEvent("client") /\ pc' # pc /\ ~ClientDestroyId /\ ~ClientBind /\ ~ClientConnect
        BY <1>1, <1>5, <2>5, CmaMoves DEF ClientDestroyId, ClientBind, ClientConnect
      <4>2. ~Answering
        BY <1>1, <2>5, NoAnswer DEF PreConnect
      <4>3. Hearing("client")
        BY <1>1, Hears
      <4> QED BY <4>1, <4>2, <4>3 DEF Hearing
    <3> QED BY <1>2, <2>2, <2>5, <3>1, <3>2 DEF Resolved
  <2> QED BY <2>3, <2>4, <2>5
<1>6. ASSUME pc'["client"] \in {"bind_wait", "bind_check"}, pc'["client"] = pc["client"]
      PROVE  Resolved'
  <2>1. /\ state["client"] \in {IDLE, ADDR_RESOLVED, ROUTE_RESOLVED, ERROR}
        /\ state["client"] \in {ROUTE_RESOLVED, ERROR} => Calm(cmq["client"])
        /\ pc["client"] = "bind_check" => state["client"] \in {ROUTE_RESOLVED, ERROR}
        /\ Resolving(cmq["client"]) /\ Idle("client")
    BY <1>1, <1>6 DEF Resolved, ClientQuiet, PreConnect
  <2>2. SUFFICES /\ state'["client"] \in {IDLE, ADDR_RESOLVED, ROUTE_RESOLVED, ERROR}
                 /\ state'["client"] \in {ROUTE_RESOLVED, ERROR} => Calm(cmq'["client"])
                 /\ state["client"] \in {ROUTE_RESOLVED, ERROR} =>
                      state'["client"] = state["client"]
    BY <1>2, <1>6, <2>1 DEF Resolved
  <2>3. CASE CmaEvent("client")
    <3>1. cmq["client"] # <<>>
      BY <1>1, <2>3, CmaMoves
    <3>2. CASE Calm(cmq["client"])
      <4>1. Head(cmq["client"]) \in Stray /\ Calm(Tail(cmq["client"]))
        BY <1>1, <3>1, <3>2, CalmMoves
      <4>2. cmq'["client"] = Tail(cmq["client"]) /\ state'["client"] = state["client"]
        BY <1>1, <2>3, <4>1, CmaMoves DEF Stray, StateOfEvent, CmErrors
      <4> QED BY <2>1, <4>1, <4>2
    <3>3. CASE state["client"] \notin {ROUTE_RESOLVED, ERROR}
      <4>1. \/ Head(cmq["client"]) \in Stray
            \/ Head(cmq["client"]) \in Resolution /\ Calm(Tail(cmq["client"]))
        BY <1>1, <2>1, <3>1, CalmMoves
      <4>2. CASE Head(cmq["client"]) \in Stray
        <5>1. state'["client"] = state["client"]
          BY <1>1, <2>3, <4>2, CmaMoves DEF Stray, StateOfEvent, CmErrors
        <5> QED BY <2>1, <3>3, <5>1
      <4>3. CASE Head(cmq["client"]) = "ADDR_RESOLVED"
        <5>1. state'["client"] = ADDR_RESOLVED
          BY <1>1, <2>3, <4>3, CmaMoves
        <5> QED BY <3>3, <5>1 DEF ADDR_RESOLVED, ROUTE_RESOLVED, ERROR
      <4>4. CASE /\ Head(cmq["client"]) \in Resolution \ {"ADDR_RESOLVED"}
                 /\ Calm(Tail(cmq["client"]))
        <5>1. /\ cmq'["client"] = Tail(cmq["client"])
              /\ state'["client"] \in {state["client"],
                                       StateOfEvent("client", Head(cmq["client"]))}
          BY <1>1, <2>3, <4>4, CmaMoves DEF Resolution
        <5>2. StateOfEvent("client", Head(cmq["client"])) \in {ROUTE_RESOLVED, ERROR}
          BY <4>4 DEF Resolution, StateOfEvent, CmErrors
        <5> QED BY <2>1, <3>3, <4>4, <5>1, <5>2
      <4> QED BY <4>1, <4>2, <4>3, <4>4
    <3> QED BY <2>1, <3>2, <3>3
  <2>4. CASE ~CmaEvent("client")
    <3>1. state'["client"] = state["client"]
      BY <1>1, <1>6, <2>1, <2>4, StateMoves
    <3>2. ~Answering
      BY <1>1, <1>6, NoAnswer DEF PreConnect
    <3>3. \/ cmq'["client"] = cmq["client"]
          \/ \E event \in Stray : cmq'["client"] = Append(cmq["client"], event)
      BY <1>1, <1>6, <2>4, <3>2, StillHears
    <3>4. Calm(cmq["client"]) => Calm(cmq'["client"])
      BY <1>1, <3>3, CalmMoves
    <3> QED BY <2>1, <3>1, <3>4
  <2> QED BY <2>3, <2>4
<1>7. CASE pc'["client"] \notin {"bind_wait", "bind_check"}
  BY <1>2, <1>4, <1>7 DEF Resolved
<1> QED BY <1>5, <1>6, <1>7

-----------------------------------------------------------------------------
(* Queue pairs, completion queues and the connection: who changes them.    *)

\* Everything that a step can do to the queue pair of side s.
LEMMA QpGoes ==
  ASSUME TypeInv, Next, NEW s \in Side
  PROVE  \/ qp'[s] = qp[s]
         \/ FreeQp(s) /\ qp'[s] = "gone"
         \/ QpSetUp(s) /\ pc[s] = "setup_qp" /\ qp'[s] = "init"
         \/ /\ qp'[s] = "err"
            /\ \/ pc[s] \in {"accept", "disconnect"} /\ pc'[s] = "free_buffers"
               \/ qp[s] = "rts" /\ \E x \in Side : \E k \in 1 .. Len(sq[x]) : TransmitFails(x, k)
         \/ /\ s = "server" /\ ServerAccept /\ conn = "requested"
            /\ qp'[s] = "rts" /\ pc'[s] = "accept_wait"
         \/ s = "client" /\ ConnectionEstablished /\ qp'[s] = "rts" /\ conn' = "established"
<1> USE SideFacts
<1>1. /\ qp \in [Side -> {"none", "init", "rts", "err", "gone"}]
      /\ pc \in [Side -> ClientLabel \cup ServerLabel]
  BY DEF TypeInv, TypeOK, QpTypeOK, ThreadTypeOK
<1>2. CASE ClientSetupQp \/ ServerSetupQp
  BY <1>1, <1>2 DEF ClientSetupQp, ServerSetupQp, QpSetUp
<1>3. ASSUME NEW m \in Side, Disconnect(m)
      PROVE  \/ qp'[s] = qp[s]
             \/ qp'[s] = "err" /\ pc[s] = "disconnect" /\ pc'[s] = "free_buffers"
  BY <1>1, <1>3 DEF Disconnect, DisconnectConnection, QpError, Goto
<1>4. ASSUME NEW m \in Side, FreeQp(m)
      PROVE  qp'[s] = qp[s] \/ (FreeQp(s) /\ qp'[s] = "gone")
  BY <1>1, <1>4 DEF FreeQp
<1>5. CASE ServerAccept
  BY <1>1, <1>5 DEF ServerAccept, QpError, Goto
<1>6. ASSUME NEW x \in Side, NEW k \in 1 .. Len(sq[x]), TransmitFails(x, k)
      PROVE  qp'[s] = qp[s] \/ (qp'[s] = "err" /\ qp[s] = "rts")
  <2>1. qp[x] = "rts" /\ (AccessRefused(x, sq[x][k]) => qp[Peer(x)] = "rts")
    BY <1>6 DEF TransmitFails, MayGoOut, AccessRefused
  <2>2. s = x \/ s = Peer(x)
    BY DEF Side, Peer
  <2> QED BY <1>1, <1>6, <2>1, <2>2 DEF TransmitFails, QpError
<1>7. CASE ConnectionEstablished
  BY <1>1, <1>7 DEF ConnectionEstablished
<1>8. \/ ClientSetupQp \/ ServerSetupQp \/ ServerAccept \/ ConnectionEstablished \/ UNCHANGED qp
      \/ \E m \in Side : Disconnect(m) \/ FreeQp(m)
      \/ \E x \in Side : \E k \in 1 .. Len(sq[x]) : TransmitFails(x, k)
  <2>1. CASE ClientMain
    BY <2>1
    DEF ClientMain, ClientStart, ClientBind, ClientBindWait, ClientBindCheck, SetupBuffers,
        PostFirstRecv, ClientConnect, ClientConnectWait, ClientConnectCheck,
        ClientAdvertise, ClientSend, ClientGoAheadWait, FreeBuffers, FreeCq,
        ClientDestroyId, WaitEvent, qpVars
  <2>2. CASE ServerMain
    BY <2>2
    DEF ServerMain, ServerStart, ServerBind, ServerRequestWait, ServerRequestCheck,
        SetupBuffers, PostFirstRecv, ServerAcceptWait, ServerAcceptCheck, ServerPingWait,
        ServerRead, ServerReadWait, ServerWrite, ServerWriteWait, ServerNextRound,
        ServerGoAhead, FreeBuffers, FreeCq, ServerDestroyChild, ServerDestroyListener,
        WaitEvent, qpVars
  <2>3. CASE \E x \in Side : Adapter(x)
    BY <2>3 DEF Adapter, Transmit, ReadArrives, CompleteSend
  <2>4. CASE \/ ConnectTimeout \/ UNCHANGED vars
             \/ \E x \in Side : Callbacks(x) \/ StrayEvent(x) \/ Signal(x)
    BY <2>4, OtherQueues
    DEF ConnectTimeout, vars, qpVars, Callbacks, megaVM_cq_event_handler, CqEvent, CqArm,
        CqPollEmpty, CqPoll, CqRepost, CqWake
  <2> QED BY <2>1, <2>2, <2>3, <2>4 DEF Next, Progress, Fault, Over
<1> QED BY <1>2, <1>3, <1>4, <1>5, <1>6, <1>7, <1>8

\* Everything that a step can do to the connection.
LEMMA ConnBy ==
  ASSUME TypeInv, Next
  PROVE  \/ conn' = conn
         \/ ClientConnect /\ pc'["client"] = "connect_wait" /\ conn' \in {"requested", "closed"}
         \/ /\ ServerAccept
            /\ \/ /\ conn = "requested" /\ conn' = "accepted"
                  /\ pc'["server"] = "accept_wait" /\ cmq' = cmq
               \/ conn' = "closed" /\ pc'["server"] = "free_buffers"
         \/ ConnectionEstablished
         \/ ConnectTimeout
         \/ /\ Answering /\ conn' = "closed"
            /\ \/ pc["client"] \in {"disconnect", "destroy_id"}
               \/ pc["server"] \in {"disconnect", "destroy_child", "destroy_listener"}
<1> USE SideFacts
<1>1. /\ pc \in [Side -> ClientLabel \cup ServerLabel] /\ cmq = [cmq EXCEPT !["client"] = @]
  BY DEF TypeInv, TypeOK, ThreadTypeOK, CmTypeOK
<1>2. CASE ClientMain
  <2>1. CASE Disconnect("client") \/ ClientDestroyId
    BY <2>1 DEF Disconnect, DisconnectConnection, ClientDestroyId, DestroyConnectionId, Answering
  <2>2. CASE ClientConnect
    BY <1>1, <2>2 DEF ClientConnect, ConnectRequest, Goto
  <2>3. CASE ~(Disconnect("client") \/ ClientDestroyId \/ ClientConnect)
    BY <1>2, <2>3
    DEF ClientMain, ClientStart, ClientBind, ClientBindWait, ClientBindCheck, ClientSetupQp,
        SetupBuffers, PostFirstRecv, ClientConnectWait, ClientConnectCheck,
        ClientAdvertise, ClientSend, ClientGoAheadWait, FreeBuffers, FreeQp, FreeCq, WaitEvent,
        cmVars
  <2> QED BY <2>1, <2>2, <2>3
<1>3. CASE ServerMain
  <2>1. CASE Disconnect("server") \/ ServerDestroyChild
    BY <2>1
    DEF Disconnect, DisconnectConnection, ServerDestroyChild, DestroyConnectionId, Answering
  <2>2. CASE ServerDestroyListener
    BY <2>2 DEF ServerDestroyListener, Answering
  <2>3. CASE ServerAccept
    BY <1>1, <2>3 DEF ServerAccept, Goto
  <2>4. CASE ~(\/ Disconnect("server") \/ ServerDestroyChild \/ ServerDestroyListener
               \/ ServerAccept)
    BY <1>3, <2>4
    DEF ServerMain, ServerStart, ServerBind, ServerRequestWait, ServerRequestCheck,
        ServerSetupQp, SetupBuffers, PostFirstRecv, ServerAcceptWait, ServerAcceptCheck,
        ServerPingWait, ServerRead, ServerReadWait, ServerWrite, ServerWriteWait,
        ServerNextRound, ServerGoAhead, FreeBuffers, FreeQp, FreeCq, WaitEvent, cmVars
  <2> QED BY <2>1, <2>2, <2>3, <2>4
<1>4. ASSUME NEW s \in Side, megaVM_cma_event_handler(s) \/ StrayEvent(s)
      PROVE  conn' = conn
  BY <1>4 DEF megaVM_cma_event_handler, CmaEvent, CmaChild, CmaWake, StrayEvent
<1>5. CASE \/ UNCHANGED vars
           \/ \E x \in Side : megaVM_cq_event_handler(x) \/ Adapter(x) \/ Signal(x)
  BY <1>5, OtherCm DEF cmVars, vars
<1> QED BY <1>2, <1>3, <1>4, <1>5 DEF Next, Progress, Fault, Over, Callbacks

\* A connection is established where the client still has its queue pair, and then both
\* sides hear of that and of nothing else.
LEMMA Establishes ==
  ASSUME TypeInv, ConnectionEstablished, qp["client"] = "init", NEW s \in Side
  PROVE  /\ conn = "accepted" /\ conn' = "established" /\ UNCHANGED <<pc, state, sq, cqVars>>
         /\ cmq'[s] = cmq[s] \/ cmq'[s] = Append(cmq[s], "ESTABLISHED")
<1>1. cmq'[s] = Heard(s, <<"ESTABLISHED">>)
  BY DEF ConnectionEstablished
<1> QED BY <1>1, HeardOne DEF ConnectionEstablished, TypeInv, threadVars, contextVars

\* What a step puts into the completion queue's place.
LEMMA CqGained ==
  ASSUME TypeInv, Next, NEW s \in Side, "cq" \notin held[s], "cq" \in held'[s]
  PROVE  /\ pc[s] = "setup_qp" /\ UNCHANGED <<cqh, cqe, cqevent, state>>
         /\ s = "server" => child = "set" /\ child' = "set"
         /\ \/ QpSetUp(s)
            \/ s = "server" /\ pc'[s] = "oops" /\ UNCHANGED <<armed, qp>>
<1> USE SideFacts
<1>1. /\ pc \in [Side -> ClientLabel \cup ServerLabel] /\ held \in [Side -> SUBSET Resource]
  BY DEF TypeInv, TypeOK, ThreadTypeOK, ContextTypeOK
<1>2. ASSUME NEW x \in Side,
             \/ Callbacks(x) \/ Adapter(x) \/ ConnectionEstablished \/ ConnectTimeout
             \/ StrayEvent(x) \/ Signal(x) \/ UNCHANGED vars
      PROVE  FALSE
  <2>1. held' = held \/ held' = [held EXCEPT ![x] = @ \cup {"child"}]
    BY <1>2, OthersHold
  <2> QED BY <1>1, <2>1
<1>3. CASE ClientMain
  <2>1. \/ held' = held
        \/ \E what : "cq" \notin what /\ Holding("client", what)
        \/ \E what : Released("client", what)
        \/ ClientSetupQp
    BY <1>3
    DEF ClientMain, ClientStart, ClientBind, ClientBindWait, ClientBindCheck,
        SetupBuffers, BufferResources, LeftByBail, PostFirstRecv, ClientConnect,
        ClientConnectWait, ClientConnectCheck, ClientAdvertise, ClientSend, ClientGoAheadWait,
        Disconnect, FreeBuffers, FreeQp, FreeCq, ClientDestroyId, WaitEvent, contextVars
  <2>2. CASE ClientSetupQp
    BY <1>1, <2>2 DEF ClientSetupQp, QpSetUp, Holding
  <2> QED BY <1>1, <2>1, <2>2 DEF Holding, Released
<1>4. CASE ServerMain
  <2>1. \/ held' = held
        \/ \E what : "cq" \notin what /\ Holding("server", what)
        \/ \E what : Released("server", what)
        \/ ServerSetupQp
    BY <1>4
    DEF ServerMain, ServerStart, ServerBind, ServerRequestWait, ServerRequestCheck,
        SetupBuffers, BufferResources, LeftByBail, PostFirstRecv, ServerAccept,
        ServerAcceptWait, ServerAcceptCheck, ServerPingWait, ServerRead, ServerReadWait,
        ServerWrite, ServerWriteWait, ServerNextRound, ServerGoAhead, Disconnect, FreeBuffers,
        FreeQp, FreeCq, ServerDestroyChild, ServerDestroyListener, WaitEvent, contextVars
  <2>2. CASE ServerSetupQp
    BY <1>1, <2>2 DEF ServerSetupQp, QpSetUp, Holding, Goto
  <2> QED BY <1>1, <2>1, <2>2 DEF Holding, Released
<1> QED BY <1>2, <1>3, <1>4 DEF Next, Progress, Fault, Over

\* Only ib_destroy_cq takes it away.
LEMMA CqLost ==
  ASSUME TypeInv, Next, NEW s \in Side, "cq" \in held[s], "cq" \notin held'[s]
  PROVE  \E next : FreeCq(s, next)
<1> USE SideFacts
<1>1. held \in [Side -> SUBSET Resource] /\ "cq" \notin {"dma_mr"} \cup Mapping \cup Memory
  BY DEF TypeInv, TypeOK, ContextTypeOK, Mapping, Memory
<1>2. ASSUME NEW x \in Side,
             \/ Callbacks(x) \/ Adapter(x) \/ ConnectionEstablished \/ ConnectTimeout
             \/ StrayEvent(x) \/ Signal(x) \/ UNCHANGED vars
      PROVE  FALSE
  <2>1. held' = held \/ held' = [held EXCEPT ![x] = @ \cup {"child"}]
    BY <1>2, OthersHold
  <2> QED BY <1>1, <2>1
<1>3. CASE ClientMain
  <2>1. \/ held' = held
        \/ \E what : Holding("client", what)
        \/ \E what : "cq" \notin what /\ Released("client", what)
        \/ FreeCq("client", "destroy_id")
    BY <1>1, <1>3
    DEF ClientMain, ClientStart, ClientBind, ClientBindWait, ClientBindCheck, ClientSetupQp,
        QpSetUp, SetupBuffers, PostFirstRecv, ClientConnect,
        ClientConnectWait, ClientConnectCheck, ClientAdvertise, ClientSend, ClientGoAheadWait,
        Disconnect, FreeBuffers, FreeQp, ClientDestroyId, WaitEvent, contextVars
  <2>2. CASE FreeCq("client", "destroy_id")
    <3>1. s # "client" => held'[s] = held[s]
      BY <1>1, <2>2 DEF FreeCq, Released
    <3> QED BY <2>2, <3>1
  <2> QED BY <1>1, <2>1, <2>2 DEF Holding, Released
<1>4. CASE ServerMain
  <2>1. \/ held' = held
        \/ \E what : Holding("server", what)
        \/ \E what : "cq" \notin what /\ Released("server", what)
        \/ FreeCq("server", "destroy_child")
    BY <1>1, <1>4
    DEF ServerMain, ServerStart, ServerBind, ServerRequestWait, ServerRequestCheck,
        ServerSetupQp, QpSetUp, SetupBuffers, PostFirstRecv, ServerAccept,
        ServerAcceptWait, ServerAcceptCheck, ServerPingWait, ServerRead, ServerReadWait,
        ServerWrite, ServerWriteWait, ServerNextRound, ServerGoAhead, Disconnect, FreeBuffers,
        FreeQp, ServerDestroyChild, ServerDestroyListener, WaitEvent, contextVars
  <2>2. CASE FreeCq("server", "destroy_child")
    <3>1. s # "server" => held'[s] = held[s]
      BY <1>1, <2>2 DEF FreeCq, Released
    <3> QED BY <2>2, <3>1
  <2> QED BY <1>1, <2>1, <2>2 DEF Holding, Released
<1> QED BY <1>2, <1>3, <1>4 DEF Next, Progress, Fault, Over

\* A queue of completions that are all in W.
Within(q, W) == \A i \in 1 .. Len(q) : q[i] \in W

\* How such queues grow and shrink.
LEMMA WithinMoves ==
  ASSUME NEW q \in Seq(Wc), NEW W
  PROVE  /\ Within(<<>>, W)
         /\ \A r \in Seq(Wc) : Within(q, W) /\ Within(r, W) => Within(q \o r, W)
         /\ \A wc \in W : Within(<<wc>>, W)
         /\ q # <<>> /\ Within(q, W) => Head(q) \in W /\ Within(Tail(q), W)
<1>1. Within(<<>>, W) /\ \A wc \in W : Within(<<wc>>, W)
  BY DEF Within
<1>2. ASSUME NEW r \in Seq(Wc), Within(q, W), Within(r, W)
      PROVE  Within(q \o r, W)
  <2>1. /\ Len(q \o r) = Len(q) + Len(r)
        /\ \A i \in 1 .. Len(q) : (q \o r)[i] = q[i]
        /\ \A i \in 1 .. Len(r) : (q \o r)[Len(q) + i] = r[i]
    OBVIOUS
  <2>2. \A i \in 1 .. Len(q \o r) : \/ i \in 1 .. Len(q)
                                    \/ /\ i - Len(q) \in 1 .. Len(r)
                                       /\ i = Len(q) + (i - Len(q))
    BY <2>1
  <2> QED BY <1>2, <2>1, <2>2 DEF Within
<1>3. ASSUME q # <<>>, Within(q, W)
      PROVE  Head(q) \in W /\ Within(Tail(q), W)
  <2>1. /\ Len(Tail(q)) = Len(q) - 1 /\ 1 \in 1 .. Len(q) /\ Head(q) = q[1]
        /\ \A i \in 1 .. Len(Tail(q)) : i + 1 \in 1 .. Len(q) /\ Tail(q)[i] = q[i + 1]
    BY <1>3
  <2> QED BY <1>3, <2>1 DEF Within
<1> QED BY <1>1, <1>2, <1>3, Zenon

\* What the queues of a side complete with when its queue pair goes down.
LEMMA FlushedWithin ==
  ASSUME QpTypeOK, NEW s \in Side, NEW k \in Nat, NEW W,
         WcOf("RECV", "flush", NoBuffer) \in W,
         \A j \in 1 .. Len(sq[s]) :
           /\ WcOf(sq[s][j].op, "flush", NoBuffer) \in W
           /\ sq[s][j].phase = "done" => WcOf(sq[s][j].op, "ok", NoBuffer) \in W
           /\ j = k => WcOf(sq[s][j].op, "err", NoBuffer) \in W
  PROVE  Within(Flushed(s, k), W)
<1> DEFINE Send(j) == WcOf(sq[s][j].op,
                           IF Acknowledged(s, j) THEN "ok" ELSE IF j = k THEN "err" ELSE "flush",
                           NoBuffer)
           flushed == WcOf("RECV", "flush", NoBuffer)
           n == Len(sq[s])
           q == Flushed(s, k)
<1>1. n \in Nat /\ rq[s] \in Nat
  BY DEF QpTypeOK
<1>2. \A j \in 1 .. n : Send(j) \in W
  BY <1>1 DEF Acknowledged
<1>3. /\ Len(q) = n + rq[s]
      /\ \A i \in 1 .. n : q[i] = Send(i)
      /\ \A i \in 1 .. n + rq[s] : i > n => q[i] = flushed
  <2> HIDE DEF Send, flushed
  <2>1. q = [j \in 1 .. n |-> Send(j)] \o [j \in 1 .. rq[s] |-> flushed]
    BY DEF Flushed, Send, flushed
  <2> HIDE DEF q
  <2> QED BY <1>1, <2>1
<1>4. flushed \in W
  OBVIOUS
<1> HIDE DEF Send, flushed
<1> QED BY <1>1, <1>2, <1>3, <1>4 DEF Within

\* Nothing is left of an empty queue.
LEMMA NothingRemains ==
  ASSUME TypeInv, Next, NEW s \in Side, sq[s] = <<>>, ~\E op : Posts(s, op)
  PROVE  sq'[s] = <<>>
<1>1. sq'[s] \in Seq(Wr)
  BY QueueStep, SideFacts DEF QpTypeOK
<1>2. Remains(sq'[s], sq[s])
  BY SqMoves DEF Enqueued
<1> QED BY <1>1, <1>2 DEF Remains

\* A side leaves the labels without a queue pair only by making one.
LEMMA NoQpStays ==
  ASSUME TypeInv, Next, NEW s \in Side, pc[s] \in NoQp, pc'[s] \notin NoQp
  PROVE  QpSetUp(s)
<1>1. pc \in [Side -> ClientLabel \cup ServerLabel] /\ pc'[s] # pc[s]
  BY DEF TypeInv, TypeOK, ThreadTypeOK
<1>2. IF s = "client" THEN ClientMain ELSE ServerMain
  BY <1>1, ThreadMoves
<1>3. CASE s = "client"
  BY <1>1, <1>2, <1>3
  DEF ClientMain, ClientStart, ClientBind, ClientBindWait, ClientBindCheck, ClientSetupQp,
      SetupBuffers, PostFirstRecv, ClientConnect, ClientConnectWait, ClientConnectCheck,
      ClientAdvertise, ClientSend, ClientGoAheadWait, Disconnect, FreeBuffers, FreeQp, FreeCq,
      ClientDestroyId, WaitEvent, Goto, NoQp
<1>4. CASE s = "server"
  BY <1>1, <1>2, <1>4
  DEF ServerMain, ServerStart, ServerBind, ServerRequestWait, ServerRequestCheck,
      ServerSetupQp, SetupBuffers, PostFirstRecv, ServerAccept, ServerAcceptWait,
      ServerAcceptCheck, ServerPingWait, ServerRead, ServerReadWait, ServerWrite,
      ServerWriteWait, ServerNextRound, ServerGoAhead, Disconnect, FreeBuffers, FreeQp, FreeCq,
      ServerDestroyChild, ServerDestroyListener, WaitEvent, Goto, NoQp
<1> QED BY <1>3, <1>4, SideFacts

\* The server's way to its first wait on the connection, and its ways out.
LEMMA ServerOpens ==
  ASSUME TypeInv, Next, signalled = {}, pc["server"] \in Opening \cup Leaving
  PROVE  /\ pc'["server"] \in Opening => pc["server"] \in Opening
         /\ ~(pc["server"] = "accept_wait" /\ state["server"] >= CONNECTED) =>
              /\ pc'["server"] \in Opening \cup Leaving
              /\ pc["server"] = "accept_wait" => pc'["server"] = "accept_wait"
<1>1. pc \in [Side -> ClientLabel \cup ServerLabel] /\ "server" \in Side
  BY SideFacts DEF TypeInv, TypeOK, ThreadTypeOK
<1>2. CASE pc'["server"] = pc["server"]
  BY <1>2
<1>3. CASE pc'["server"] # pc["server"]
  <2>1. ServerMain
    BY <1>1, <1>3, ThreadMoves, SideFacts
  <2> QED
    BY <1>1, <1>3, <2>1
    DEF ServerMain, ServerStart, ServerBind, ServerRequestWait, ServerRequestCheck,
        ServerSetupQp, QpSetUp, SetupBuffers, PostFirstRecv, ServerAccept, ServerAcceptWait,
        ServerAcceptCheck, ServerPingWait, ServerRead, ServerReadWait, ServerWrite,
        ServerWriteWait, ServerNextRound, ServerGoAhead, Disconnect, FreeBuffers, FreeQp,
        FreeCq, ServerDestroyChild, ServerDestroyListener, WaitEvent, Threshold, Goto,
        Opening, Leaving
<1> QED BY <1>2, <1>3

\* How the completions that wait on side s change.
LEMMA CompletionsMove ==
  ASSUME TypeInv, Next, NEW s \in Side
  PROVE  \/ cqe'[s] = cqe[s]
         \/ CqPoll(s) /\ cqe[s] # <<>> /\ cqe'[s] = Tail(cqe[s])
         \/ /\ CqRepost(s) /\ qp[s] = "err"
            /\ cqe'[s] = cqe[s] \o <<WcOf("RECV", "flush", NoBuffer)>>
         \/ FreeQp(s) /\ cqe'[s] = <<>>
         \/ \E q \in Seq(Wc) : Source(s, q) /\ cqe'[s] = cqe[s] \o q
<1>1. cqe \in [Side -> Seq(Wc)]
  BY DEF TypeInv, TypeOK, CqTypeOK
<1>2. CASE megaVM_cq_event_handler(s)
  <2>1. CASE CqPoll(s)
    BY <1>1, <2>1 DEF CqPoll
  <2>2. CASE CqRepost(s)
    <3>1. CASE PostRecv(s) /\ qp[s] = "err"
      <4>1. Only(s, <<WcOf("RECV", "flush", NoBuffer)>>)[s] = <<WcOf("RECV", "flush", NoBuffer)>>
        BY DEF Only, NoCompletion
      <4> QED BY <2>2, <3>1, <4>1 DEF PostRecv, AddCompletions
    <3>2. CASE ~(PostRecv(s) /\ qp[s] = "err")
      <4>1. cqe' = cqe
        BY <2>2, <3>2 DEF CqRepost, PostRecv
      <4> QED BY <4>1
    <3> QED BY <3>1, <3>2
  <2>3. CASE ~(CqPoll(s) \/ CqRepost(s))
    <3>1. cqe' = cqe
      BY <1>2, <2>3 DEF megaVM_cq_event_handler, CqEvent, CqArm, CqPollEmpty, CqWake
    <3> QED BY <3>1
  <2> QED BY <2>1, <2>2, <2>3
<1>3. CASE CqOwner(s)
  <2>1. CASE FreeQp(s)
    BY <1>1, <2>1 DEF FreeQp
  <2>2. CASE ~FreeQp(s)
    BY <1>3, <2>2 DEF CqOwner, FreeCq
  <2> QED BY <2>1, <2>2
<1>4. ASSUME NEW q \in Seq(Wc), Source(s, q), Enter(s, q)
      PROVE  \E r \in Seq(Wc) : Source(s, r) /\ cqe'[s] = cqe[s] \o r
  BY <1>4 DEF Enter
<1> QED BY <1>2, <1>3, <1>4, CqMoves

-----------------------------------------------------------------------------
(* What holds of a session whose waits are not cut short.                  *)

\* Completions of requests that were dropped, and of what the client posts.
Flushes == {wc \in Wc : wc.status = "flush"}
OfClient == {wc \in Wc : wc.op \in {"SEND", "RECV"}}

\* Where the queue pairs are there, and where nothing happened to them yet.
QpPlace ==
  /\ \A s \in Side : qp[s] = "none" => pc[s] \in NoQp /\ cqe[s] = <<>> /\ sq[s] = <<>>
  /\ \/ pc["client"] \in {"setup_buffers", "post_recv", "connect"}
     \/ conn \in {"requested", "accepted"}
     => qp["client"] = "init"

\* A client past its post, or on its way out, gets no connection any more.
Gone ==
  pc["client"] \notin Unsent =>
    ~Has(cmq["client"], {"ESTABLISHED"}) /\ conn \notin {"requested", "accepted"}

\* The client posts sends and nothing else.
ClientSends ==
  /\ \A k \in 1 .. Len(sq["client"]) : sq["client"][k].op = "SEND"
  /\ Within(cqe["client"], OfClient)

\* Where the completion queues are there; a side without one has no callback.
CqPlace ==
  /\ "cq" \in held["server"] => child = "set"
  /\ "cq" \in held["client"] =>
       pc["client"] \notin {"start", "bind", "bind_wait", "bind_check", "setup_qp"}
  /\ \A s \in Side : "cq" \notin held[s] => cqh[s] = "idle" /\ s \notin armed \cup cqevent

\* While the callback of s does not run and is not due, nothing waits and the queue is
\* armed, unless the callback gave up.
Announced(s) ==
  "cq" \in held[s] =>
    /\ cqh[s] = "idle" /\ s \notin cqevent =>
         \/ cqe[s] = <<>> /\ (s \in armed \/ qp[s] = "none")
         \/ state[s] = ERROR
    /\ cqh[s] \in {"poll", "repost", "wake"} => s \in armed \cup cqevent
    /\ cqh[s] = "fail" => state[s] = ERROR

\* Before the client has posted its advertisement nobody has posted anything, and the
\* server has not come past its wait for it.
ServerWaits ==
  /\ cqh["server"] \in {"idle", "arm", "poll"}
  /\ sq["server"] = <<>>
  /\ Within(cqe["server"], Flushes)
  /\ pc["server"] \in Opening \cup Leaving
  /\ pc["server"] \in Opening =>
       /\ state["server"] \in {IDLE, CONNECT_REQUEST}
       /\ ~Has(cmq["server"], Alarm)
       /\ cqe["server"] = <<>>
       /\ pc["server"] # "accept_wait" => qp["server"] \in {"none", "init"}

Fresh ==
  /\ sq["client"] = <<>> /\ cqe["client"] = <<>>
  /\ cqh["client"] = "idle" /\ "client" \notin cqevent
  /\ pc["client"] \notin {"start", "bind", "bind_wait", "bind_check", "setup_qp"} =>
       "client" \in armed

\* The client follows the connection, and the server waits while there is one.
Connecting ==
  /\ conn = "none" => pc["client"] \in PreConnect
  /\ conn = "accepted" =>
       /\ pc["client"] = "connect_wait" /\ state["client"] = ROUTE_RESOLVED
       /\ Calm(cmq["client"]) /\ pc["server"] = "accept_wait"
  /\ conn = "established" =>
       /\ pc["server"] = "accept_wait"
       /\ pc["client"] \in {"connect_wait", "connect_check", "advertise", "send"}
       /\ pc["client"] = "connect_wait" =>
            \/ state["client"] = CONNECTED /\ Calm(cmq["client"])
            \/ /\ state["client"] = ROUTE_RESOLVED
               /\ ~Has(cmq["client"], CmEvent \ (Stray \cup {"ESTABLISHED"}))
               /\ Once(cmq["client"], {"ESTABLISHED"})
       /\ pc["client"] \in {"connect_check", "advertise"} =>
            state["client"] = CONNECTED /\ Calm(cmq["client"])
       /\ pc["client"] = "send" => state["client"] = RDMA_READ_ADV /\ Calm(cmq["client"])
  /\ conn = "closed" =>
       /\ \/ pc["client"] = "connect_wait" /\ state["client"] \in {ROUTE_RESOLVED, ERROR}
          \/ pc["client"] = "connect_check" /\ state["client"] = ERROR
       /\ ~Has(cmq["client"], {"ESTABLISHED"})

Before == ServerWaits /\ Fresh /\ Connecting

SessionInv ==
  /\ QuietInv
  /\ Resolved
  /\ QpPlace
  /\ Gone
  /\ ClientSends
  /\ CqPlace
  /\ \A s \in Side : Announced(s)
  /\ pc["client"] \in Unsent => Before

-----------------------------------------------------------------------------
(* What is true of the queue pairs and of the client stays so.             *)

\* Nothing enters the queue of a side that has made no queue pair.
LEMMA NoneEnters ==
  ASSUME QpPlace, NEW s \in Side, NEW q, Source(s, q), qp[s] = "none"
  PROVE  q = <<>>
<1>1. pc[s] \in NoQp /\ Len(sq[s]) = 0 /\ sq[s] = <<>>
  BY DEF QpPlace
<1> QED BY <1>1 DEF Source, NoQp

\* Where the main threads post.
LEMMA PostsAt ==
  ASSUME TypeInv, NEW s \in Side, NEW op, Posts(s, op)
  PROVE  /\ s = "client" => op = "SEND" /\ pc[s] = "send" /\ pc'[s] = "goahead_wait"
         /\ s = "server" => pc[s] \in {"read", "write", "go_ahead"}
         /\ op \in Operation
<1>1. pc \in [Side -> ClientLabel \cup ServerLabel]
  BY DEF TypeInv, TypeOK, ThreadTypeOK
<1> QED BY <1>1 DEF Posts, ClientSend, ServerRead, ServerWrite, ServerGoAhead, Goto, Operation

\* The queue pairs stay where the labels of their threads put them.
LEMMA QpPlaceStep ==
  ASSUME SessionInv, Next
  PROVE  QpPlace'
<1> USE SideFacts
<1>1. /\ TypeInv /\ ConnInv /\ QpPlace /\ Gone
      /\ qp \in [Side -> {"none", "init", "rts", "err", "gone"}]
      /\ pc \in [Side -> ClientLabel \cup ServerLabel]
  BY DEF SessionInv, QuietInv, HeldInv, TypeInv, TypeOK, QpTypeOK, ThreadTypeOK
<1>2. ASSUME NEW s \in Side, qp'[s] = "none"
      PROVE  pc'[s] \in NoQp /\ cqe'[s] = <<>> /\ sq'[s] = <<>>
  <2>1. qp[s] = "none"
    BY <1>1, <1>2, QpGoes
  <2>2. pc[s] \in NoQp /\ cqe[s] = <<>> /\ sq[s] = <<>>
    BY <1>1, <2>1 DEF QpPlace
  <2>3. pc'[s] \in NoQp
    <3>1. QpSetUp(s) => qp'[s] = "init"
      BY <1>1 DEF QpSetUp
    <3> QED BY <1>1, <1>2, <2>2, <3>1, NoQpStays
  <2>4. sq'[s] = <<>>
    <3>1. ~\E op : Posts(s, op)
      BY <1>1, <2>2, PostsAt DEF NoQp
    <3> QED BY <1>1, <2>2, <3>1, NothingRemains
  <2>5. cqe'[s] = <<>>
    <3>1. \A q \in Seq(Wc) : Source(s, q) => cqe[s] \o q = <<>>
      BY <1>1, <2>1, <2>2, NoneEnters
    <3> QED BY <1>1, <2>1, <2>2, <3>1, CompletionsMove
  <2> QED BY <2>3, <2>4, <2>5
<1>3. ASSUME \/ pc'["client"] \in {"setup_buffers", "post_recv", "connect"}
             \/ conn' \in {"requested", "accepted"}
      PROVE  qp'["client"] = "init"
  <2>1. \/ pc["client"] \in {"setup_buffers", "post_recv", "connect"}
        \/ conn \in {"requested", "accepted"}
        \/ pc["client"] = "setup_qp" /\ pc'["client"] = "setup_buffers"
    <3>1. ASSUME conn' \in {"requested", "accepted"}
          PROVE  conn \in {"requested", "accepted"} \/ pc["client"] = "connect"
      BY <1>1, <3>1, ConnBy
      DEF ClientConnect, ConnectionEstablished, ConnectTimeout
    <3>2. ASSUME pc'["client"] \in {"setup_buffers", "post_recv", "connect"}
          PROVE  \/ pc["client"] \in {"setup_buffers", "post_recv", "connect"}
                 \/ pc["client"] = "setup_qp" /\ pc'["client"] = "setup_buffers"
      <4>1. CASE pc'["client"] = pc["client"]
        BY <3>2, <4>1
      <4>2. CASE pc'["client"] # pc["client"]
        <5>1. ClientMain
          BY <1>1, <4>2, ThreadMoves
        <5> QED
          BY <1>1, <3>2, <4>2, <5>1
          DEF ClientMain, ClientStart, ClientBind, ClientBindWait, ClientBindCheck,
              ClientSetupQp, QpSetUp, SetupBuffers, PostFirstRecv, ClientConnect,
              ClientConnectWait, ClientConnectCheck, ClientAdvertise, ClientSend,
              ClientGoAheadWait, Disconnect, FreeBuffers, FreeQp, FreeCq, ClientDestroyId,
              WaitEvent, Goto
      <4> QED BY <4>1, <4>2
    <3> QED BY <1>3, <3>1, <3>2
  <2>2. CASE pc["client"] = "setup_qp" /\ pc'["client"] = "setup_buffers"
    <3>1. QpSetUp("client")
      BY <1>1, <2>2, NoQpStays DEF NoQp
    <3> QED BY <1>1, <3>1 DEF QpSetUp
  <2>3. CASE \/ pc["client"] \in {"setup_buffers", "post_recv", "connect"}
             \/ conn \in {"requested", "accepted"}
    <3>1. qp["client"] = "init"
      BY <1>1, <2>3 DEF QpPlace
    <3>2. pc["client"] \in Unsent
      BY <1>1, <2>3 DEF Gone, Unsent, PreConnect
    <3>3. ~FreeQp("client") /\ pc["client"] \notin {"accept", "disconnect"}
      BY <3>2 DEF FreeQp, Unsent, PreConnect
    <3>4. conn' # "established" \/ ~ConnectionEstablished
      BY <1>1, <1>3, <2>3 DEF ConnInv, PreConnect, ConnectionEstablished, threadVars
    <3> QED BY <1>1, <3>1, <3>3, <3>4, QpGoes
  <2> QED BY <2>1, <2>2, <2>3
<1> QED BY <1>2, <1>3 DEF QpPlace

\* Who has not heard of a connection hears of it when it is established.
LEMMA EstablishedHeard ==
  ASSUME TypeInv, Next, NEW s \in Side, ~ConnectionEstablished,
         ~Has(cmq[s], {"ESTABLISHED"})
  PROVE  ~Has(cmq'[s], {"ESTABLISHED"})
<1>1. cmq[s] \in Seq(CmEvent)
  BY DEF TypeInv, TypeOK, CmTypeOK
<1>2. Stray \cup Answer \cup Resolution \cup {"CONNECT_REQUEST"} \subseteq CmEvent
  BY DEF Stray, Answer, Resolution, CmEvent
<1>3. \A event \in CmEvent : event # "ESTABLISHED" => ~Has(Append(cmq[s], event), {"ESTABLISHED"})
  BY <1>1, HasMoves
<1>4. cmq[s] # <<>> =>
        /\ Tail(cmq[s]) \in Seq(CmEvent)
        /\ ~Has(Tail(cmq[s]), {"ESTABLISHED"})
  BY <1>1, HasMoves
<1>5. cmq[s] # <<>> =>
        \A event \in Resolution : ~Has(Append(Tail(cmq[s]), event), {"ESTABLISHED"})
  <2>1. ASSUME NEW q \in Seq(CmEvent), ~Has(q, {"ESTABLISHED"}), NEW event \in Resolution
        PROVE  ~Has(Append(q, event), {"ESTABLISHED"})
    BY <1>2, <2>1, HasMoves DEF Resolution
  <2> QED BY <1>4, <2>1
<1>6. ~Has(<<>>, {"ESTABLISHED"})
  BY <1>1, HasMoves
<1>7. CmaEvent(s) => cmq[s] # <<>>
  BY DEF CmaEvent
<1>8. "ESTABLISHED" \notin Stray /\ {"ROUTE_RESOLVED", "ROUTE_ERROR", "ADDR_RESOLVED",
                                      "ADDR_ERROR"} = Resolution /\ "REJECTED" \in Answer
  BY DEF Stray, Resolution, Answer
<1> QED BY <1>2, <1>3, <1>4, <1>5, <1>6, <1>7, <1>8, Hears DEF Hearing

\* A client that has not connected hears of no connection.
LEMMA NotHeardYet ==
  ASSUME QuietInv, pc["client"] \in PreConnect
  PROVE  ~Has(cmq["client"], {"ESTABLISHED"})
BY DEF QuietInv, ClientQuiet, PreConnect, Calm, Resolving, Has, Stray, Resolution, CmEvent

\* A calm queue holds no connection.
LEMMA CalmNotEstablished ==
  ASSUME NEW q, Calm(q)
  PROVE  ~Has(q, {"ESTABLISHED"})
BY DEF Calm, Has, Stray, CmEvent

\* A client that is gone gets no connection later.
LEMMA GoneStep ==
  ASSUME SessionInv, Next
  PROVE  Gone'
<1> USE SideFacts
<1>1. /\ TypeInv /\ QuietInv /\ ConnInv /\ Gone /\ signalled = {}
      /\ pc \in [Side -> ClientLabel \cup ServerLabel]
      /\ conn \in {"none", "requested", "accepted", "established", "closed"}
  BY DEF SessionInv, QuietInv, HeldInv, ConnInv, TypeInv, TypeOK, ThreadTypeOK, CmTypeOK
<1>2. SUFFICES ASSUME pc'["client"] \notin Unsent
               PROVE  /\ ~Has(cmq'["client"], {"ESTABLISHED"})
                      /\ conn' \notin {"requested", "accepted"}
  BY DEF Gone
<1>3. ~Has(cmq["client"], {"ESTABLISHED"}) /\ conn \notin {"requested", "accepted"}
  <2>1. CASE pc["client"] \notin Unsent
    BY <1>1, <2>1 DEF Gone
  <2>2. CASE pc["client"] \in Unsent
    <3>1. CASE pc["client"] \in PreConnect
      BY <1>1, <3>1, NotHeardYet DEF ConnInv
    <3>2. CASE pc["client"] \notin PreConnect
      <4>1. ClientMain
        BY <1>1, <1>2, <2>2, ThreadMoves
      <4>2. pc["client"] # "connect_wait"
        BY <1>1, <1>2, <2>2, <4>1, ClientPath DEF Unsent
      <4>3. Connecting
        BY <2>2 DEF SessionInv, Before
      <4> QED BY <1>1, <2>2, <3>2, <4>2, <4>3, CalmNotEstablished DEF ConnInv, Connecting
    <3> QED BY <3>1, <3>2
  <2> QED BY <2>1, <2>2
<1>4. ~ConnectionEstablished
  BY <1>3 DEF ConnectionEstablished
<1>5. conn' \notin {"requested", "accepted"}
  BY <1>1, <1>2, <1>3, ConnBy DEF ConnectTimeout, ConnectionEstablished, Unsent
<1> QED BY <1>1, <1>3, <1>4, <1>5, EstablishedHeard

\* What comes out of the client's requests.
LEMMA ClientSendsStep ==
  ASSUME SessionInv, Next
  PROVE  ClientSends'
<1> USE SideFacts
<1>1. /\ TypeInv /\ ClientSends /\ QpTypeOK
      /\ cqe["client"] \in Seq(Wc) /\ sq["client"] \in Seq(Wr)
  BY DEF SessionInv, QuietInv, HeldInv, TypeInv, TypeOK, QpTypeOK, CqTypeOK
<1>2. \A k \in 1 .. Len(sq'["client"]) : sq'["client"][k].op = "SEND"
  <2>1. CASE Remains(sq'["client"], sq["client"])
    BY <1>1, <2>1 DEF Remains, ClientSends
  <2>2. ASSUME NEW op, Enqueued("client", op)
        PROVE  \A k \in 1 .. Len(sq'["client"]) : sq'["client"][k].op = "SEND"
    <3>1. op = "SEND"
      BY <1>1, <2>2, PostsAt DEF Enqueued
    <3>2. PICK buf : sq'["client"] = Append(sq["client"], [op |-> op, buf |-> buf,
                                                          phase |-> "posted", val |-> "junk"])
      BY <2>2 DEF Enqueued
    <3>3. ASSUME NEW wr, wr.op = "SEND", sq'["client"] = Append(sq["client"], wr)
          PROVE  \A k \in 1 .. Len(sq'["client"]) : sq'["client"][k].op = "SEND"
      BY <1>1, <3>3 DEF ClientSends
    <3> QED BY <3>1, <3>2, <3>3
  <2> QED BY <1>1, <2>1, <2>2, SqMoves
<1>3. \A op \in {"SEND", "RECV"} : \A status \in {"ok", "err", "flush"} :
        \A info \in Buffer \cup {NoBuffer} : WcOf(op, status, info) \in OfClient
  <2>1. {"SEND", "RECV"} \subseteq Operation \cup {"RECV"}
    BY DEF Operation
  <2> QED BY <2>1, WcOfType DEF OfClient, WcOf
<1>4. \A k \in Nat : Within(Flushed("client", k), OfClient)
  BY <1>1, <1>3, FlushedWithin DEF ClientSends
<1>5. ASSUME NEW q \in Seq(Wc), Source("client", q)
      PROVE  Within(q, OfClient)
  <2>1. \A wc \in OfClient : Within(<<wc>>, OfClient) /\ Within(<<>>, OfClient)
    BY <1>1, WithinMoves
  <2>2. Within(<<>>, OfClient)
    BY <1>1, WithinMoves
  <2>3. sq["client"] # <<>> => Head(sq["client"]).op = "SEND"
    BY <1>1 DEF ClientSends
  <2>4. \A k \in 1 .. Len(sq["server"]) : sq["server"][k].buf \in Buffer \cup {NoBuffer}
    BY <1>1, SqEntryType
  <2>5. \A op : Posts("client", op) => op = "SEND"
    BY <1>1, PostsAt
  <2>6. Peer("client") = "server"
    BY DEF Peer
  <2>7. Len(sq["client"]) \in Nat
    BY <1>1
  <2> QED BY <1>3, <1>4, <1>5, <2>1, <2>2, <2>3, <2>4, <2>5, <2>6, <2>7 DEF Source
<1>6. Within(cqe'["client"], OfClient)
  <2>1. Within(cqe["client"], OfClient)
    BY <1>1 DEF ClientSends
  <2>2. WcOf("RECV", "flush", NoBuffer) \in OfClient
    BY <1>3
  <2>3. /\ Within(<<WcOf("RECV", "flush", NoBuffer)>>, OfClient)
        /\ <<WcOf("RECV", "flush", NoBuffer)>> \in Seq(Wc)
    <3>1. WcOf("RECV", "flush", NoBuffer) \in Wc
      BY WcOfType
    <3>2. <<WcOf("RECV", "flush", NoBuffer)>> \in Seq(Wc)
      BY <3>1
    <3>3. Within(<<WcOf("RECV", "flush", NoBuffer)>>, OfClient)
      BY <1>1, <2>2, WithinMoves
    <3> QED BY <3>2, <3>3
  <2>4. \A q \in Seq(Wc) : Within(q, OfClient) => Within(cqe["client"] \o q, OfClient)
    BY <1>1, <2>1, WithinMoves
  <2>5. /\ Within(<<>>, OfClient)
        /\ cqe["client"] # <<>> => Within(Tail(cqe["client"]), OfClient)
    BY <1>1, <2>1, WithinMoves
  <2> QED BY <1>1, <1>5, <2>1, <2>3, <2>4, <2>5, CompletionsMove
<1> QED BY <1>2, <1>6 DEF ClientSends

\* A client past its setup does not come back to it.
LEMMA SetupIsOver ==
  ASSUME TypeInv, Next,
         pc'["client"] \in {"start", "bind", "bind_wait", "bind_check", "setup_qp"}
  PROVE  pc["client"] \in {"start", "bind", "bind_wait", "bind_check", "setup_qp"}
<1>1. pc \in [Side -> ClientLabel \cup ServerLabel]
  BY DEF TypeInv, TypeOK, ThreadTypeOK
<1>2. CASE pc'["client"] # pc["client"]
  <2>1. ClientMain
    BY <1>2, ThreadMoves, SideFacts
  <2> QED BY <1>1, <1>2, <2>1, ClientPath DEF PreConnect
<1> QED BY <1>2

\* The completion queues stay where the labels of their threads put them.
LEMMA CqPlaceStep ==
  ASSUME SessionInv, Next
  PROVE  CqPlace'
<1> USE SideFacts
<1>1. /\ TypeInv /\ CqPlace /\ ClientHasNoChild
      /\ pc \in [Side -> ClientLabel \cup ServerLabel] /\ held \in [Side -> SUBSET Resource]
      /\ cqh \in [Side -> CqPhase]
  BY DEF SessionInv, QuietInv, HeldInv, TypeInv, TypeOK, ThreadTypeOK, ContextTypeOK, CqTypeOK
<1>2. ASSUME "cq" \in held'["server"]
      PROVE  child' = "set"
  <2>1. CASE "cq" \in held["server"]
    BY <1>1, <2>1, ChildMoves DEF CqPlace
  <2>2. CASE "cq" \notin held["server"]
    BY <1>1, <1>2, <2>2, CqGained
  <2> QED BY <2>1, <2>2
<1>3. ASSUME "cq" \in held'["client"]
      PROVE  pc'["client"] \notin {"start", "bind", "bind_wait", "bind_check", "setup_qp"}
  <2>1. CASE "cq" \in held["client"]
    BY <1>1, <2>1, SetupIsOver DEF CqPlace
  <2>2. CASE "cq" \notin held["client"]
    <3>1. QpSetUp("client")
      BY <1>1, <1>3, <2>2, CqGained
    <3> QED BY <1>1, <3>1 DEF QpSetUp, Goto
  <2> QED BY <2>1, <2>2
<1>4. ASSUME NEW s \in Side, "cq" \notin held'[s]
      PROVE  cqh'[s] = "idle" /\ s \notin armed' \cup cqevent'
  <2>1. ASSUME NEW next, FreeCq(s, next)
        PROVE  cqh'[s] = "idle" /\ s \notin armed' \cup cqevent'
    BY <2>1 DEF FreeCq
  <2>2. CASE "cq" \in held[s]
    BY <1>1, <1>4, <2>1, <2>2, CqLost
  <2>3. CASE "cq" \notin held[s]
    <3>1. cqh[s] = "idle" /\ s \notin armed \cup cqevent
      BY <1>1, <2>3 DEF CqPlace
    <3>2. ~megaVM_cq_event_handler(s)
      BY <3>1
      DEF megaVM_cq_event_handler, CqEvent, CqArm, CqPollEmpty, CqPoll, CqRepost, CqWake
    <3>3. CASE CqOwner(s)
      <4>1. ~QpSetUp(s)
        BY <1>1, <1>4 DEF QpSetUp, Holding
      <4>2. FreeQp(s) => cqh'[s] = "idle" /\ s \notin armed' \cup cqevent'
        BY <3>1 DEF FreeQp
      <4> QED BY <2>1, <3>3, <4>1, <4>2 DEF CqOwner
    <3>4. ASSUME NEW q, Enter(s, q)
          PROVE  cqh'[s] = "idle" /\ s \notin armed' \cup cqevent'
      BY <3>1, <3>4 DEF Enter
    <3> QED BY <1>1, <3>2, <3>3, <3>4, CqMoves
  <2> QED BY <2>2, <2>3
<1> QED BY <1>2, <1>3, <1>4 DEF CqPlace

-----------------------------------------------------------------------------
(* Until the client has posted its advertisement.                          *)

\* Only what was dropped completes then, and not while the thread goes on.
LEMMA OnlyFlushes ==
  ASSUME SessionInv, Next, pc["client"] \in Unsent, NEW s \in Side, NEW q \in Seq(Wc),
         Source(s, q)
  PROVE  /\ Within(q, Flushes)
         /\ \/ q = <<>>
            \/ pc[s] \in {"accept", "disconnect"} /\ pc'[s] = "free_buffers"
            \/ s = "client" /\ pc'[s] = "goahead_wait"
<1> USE SideFacts
<1>1. /\ TypeInv /\ QpPlace /\ ServerWaits /\ Fresh
      /\ QpTypeOK /\ sq["client"] = <<>> /\ sq["server"] = <<>>
      /\ pc \in [Side -> ClientLabel \cup ServerLabel]
  BY DEF SessionInv, QuietInv, HeldInv, TypeInv, TypeOK, ThreadTypeOK, Before, ServerWaits, Fresh
<1>2. sq[s] = <<>> /\ sq[Peer(s)] = <<>> /\ Len(<<>>) = 0
  BY <1>1
<1>3. \A op \in Operation \cup {"RECV"} : WcOf(op, "flush", NoBuffer) \in Flushes
  BY WcOfType DEF Flushes, WcOf
<1>4. WcOf("RECV", "flush", NoBuffer) \in Flushes
  BY <1>3
<1>5. Within(Flushed(s, 0), Flushes)
  BY <1>1, <1>2, <1>4, FlushedWithin
<1>6. Within(<<>>, Flushes) /\ \A wc \in Flushes : Within(<<wc>>, Flushes)
  BY WithinMoves
<1>7. ~(qp[s] = "err" /\ pc[s] = "post_recv")
  BY <1>1 DEF QpPlace, ServerWaits, Opening
<1>8. ASSUME NEW op \in Operation, Posts(s, op), q = <<WcOf(op, "flush", NoBuffer)>>
      PROVE  Within(q, Flushes) /\ s = "client" /\ pc'[s] = "goahead_wait"
  <2>1. Within(q, Flushes)
    BY <1>3, <1>6, <1>8
  <2> QED BY <1>1, <1>8, <2>1, PostsAt DEF ServerWaits, Opening, Leaving
<1> QED BY <1>2, <1>5, <1>6, <1>7, <1>8 DEF Source

\* Nobody's adapter does anything.
LEMMA NoQpFails ==
  ASSUME SessionInv, pc["client"] \in Unsent, NEW x \in Side, NEW k \in 1 .. Len(sq[x])
  PROVE  FALSE
<1>1. sq["client"] = <<>> /\ sq["server"] = <<>>
  BY DEF SessionInv, Before, ServerWaits, Fresh
<1> QED BY <1>1 DEF Side

\* Until the client posts, nothing comes into its queues and its callback stays idle.
LEMMA FreshStep ==
  ASSUME SessionInv, Next, pc["client"] \in Unsent, pc'["client"] \in Unsent
  PROVE  Fresh'
<1> USE SideFacts
<1>1. /\ TypeInv /\ Fresh
      /\ pc \in [Side -> ClientLabel \cup ServerLabel]
      /\ cqe["client"] \in Seq(Wc)
  BY DEF SessionInv, QuietInv, HeldInv, TypeInv, TypeOK, ThreadTypeOK, CqTypeOK, Before
<1>2. sq'["client"] = <<>>
  <2>1. ~\E op : Posts("client", op)
    BY <1>1, PostsAt DEF Unsent, PreConnect
  <2> QED BY <1>1, <2>1, NothingRemains DEF Fresh
<1>3. ASSUME NEW q \in Seq(Wc), Source("client", q), Enter("client", q)
      PROVE  Fresh'
  <2>1. q = <<>>
    BY <1>3, OnlyFlushes DEF Unsent, PreConnect
  <2>2. cqe'["client"] = <<>>
    BY <1>1, <1>3, <2>1 DEF Enter, Fresh
  <2>3. pc'["client"] \notin {"start", "bind", "bind_wait", "bind_check", "setup_qp"} =>
          "client" \in armed'
    <3>1. CASE pc["client"] \notin {"start", "bind", "bind_wait", "bind_check", "setup_qp"}
      BY <1>1, <1>3, <2>1, <3>1 DEF Enter, Fresh
    <3>2. CASE pc["client"] \in {"start", "bind", "bind_wait", "bind_check", "setup_qp"}
      <4>1. CASE QpSetUp("client")
        BY <1>1, <4>1 DEF QpSetUp
      <4>2. CASE ~QpSetUp("client")
        <5>1. pc["client"] \in NoQp /\ (pc'["client"] \in NoQp \/ QpSetUp("client"))
          BY <1>1, <3>2, NoQpStays DEF NoQp
        <5> QED BY <4>2, <5>1 DEF NoQp, Unsent, PreConnect
      <4> QED BY <4>1, <4>2
    <3> QED BY <3>1, <3>2
  <2> QED BY <1>1, <1>2, <1>3, <2>1, <2>2, <2>3 DEF Enter, Fresh
<1>4. CASE CqOwner("client")
  <2>1. ~FreeQp("client") /\ ~\E next : FreeCq("client", next)
    BY <1>1 DEF FreeQp, FreeCq, Unsent, PreConnect
  <2>2. QpSetUp("client") /\ UNCHANGED <<cqh, cqe, cqevent>>
    BY <1>4, <2>1 DEF CqOwner
  <2> QED BY <1>1, <1>2, <2>2 DEF QpSetUp, Fresh
<1>5. ~megaVM_cq_event_handler("client")
  BY <1>1
  DEF Fresh, megaVM_cq_event_handler, CqEvent, CqArm, CqPollEmpty, CqPoll, CqRepost, CqWake
<1> QED BY <1>1, <1>3, <1>4, <1>5, CqMoves

\* The connection changes then only by being accepted, refused or established.
LEMMA ConnBefore ==
  ASSUME NothingCutShort, SessionInv, Next, pc["client"] \in Unsent
  PROVE  \/ conn' = conn
         \/ ClientConnect /\ pc'["client"] = "connect_wait" /\ conn' \in {"requested", "closed"}
         \/ /\ ServerAccept
            /\ \/ /\ conn = "requested" /\ conn' = "accepted"
                  /\ pc'["server"] = "accept_wait" /\ cmq' = cmq
               \/ conn' = "closed" /\ pc'["server"] = "free_buffers"
         \/ ConnectionEstablished /\ qp["client"] = "init"
         \/ /\ conn = "requested" /\ conn' = "closed"
            /\ pc["server"] \in {"done", "oops", "destroy_child", "destroy_listener"}
<1>1. /\ TypeInv /\ QpPlace /\ Connecting /\ ServerWaits
      /\ <<"client", "timeout">> \notin Faults
      /\ conn \in {"none", "requested", "accepted", "established", "closed"}
  BY SideFacts
  DEF SessionInv, QuietInv, HeldInv, Before, NothingCutShort, TypeInv, TypeOK, CmTypeOK
<1>2. ConnectionEstablished => qp["client"] = "init"
  BY <1>1 DEF QpPlace, ConnectionEstablished
<1>3. ConnectTimeout => /\ conn = "requested" /\ conn' = "closed"
                        /\ pc["server"] \in {"done", "oops"}
  BY <1>1 DEF ConnectTimeout
<1>4. ASSUME Answering, conn' = "closed",
             \/ pc["client"] \in {"disconnect", "destroy_id"}
             \/ pc["server"] \in {"disconnect", "destroy_child", "destroy_listener"}
      PROVE  conn = "requested" /\ pc["server"] \in {"destroy_child", "destroy_listener"}
  <2>1. pc["server"] \in {"destroy_child", "destroy_listener"}
    BY <1>1, <1>4 DEF Unsent, PreConnect, ServerWaits, Opening, Leaving
  <2> QED BY <1>1, <1>4, <2>1 DEF Answering, Connecting
<1> QED BY <1>1, <1>2, <1>3, <1>4, ConnBy

\* While the connection does not change, the server hears of no end of it.
LEMMA AlarmKept ==
  ASSUME TypeInv, Next, ~Answering, ~Has(cmq["server"], Alarm), ~Has(cmq["server"], Resolution)
  PROVE  ~Has(cmq'["server"], Alarm)
<1>1. cmq["server"] \in Seq(CmEvent) /\ "server" \in Side
  BY SideFacts DEF TypeInv, TypeOK, CmTypeOK
<1>2. /\ Stray \cup {"CONNECT_REQUEST"} \subseteq CmEvent \ Alarm
      /\ "ADDR_RESOLVED" \in Resolution
  BY DEF Stray, Alarm, CmErrors, CmEvent, Resolution
<1>3. \A event \in CmEvent \ Alarm : ~Has(Append(cmq["server"], event), Alarm)
  BY <1>1, HasMoves
<1>4. /\ ~Has(<<>>, Alarm)
      /\ cmq["server"] # <<>> => /\ ~Has(Tail(cmq["server"]), Alarm)
                                 /\ Head(cmq["server"]) \notin Resolution
  BY <1>1, HasMoves
<1>5. CmaEvent("server") => cmq["server"] # <<>>
  BY DEF CmaEvent
<1>6. \/ cmq'["server"] \in {cmq["server"], <<>>}
      \/ \E event \in Stray \cup {"CONNECT_REQUEST"} :
           cmq'["server"] = Append(cmq["server"], event)
      \/ CmaEvent("server") /\ cmq'["server"] = Tail(cmq["server"])
      \/ CmaEvent("server") /\ Head(cmq["server"]) = "ADDR_RESOLVED"
  BY <1>1, SideFacts, Hears DEF Hearing
<1>7. CASE cmq'["server"] \in {cmq["server"], <<>>}
  BY <1>4, <1>7
<1>8. CASE \E event \in Stray \cup {"CONNECT_REQUEST"} :
             cmq'["server"] = Append(cmq["server"], event)
  BY <1>2, <1>3, <1>8
<1>9. CASE CmaEvent("server") /\ cmq'["server"] = Tail(cmq["server"])
  BY <1>4, <1>5, <1>9
<1>10. CASE CmaEvent("server") /\ Head(cmq["server"]) = "ADDR_RESOLVED"
  BY <1>2, <1>4, <1>5, <1>10
<1> QED BY <1>6, <1>7, <1>8, <1>9, <1>10

\* The server hears of no end of it while it opens.
LEMMA NoAlarm ==
  ASSUME NothingCutShort, SessionInv, Next, pc["client"] \in Unsent, pc["server"] \in Opening
  PROVE  ~Has(cmq'["server"], Alarm)
<1> USE SideFacts
<1>1. /\ TypeInv /\ ServerWaits /\ ConnInv /\ Resolved
      /\ cmq \in [Side -> Seq(CmEvent)]
      /\ ~Has(cmq["server"], Alarm) /\ ~Has(cmq["server"], Resolution)
  BY DEF SessionInv, QuietInv, HeldInv, TypeInv, TypeOK, CmTypeOK, Before, ServerWaits, Resolved
<1>2. /\ Stray \cup {"CONNECT_REQUEST", "ESTABLISHED"} \subseteq CmEvent \ Alarm
      /\ "ADDR_RESOLVED" \in Resolution
  BY DEF Stray, Alarm, CmErrors, CmEvent, Resolution
<1>3. \A event \in CmEvent \ Alarm : ~Has(Append(cmq["server"], event), Alarm)
  BY <1>1, HasMoves
<1>5. CASE ServerAccept
  <2>1. cmq'["server"] = cmq["server"]
    BY <1>1, <1>5 DEF ServerAccept
  <2> QED BY <1>1, <2>1
<1>6. CASE ConnectionEstablished /\ qp["client"] = "init"
  <2>1. cmq'["server"] = cmq["server"] \/ cmq'["server"] = Append(cmq["server"], "ESTABLISHED")
    BY <1>1, <1>6, Establishes
  <2> QED BY <1>1, <1>2, <1>3, <2>1
<1>7. CASE ~Answering
  BY <1>1, <1>7, AlarmKept
<1>8. ClientConnect => ~Answering
  BY <1>1 DEF ClientConnect, ConnInv, PreConnect, Answering
<1>9. pc["server"] \notin {"done", "oops", "destroy_child", "destroy_listener"}
  BY DEF Opening
<1> QED BY <1>5, <1>6, <1>7, <1>8, <1>9, ConnBefore DEF Answering

\* Until the client posts, the server waits or leaves.
LEMMA ServerWaitsStep ==
  ASSUME NothingCutShort, SessionInv, Next, pc["client"] \in Unsent
  PROVE  ServerWaits'
<1> USE SideFacts
<1>1. /\ TypeInv /\ ServerWaits /\ Resolved /\ signalled = {}
      /\ cqe["server"] \in Seq(Wc) /\ cqh \in [Side -> CqPhase]
      /\ cmq["server"] \in Seq(CmEvent)
      /\ state["server"] \in TestState
      /\ pc \in [Side -> ClientLabel \cup ServerLabel]
  BY DEF SessionInv, QuietInv, HeldInv, ConnInv, TypeInv, TypeOK, ThreadTypeOK, CqTypeOK,
         CmTypeOK, ContextTypeOK, Before
<1>2. ~\E op : Posts("server", op)
  BY <1>1, PostsAt DEF ServerWaits, Opening, Leaving
<1>3. sq'["server"] = <<>>
  BY <1>1, <1>2, NothingRemains DEF ServerWaits
<1>4. cqh'["server"] \in {"idle", "arm", "poll"}
  <2>1. CASE megaVM_cq_event_handler("server")
    <3>1. CqPoll("server") => Head(cqe["server"]).status = "flush"
      BY <1>1, WithinMoves DEF CqPoll, ServerWaits, Flushes
    <3>2. ~CqRepost("server") /\ ~CqWake("server")
      BY <1>1 DEF ServerWaits, CqRepost, CqWake
    <3>3. CASE CqPoll("server")
      BY <1>1, <3>1, <3>3 DEF CqPoll, ServerWaits
    <3> QED BY <1>1, <2>1, <3>2, <3>3
        DEF megaVM_cq_event_handler, CqEvent, CqArm, CqPollEmpty, CqGoto
  <2>2. CASE CqOwner("server")
    BY <1>1, <2>2 DEF CqOwner, FreeQp, FreeCq, ServerWaits
  <2>3. ASSUME NEW q, Enter("server", q)
        PROVE  cqh'["server"] \in {"idle", "arm", "poll"}
    BY <1>1, <2>3 DEF Enter, ServerWaits
  <2> QED BY <1>1, <2>1, <2>2, <2>3, CqMoves
<1>5. ~CqRepost("server")
  BY <1>1 DEF ServerWaits, CqRepost
<1>6. Within(cqe'["server"], Flushes)
  <2>1. \A q \in Seq(Wc) : Within(q, Flushes) => Within(cqe["server"] \o q, Flushes)
    BY <1>1, WithinMoves DEF ServerWaits
  <2>2. Within(<<>>, Flushes) /\ (cqe["server"] # <<>> => Within(Tail(cqe["server"]), Flushes))
    BY <1>1, WithinMoves DEF ServerWaits
  <2>3. \A q \in Seq(Wc) : Source("server", q) => Within(q, Flushes)
    BY OnlyFlushes
  <2> QED BY <1>1, <1>5, <2>1, <2>2, <2>3, CompletionsMove DEF ServerWaits
<1>7. /\ pc'["server"] \in Opening \cup Leaving
      /\ pc'["server"] \in Opening => pc["server"] \in Opening
      /\ pc["server"] = "accept_wait" => pc'["server"] = "accept_wait"
  <2>1. ~(pc["server"] = "accept_wait" /\ state["server"] >= CONNECTED)
    BY <1>1 DEF ServerWaits, Opening, IDLE, CONNECT_REQUEST, CONNECTED
  <2> QED BY <1>1, <2>1, ServerOpens DEF ServerWaits
<1>8. ASSUME pc'["server"] \in Opening
      PROVE  /\ state'["server"] \in {IDLE, CONNECT_REQUEST}
             /\ ~Has(cmq'["server"], Alarm)
             /\ cqe'["server"] = <<>>
             /\ pc'["server"] # "accept_wait" => qp'["server"] \in {"none", "init"}
  <2>1. /\ pc["server"] \in Opening /\ state["server"] \in {IDLE, CONNECT_REQUEST}
        /\ ~Has(cmq["server"], Alarm) /\ cqe["server"] = <<>>
        /\ ~Has(cmq["server"], Resolution)
    BY <1>1, <1>7, <1>8 DEF ServerWaits, Resolved
  <2>2. ~CqPoll("server")
    BY <2>1 DEF CqPoll
  <2>3. state'["server"] \in {IDLE, CONNECT_REQUEST}
    <3>1. CASE CmaEvent("server")
      <4>1. /\ cmq["server"] # <<>> /\ Head(cmq["server"]) \notin Alarm \cup Resolution
        BY <1>1, <2>1, <3>1, CmaMoves, HasMoves
      <4>2. StateOfEvent("server", Head(cmq["server"])) = state["server"]
        BY <4>1 DEF StateOfEvent, Alarm, Resolution
      <4>3. Head(cmq["server"]) # "ADDR_RESOLVED"
        BY <4>1 DEF Resolution
      <4> QED BY <1>1, <2>1, <3>1, <4>2, <4>3, CmaMoves
    <3> QED BY <1>1, <1>5, <2>1, <2>2, <3>1, StateBy
  <2>4. cqe'["server"] = <<>>
    <3>1. \A q \in Seq(Wc) : Source("server", q) => q = <<>>
      BY <1>8, OnlyFlushes DEF Opening
    <3>2. ~FreeQp("server")
      BY <2>1 DEF FreeQp, Opening
    <3> QED BY <1>1, <1>5, <2>1, <2>2, <3>1, <3>2, CompletionsMove
  <2>5. ASSUME pc'["server"] # "accept_wait"
        PROVE  qp'["server"] \in {"none", "init"}
    <3>1. qp["server"] \in {"none", "init"}
      BY <1>1, <1>7, <2>1, <2>5 DEF ServerWaits
    <3>2. pc'["server"] # "free_buffers" /\ ~FreeQp("server")
      BY <1>8, <2>1 DEF Opening, FreeQp
    <3> QED BY <1>1, <2>5, <3>1, <3>2, QpGoes
  <2> QED BY <2>1, <2>3, <2>4, <2>5, NoAlarm
<1> QED BY <1>3, <1>4, <1>6, <1>7, <1>8 DEF ServerWaits

\* A queue without events that call for something stays so, and moves no state.
LEMMA CalmKept ==
  ASSUME TypeInv, Next, Calm(cmq["client"]), ~Answering,
         pc["client"] \notin {"bind", "connect"}
  PROVE  /\ Calm(cmq'["client"])
         /\ CmaEvent("client") => state'["client"] = state["client"]
<1>1. cmq["client"] \in Seq(CmEvent) /\ "client" \in Side
  BY SideFacts DEF TypeInv, TypeOK, CmTypeOK
<1>2. Calm(<<>>) /\ \A event \in Stray : Calm(Append(cmq["client"], event))
  BY <1>1, CalmMoves
<1>3. CmaEvent("client") =>
        /\ Head(cmq["client"]) \in Stray /\ Calm(Tail(cmq["client"]))
        /\ cmq'["client"] = Tail(cmq["client"])
        /\ state'["client"] \in {state["client"], StateOfEvent("client", Head(cmq["client"]))}
  <2>1. SUFFICES ASSUME CmaEvent("client")
                 PROVE  /\ Head(cmq["client"]) \in Stray /\ Calm(Tail(cmq["client"]))
                        /\ cmq'["client"] = Tail(cmq["client"])
                        /\ state'["client"] \in {state["client"],
                                                 StateOfEvent("client", Head(cmq["client"]))}
    OBVIOUS
  <2>2. cmq["client"] # <<>>
    BY <1>1, <2>1, CmaMoves
  <2>3. Head(cmq["client"]) \in Stray /\ Calm(Tail(cmq["client"]))
    BY <1>1, <2>2, CalmMoves
  <2>4. Head(cmq["client"]) \notin {"ADDR_RESOLVED", "CONNECT_REQUEST"}
    BY <2>3 DEF Stray
  <2> QED BY <1>1, <2>1, <2>3, <2>4, CmaMoves
<1>4. \A event \in Stray : StateOfEvent("client", event) = state["client"]
  BY DEF Stray, StateOfEvent, CmErrors
<1>5. ~ClientBind /\ ~ClientConnect
  BY DEF ClientBind, ClientConnect
<1>6. \/ cmq'["client"] \in {cmq["client"], <<>>}
      \/ \E event \in Stray : cmq'["client"] = Append(cmq["client"], event)
      \/ CmaEvent("client")
  BY <1>1, <1>5, Hears, SideFacts DEF Hearing
<1>7. CASE cmq'["client"] \in {cmq["client"], <<>>} /\ ~CmaEvent("client")
  BY <1>2, <1>7
<1>8. CASE /\ \E event \in Stray : cmq'["client"] = Append(cmq["client"], event)
           /\ ~CmaEvent("client")
  BY <1>2, <1>8
<1>9. CASE CmaEvent("client")
  BY <1>3, <1>4, <1>9
<1> QED BY <1>6, <1>7, <1>8, <1>9

\* How the client goes on from the wait for its connection to the post.
LEMMA ClientAdvances ==
  ASSUME TypeInv, Next, signalled = {}, pc["client"] \in Unsent \ PreConnect,
         pc'["client"] \in Unsent
  PROVE  \/ pc'["client"] = pc["client"] /\ ~ClientAdvertise
         \/ /\ ClientMain /\ UNCHANGED <<conn, cmq>>
            /\ \/ /\ pc["client"] = "connect_wait" /\ pc'["client"] = "connect_check"
                  /\ state["client"] >= CONNECTED /\ state'["client"] = state["client"]
               \/ /\ pc["client"] = "connect_check" /\ pc'["client"] = "advertise"
                  /\ state["client"] # ERROR /\ state'["client"] = state["client"]
               \/ /\ pc["client"] = "advertise" /\ pc'["client"] = "send"
                  /\ state'["client"] = RDMA_READ_ADV
<1>1. /\ pc \in [Side -> ClientLabel \cup ServerLabel] /\ state \in [Side -> TestState]
      /\ "client" \in Side
  BY SideFacts DEF TypeInv, TypeOK, ThreadTypeOK, ContextTypeOK
<1>2. CASE pc'["client"] = pc["client"]
  BY <1>1, <1>2 DEF ClientAdvertise, Goto
<1>3. CASE pc'["client"] # pc["client"]
  <2>1. ClientMain
    BY <1>1, <1>3, ThreadMoves, SideFacts
  <2>2. ClientConnectWait \/ ClientConnectCheck \/ ClientAdvertise
    BY <1>1, <1>3, <2>1
    DEF ClientMain, ClientStart, ClientBind, ClientBindWait, ClientBindCheck, ClientSetupQp,
        SetupBuffers, PostFirstRecv, ClientConnect, ClientSend, ClientGoAheadWait, Disconnect,
        FreeBuffers, FreeQp, FreeCq, ClientDestroyId, WaitEvent, Goto, Unsent, PreConnect
  <2>3. CASE ClientConnectWait
    BY <1>1, <1>3, <2>1, <2>3
    DEF ClientConnectWait, WaitEvent, Threshold, Goto, cmVars, contextVars
  <2>4. CASE ClientConnectCheck
    BY <1>1, <1>3, <2>1, <2>4 DEF ClientConnectCheck, Goto, cmVars, contextVars, Unsent, PreConnect
  <2>5. CASE ClientAdvertise
    BY <1>1, <1>3, <2>1, <2>5 DEF ClientAdvertise, Goto, SetState, cmVars
  <2> QED BY <2>2, <2>3, <2>4, <2>5
<1> QED BY <1>2, <1>3

\* Until the client posts, it and the server follow the connection.
LEMMA ConnectingStep ==
  ASSUME NothingCutShort, SessionInv, Next, pc["client"] \in Unsent, pc'["client"] \in Unsent
  PROVE  Connecting'
<1> USE SideFacts
<1>1. /\ TypeInv /\ QuietInv /\ ConnInv /\ ClientQuiet /\ Connecting /\ ServerWaits /\ Fresh
      /\ ~Asked(cmq["client"]) /\ Resolved /\ QpPlace /\ signalled = {}
      /\ cmq["client"] \in Seq(CmEvent)
      /\ state["client"] \in TestState
      /\ pc \in [Side -> ClientLabel \cup ServerLabel]
      /\ conn \in {"none", "requested", "accepted", "established", "closed"}
  BY DEF SessionInv, QuietInv, HeldInv, ClientHasNoChild, ConnInv, TypeInv, TypeOK,
         ThreadTypeOK, CmTypeOK, ContextTypeOK, Before
<1>2. state'["client"] = state["client"] \/ CmaEvent("client") \/ ClientAdvertise
  <2>1. ~CqPoll("client") /\ ~CqRepost("client")
    BY <1>1 DEF Fresh, CqPoll, CqRepost
  <2> QED BY <1>1, <2>1, StateBy
<1>3. CmaEvent("client") => pc' = pc /\ conn' = conn
  BY <1>1, CmaMoves
<1>4. pc["server"] = "accept_wait" => pc'["server"] = "accept_wait"
  <2>1. pc["server"] = "accept_wait" => state["server"] \in {IDLE, CONNECT_REQUEST}
    BY <1>1 DEF ServerWaits, Opening
  <2>2. pc["server"] = "accept_wait" => ~(state["server"] >= CONNECTED)
    BY <2>1 DEF IDLE, CONNECT_REQUEST, CONNECTED
  <2> QED BY <1>1, <2>2, ServerOpens DEF ServerWaits
<1>5. Requesting => state["client"] = ROUTE_RESOLVED /\ Calm(cmq["client"])
  BY <1>1 DEF ClientQuiet
<1>6. pc["client"] = "connect_wait" /\ state["client"] = ROUTE_RESOLVED =>
        pc'["client"] = "connect_wait" /\ ~ClientAdvertise
  <2>1. ~(ROUTE_RESOLVED >= CONNECTED)
    BY DEF ROUTE_RESOLVED, CONNECTED
  <2> QED BY <1>1, <2>1, ClientAdvances DEF Unsent, PreConnect
<1>7. CASE conn' = "none"
  <2>1. conn = "none"
    BY <1>1, <1>7, ConnBefore DEF ConnectionEstablished
  <2>2. pc["client"] \in PreConnect
    BY <1>1, <2>1 DEF Connecting
  <2>3. pc'["client"] # pc["client"] => pc'["client"] \in PreConnect
    <3>1. SUFFICES ASSUME pc'["client"] # pc["client"]
                   PROVE  pc'["client"] \in PreConnect
      OBVIOUS
    <3>2. ClientMain
      BY <1>1, <3>1, ThreadMoves
    <3>3. ClientConnect => pc'["client"] # "connect_wait"
      BY <1>1, <1>7 DEF ClientConnect, ConnectRequest, Goto
    <3> QED BY <1>1, <2>2, <3>1, <3>2, <3>3, ClientPath DEF PreConnect, Unsent
  <2> QED BY <1>7, <2>2, <2>3 DEF Connecting
<1>8. CASE conn' = "requested"
  BY <1>8 DEF Connecting
<1>9. CASE conn' = "accepted"
  <2>1. CASE conn = "accepted"
    <3>1. /\ pc["client"] = "connect_wait" /\ state["client"] = ROUTE_RESOLVED
          /\ Calm(cmq["client"]) /\ pc["server"] = "accept_wait" /\ ~Answering
      BY <1>1, <1>9, <2>1 DEF Connecting, Answering
    <3>2. Calm(cmq'["client"]) /\ (CmaEvent("client") => state'["client"] = state["client"])
      BY <1>1, <3>1, CalmKept
    <3> QED BY <1>2, <1>4, <1>6, <1>9, <3>1, <3>2 DEF Connecting
  <2>2. CASE conn # "accepted"
    <3>1. /\ ServerAccept /\ conn = "requested" /\ pc'["server"] = "accept_wait" /\ cmq' = cmq
      BY <1>9, <2>2, ConnBefore DEF ConnectionEstablished
    <3>2. Requesting
      BY <1>1, <3>1 DEF ConnInv, Requesting
    <3>3. state' = state
      BY <3>1 DEF ServerAccept, contextVars
    <3> QED BY <1>5, <1>6, <1>9, <3>1, <3>2, <3>3 DEF Connecting, Requesting
  <2> QED BY <2>1, <2>2
<1>10. CASE conn' = "established" /\ conn # "established"
  <2>1. ConnectionEstablished /\ qp["client"] = "init" /\ conn = "accepted"
    BY <1>10, ConnBefore DEF ConnectionEstablished
  <2>2. /\ UNCHANGED <<pc, state>>
        /\ \/ cmq'["client"] = cmq["client"]
           \/ cmq'["client"] = Append(cmq["client"], "ESTABLISHED")
    BY <1>1, <2>1, Establishes
  <2>3. /\ pc["client"] = "connect_wait" /\ state["client"] = ROUTE_RESOLVED
        /\ Calm(cmq["client"]) /\ pc["server"] = "accept_wait"
    BY <1>1, <2>1 DEF Connecting
  <2>4. /\ ~Has(cmq["client"], CmEvent \ (Stray \cup {"ESTABLISHED"}))
        /\ ~Has(cmq["client"], {"ESTABLISHED"}) /\ Once(cmq["client"], {"ESTABLISHED"})
    BY <2>3 DEF Calm, Has, Once, Stray, CmEvent
  <2>5. "ESTABLISHED" \in CmEvent
    BY DEF CmEvent
  <2>6. /\ ~Has(cmq'["client"], CmEvent \ (Stray \cup {"ESTABLISHED"}))
        /\ Once(cmq'["client"], {"ESTABLISHED"})
    <3>1. CASE cmq'["client"] = cmq["client"]
      BY <2>4, <3>1
    <3>2. CASE cmq'["client"] = Append(cmq["client"], "ESTABLISHED")
      BY <1>1, <2>4, <2>5, <3>2, HasMoves
    <3> QED BY <2>2, <3>1, <3>2
  <2> QED BY <1>10, <2>2, <2>3, <2>6 DEF Connecting
<1>11. CASE conn' = "established" /\ conn = "established"
  <2>1. ~Answering /\ pc["server"] = "accept_wait"
    BY <1>1, <1>11 DEF Answering, Connecting
  <2>2. pc["client"] \in {"connect_wait", "connect_check", "advertise", "send"}
    BY <1>1, <1>11 DEF Connecting
  <2>3. Calm(cmq["client"]) =>
          /\ Calm(cmq'["client"])
          /\ CmaEvent("client") => state'["client"] = state["client"]
    BY <1>1, <2>1, <2>2, CalmKept
  <2>4. CASE pc'["client"] # pc["client"]
    <3>1. /\ cmq' = cmq
          /\ \/ /\ pc["client"] = "connect_wait" /\ pc'["client"] = "connect_check"
                /\ state["client"] >= CONNECTED /\ state'["client"] = state["client"]
             \/ /\ pc["client"] = "connect_check" /\ pc'["client"] = "advertise"
                /\ state'["client"] = state["client"]
             \/ /\ pc["client"] = "advertise" /\ pc'["client"] = "send"
                /\ state'["client"] = RDMA_READ_ADV
      BY <1>1, <2>2, <2>4, ClientAdvances DEF PreConnect
    <3>2. pc["client"] = "connect_wait" /\ state["client"] >= CONNECTED =>
            state["client"] = CONNECTED /\ Calm(cmq["client"])
      BY <1>1, <1>11 DEF Connecting, ROUTE_RESOLVED, CONNECTED
    <3> QED BY <1>1, <1>4, <1>11, <2>1, <3>1, <3>2 DEF Connecting
  <2>5. CASE pc'["client"] = pc["client"] /\ Calm(cmq["client"])
    <3>1. ~ClientAdvertise
      BY <1>1, <2>2, <2>5, ClientAdvances DEF PreConnect
    <3>2. state'["client"] = state["client"] /\ Calm(cmq'["client"])
      BY <1>2, <2>3, <2>5, <3>1
    <3>3. /\ ~Has(cmq'["client"], CmEvent \ (Stray \cup {"ESTABLISHED"}))
          /\ Once(cmq'["client"], {"ESTABLISHED"})
      BY <3>2 DEF Calm, Has, Once, Stray, CmEvent
    <3> QED BY <1>1, <1>4, <1>11, <2>1, <2>2, <2>5, <3>2, <3>3 DEF Connecting
  <2>6. CASE pc'["client"] = pc["client"] /\ ~Calm(cmq["client"])
    <3>1. /\ pc["client"] = "connect_wait" /\ state["client"] = ROUTE_RESOLVED
          /\ ~Has(cmq["client"], CmEvent \ (Stray \cup {"ESTABLISHED"}))
          /\ Once(cmq["client"], {"ESTABLISHED"})
      BY <1>1, <1>11, <2>2, <2>6 DEF Connecting
    <3>2. Stray \subseteq CmEvent \ {"ESTABLISHED"}
      BY DEF Stray, CmEvent
    <3>3. CASE CmaEvent("client")
      <4>1. /\ cmq["client"] # <<>> /\ cmq["client"] \in Seq(CmEvent)
            /\ Head(cmq["client"]) \in CmEvent
        BY <1>1, <3>3, CmaMoves
      <4>2. /\ Head(cmq["client"]) \in Stray \cup {"ESTABLISHED"}
            /\ ~Has(Tail(cmq["client"]), CmEvent \ (Stray \cup {"ESTABLISHED"}))
            /\ Once(Tail(cmq["client"]), {"ESTABLISHED"})
            /\ Head(cmq["client"]) = "ESTABLISHED" => ~Has(Tail(cmq["client"]), {"ESTABLISHED"})
        BY <3>1, <4>1, HasMoves
      <4>3. /\ cmq'["client"] = Tail(cmq["client"])
            /\ state'["client"] \in {state["client"],
                                     StateOfEvent("client", Head(cmq["client"]))}
        <5>1. Head(cmq["client"]) \notin {"ADDR_RESOLVED", "CONNECT_REQUEST"}
          BY <4>2 DEF Stray
        <5> QED BY <1>1, <3>3, <5>1, CmaMoves
      <4>4. CASE Head(cmq["client"]) \in Stray
        <5>1. StateOfEvent("client", Head(cmq["client"])) = state["client"]
          BY <4>4 DEF StateOfEvent, Stray, CmErrors
        <5> QED BY <1>4, <1>11, <2>1, <2>6, <3>1, <4>2, <4>3, <5>1 DEF Connecting
      <4>5. CASE Head(cmq["client"]) = "ESTABLISHED"
        <5>1. state'["client"] = CONNECTED
          <6>1. /\ ~AddrResolved("client") /\ ~ConnectRequested("client")
                /\ ~DeviceRemovalLogged("client")
            BY <4>5 DEF AddrResolved, ConnectRequested, DeviceRemovalLogged
          <6>2. StateAndWake("client")
            BY <3>3, <6>1 DEF CmaEvent
          <6>3. StateOfEvent("client", Head(cmq["client"])) = CONNECTED
            BY <4>5 DEF StateOfEvent
          <6> QED BY <1>1, <6>2, <6>3 DEF StateAndWake, SetState, TypeInv, TypeOK, ContextTypeOK
        <5>2. Calm(cmq'["client"])
          BY <4>2, <4>3, <4>5 DEF Calm, Has
        <5> QED BY <1>4, <1>11, <2>1, <2>6, <3>1, <5>1, <5>2 DEF Connecting
      <4> QED BY <4>2, <4>4, <4>5
    <3>4. CASE ~CmaEvent("client")
      <4>1. \/ cmq'["client"] = cmq["client"]
            \/ \E event \in Stray : cmq'["client"] = Append(cmq["client"], event)
        BY <1>1, <2>1, <2>6, <3>4, StillHears
      <4>2. /\ ~Has(cmq'["client"], CmEvent \ (Stray \cup {"ESTABLISHED"}))
            /\ Once(cmq'["client"], {"ESTABLISHED"})
        <5>1. CASE cmq'["client"] = cmq["client"]
          BY <3>1, <5>1
        <5>2. CASE \E event \in Stray : cmq'["client"] = Append(cmq["client"], event)
          BY <1>1, <3>1, <3>2, <5>2, HasMoves
        <5> QED BY <4>1, <5>1, <5>2
      <4>3. state'["client"] = state["client"]
        BY <1>2, <1>6, <3>1, <3>4
      <4> QED BY <1>4, <1>11, <2>1, <2>6, <3>1, <4>2, <4>3 DEF Connecting
    <3> QED BY <3>3, <3>4
  <2> QED BY <2>4, <2>5, <2>6
<1>12. CASE conn' = "closed" /\ conn = "closed"
  <2>1. /\ \/ pc["client"] = "connect_wait" /\ state["client"] \in {ROUTE_RESOLVED, ERROR}
           \/ pc["client"] = "connect_check" /\ state["client"] = ERROR
        /\ ~Has(cmq["client"], {"ESTABLISHED"}) /\ ~ConnectionEstablished
    BY <1>1, <1>12 DEF Connecting, ConnectionEstablished
  <2>2. ~Has(cmq'["client"], {"ESTABLISHED"})
    BY <1>1, <2>1, EstablishedHeard
  <2>3. CASE pc'["client"] # pc["client"]
    <3>1. /\ pc["client"] = "connect_wait" /\ pc'["client"] = "connect_check"
          /\ state["client"] >= CONNECTED /\ state'["client"] = state["client"]
      BY <1>1, <2>1, <2>3, ClientAdvances DEF PreConnect
    <3>2. state["client"] = ERROR
      BY <2>1, <3>1 DEF ROUTE_RESOLVED, CONNECTED
    <3> QED BY <1>12, <2>2, <3>1, <3>2 DEF Connecting
  <2>4. CASE pc'["client"] = pc["client"]
    <3>1. ~ClientAdvertise
      BY <1>1, <2>1, <2>4, ClientAdvances DEF PreConnect
    <3>2. state'["client"] \in {state["client"], ERROR}
      <4>1. CASE CmaEvent("client")
        <5>1. /\ cmq["client"] # <<>> /\ ~Has(cmq["client"], Resolution)
              /\ ~Has(cmq["client"], {"CONNECT_REQUEST"})
          BY <1>1, <2>1, <4>1, CmaMoves DEF Resolved, Asked
        <5>2. Head(cmq["client"]) \notin Resolution \cup {"CONNECT_REQUEST", "ESTABLISHED"}
          BY <1>1, <2>1, <5>1, HasMoves
        <5>3. /\ Head(cmq["client"]) \notin {"ADDR_RESOLVED", "CONNECT_REQUEST"}
              /\ StateOfEvent("client", Head(cmq["client"])) \in {state["client"], ERROR}
          BY <5>2 DEF Resolution, StateOfEvent
        <5> QED BY <1>1, <4>1, <5>3, CmaMoves
      <4> QED BY <1>2, <3>1, <4>1
    <3> QED BY <1>12, <2>1, <2>2, <2>4, <3>2 DEF Connecting
  <2> QED BY <2>3, <2>4
<1>13. CASE conn' = "closed" /\ conn # "closed"
  <2>1. \/ ClientConnect /\ pc'["client"] = "connect_wait"
        \/ conn = "requested"
    <3>2. ServerAccept => pc["server"] = "accept"
      BY DEF ServerAccept
    <3>3. conn \in {"none", "accepted", "established"} => pc["server"] # "accept"
      <4>1. pc["server"] = "accept" => child = "set"
        BY <1>1 DEF QuietInv, HeldInv, OneChild, WithChild
      <4>2. conn = "none" => child = "unset"
        BY <1>1 DEF Connecting, QuietInv, HeldInv, OneRequest, NoChild
      <4> QED BY <1>1, <4>1, <4>2 DEF Connecting
    <3>4. CASE ConnectionEstablished /\ qp["client"] = "init"
      BY <1>13, <3>4 DEF ConnectionEstablished
    <3> QED BY <1>1, <1>13, <3>2, <3>3, <3>4, ConnBefore
  <2>2. CASE ClientConnect /\ pc'["client"] = "connect_wait"
    <3>1. /\ state' = state /\ state["client"] = ROUTE_RESOLVED
          /\ ~Has(cmq["client"], {"ESTABLISHED"}) /\ ~ConnectionEstablished
      <4>1. pc["client"] = "connect"
        BY <2>2 DEF ClientConnect
      <4> QED BY <1>1, <2>2, <4>1, NotHeardYet
          DEF ClientConnect, contextVars, ClientQuiet, PreConnect, ConnInv, ConnectionEstablished
    <3> QED BY <1>1, <1>13, <2>2, <3>1, EstablishedHeard DEF Connecting
  <2>3. CASE conn = "requested"
    <3>1. Requesting /\ ~ConnectionEstablished
      BY <1>1, <2>3 DEF ConnInv, Requesting, ConnectionEstablished
    <3>2. /\ pc["client"] = "connect_wait" /\ state["client"] = ROUTE_RESOLVED
          /\ ~Has(cmq["client"], {"ESTABLISHED"})
      BY <1>5, <3>1, CalmNotEstablished DEF Requesting
    <3>3. pc'["client"] = "connect_wait" /\ state'["client"] = state["client"]
      BY <1>2, <1>3, <1>6, <1>13, <3>2
    <3> QED BY <1>1, <1>13, <3>1, <3>2, <3>3, EstablishedHeard DEF Connecting
  <2> QED BY <2>1, <2>2, <2>3
<1>14. conn' \in {"none", "requested", "accepted", "established", "closed"}
  BY <1>1, CmStep DEF CmTypeOK, TypeInv
<1> QED BY <1>7, <1>8, <1>9, <1>10, <1>11, <1>12, <1>13, <1>14

-----------------------------------------------------------------------------
(* The completion queue is never left with completions that nobody polls.  *)

\* A side with a completion queue does not come out of the error state, its callback apart.
LEMMA ErrorKept ==
  ASSUME SessionInv, Next, NEW s \in Side, "cq" \in held[s], state[s] = ERROR,
         ~megaVM_cq_event_handler(s)
  PROVE  state'[s] = ERROR
<1> USE SideFacts
<1>1. /\ TypeInv /\ QuietInv /\ ConnInv /\ OneRequest /\ ClientHasNoChild /\ Resolved /\ CqPlace
      /\ cmq \in [Side -> Seq(CmEvent)] /\ cmq[s] \in Seq(CmEvent)
      /\ conn \in {"none", "requested", "accepted", "established", "closed"}
  BY DEF SessionInv, QuietInv, HeldInv, TypeInv, TypeOK, CmTypeOK
<1>2. ~CqPoll(s) /\ ~CqRepost(s)
  BY DEF megaVM_cq_event_handler
<1>3. ERROR \notin {IDLE, CONNECTED, ROUTE_RESOLVED, RDMA_READ_ADV}
  BY DEF ERROR, IDLE, CONNECTED, ROUTE_RESOLVED, RDMA_READ_ADV
<1>4. s = "client" /\ pc["client"] \in Unsent => conn \in {"none", "closed"}
  <2>1. SUFFICES ASSUME s = "client", pc["client"] \in Unsent,
                        conn \in {"requested", "accepted", "established"}
                 PROVE  FALSE
    BY <1>1
  <2>2. Connecting
    BY <2>1 DEF SessionInv, Before
  <2>3. CASE conn = "requested"
    BY <1>1, <1>3, <2>1, <2>3 DEF ConnInv, Requesting, QuietInv, ClientQuiet
  <2>4. CASE conn = "accepted"
    BY <1>3, <2>1, <2>2, <2>4 DEF Connecting
  <2>5. CASE conn = "established"
    BY <1>3, <2>1, <2>2, <2>5 DEF Connecting
  <2> QED BY <2>1, <2>3, <2>4, <2>5
<1>5. ~(s = "client" /\ ClientAdvertise)
  <2>1. SUFFICES ASSUME s = "client", pc["client"] = "advertise"
                 PROVE  FALSE
    BY DEF ClientAdvertise
  <2>2. pc["client"] \in Unsent /\ pc["client"] \notin PreConnect
    BY <2>1 DEF Unsent, PreConnect
  <2> QED BY <1>4, <2>1, <2>2 DEF SessionInv, Before, Connecting
<1>6. s = "client" => ~Has(cmq[s], {"ESTABLISHED"})
  <2>1. SUFFICES ASSUME s = "client"
                 PROVE  ~Has(cmq["client"], {"ESTABLISHED"})
    OBVIOUS
  <2>2. CASE pc["client"] \in PreConnect
    BY <1>1, <2>2, NotHeardYet
  <2>3. CASE pc["client"] \in Unsent \ PreConnect
    BY <1>4, <2>1, <2>3 DEF SessionInv, Before, Connecting
  <2>4. CASE pc["client"] \notin Unsent
    BY <2>4 DEF SessionInv, Gone
  <2> QED BY <2>2, <2>3, <2>4
<1>7. ~Has(cmq[s], Resolution) /\ ~Has(cmq[s], {"CONNECT_REQUEST"})
  <2>1. CASE s = "client"
    <3>1. ~Has(cmq["client"], Resolution)
      BY <1>1, <2>1 DEF CqPlace, Resolved
    <3> QED BY <1>1, <2>1, <3>1 DEF ClientHasNoChild, Asked
  <2>2. CASE s = "server"
    <3>1. child # "unset"
      BY <1>1, <2>2 DEF CqPlace
    <3> QED BY <1>1, <2>2, <3>1 DEF OneRequest, NoChild, Asked, Resolved
  <2> QED BY <2>1, <2>2
<1>8. CASE CmaEvent(s)
  <2>1. cmq[s] # <<>>
    BY <1>1, <1>8, CmaMoves
  <2>2. /\ Head(cmq[s]) \notin Resolution \cup {"CONNECT_REQUEST"}
        /\ s = "client" => Head(cmq[s]) # "ESTABLISHED"
    BY <1>1, <1>6, <1>7, <2>1, HasMoves
  <2>3. /\ Head(cmq[s]) \notin {"ADDR_RESOLVED", "CONNECT_REQUEST"}
        /\ StateOfEvent(s, Head(cmq[s])) = ERROR
    BY <2>2 DEF Resolution, StateOfEvent
  <2> QED BY <1>1, <1>8, <2>3, CmaMoves
<1> QED BY <1>1, <1>2, <1>5, <1>8, StateBy

\* A completion queue that a side takes up is armed and empty.
LEMMA AnnouncedAtFirst ==
  ASSUME SessionInv, Next, NEW s \in Side, "cq" \notin held[s], "cq" \in held'[s]
  PROVE  Announced(s)'
<1> USE SideFacts
<1>1. /\ TypeInv /\ DepthOf(s) /\ OneChild /\ CqPlace /\ cqe[s] \in Seq(Wc)
      /\ qp \in [Side -> {"none", "init", "rts", "err", "gone"}]
  BY DEF SessionInv, QuietInv, DepthInv, HeldInv, TypeInv, TypeOK, CqTypeOK, QpTypeOK
<1>2. pc[s] = "setup_qp" /\ UNCHANGED <<cqh, cqe, cqevent, state>>
  BY <1>1, CqGained
<1>3. cqe[s] = <<>>
  <2>1. Len(cqe[s]) = 0
    BY <1>1, <1>2 DEF DepthOf, PreRecv, Empty, Sizes
  <2> QED BY <1>1, <2>1
<1>4. cqh[s] = "idle"
  BY <1>1 DEF CqPlace
<1>5. s \in armed' \/ qp'[s] = "none"
  <2>1. CASE QpSetUp(s)
    BY <2>1 DEF QpSetUp
  <2>2. CASE s = "server" /\ UNCHANGED <<armed, qp>>
    BY <1>1, <1>2, <2>2 DEF OneChild, PreQp
  <2> QED BY <1>1, <2>1, <2>2, CqGained
<1> QED BY <1>2, <1>3, <1>4, <1>5 DEF Announced

\* The callback leaves nothing behind.
LEMMA AnnouncedByCallback ==
  ASSUME TypeInv, NEW s \in Side, "cq" \in held[s], Announced(s), megaVM_cq_event_handler(s)
  PROVE  Announced(s)'
<1>1. /\ cqh \in [Side -> CqPhase] /\ cqe \in [Side -> Seq(Wc)]
      /\ state \in [Side -> TestState] /\ armed \subseteq Side /\ cqevent \subseteq Side
  BY DEF TypeInv, TypeOK, CqTypeOK, ContextTypeOK
<1>2. CASE CqEvent(s)
  BY <1>1, <1>2 DEF CqEvent, CqGoto, Announced, contextVars
<1>3. CASE CqArm(s)
  BY <1>1, <1>3 DEF CqArm, CqGoto, Announced
<1>4. CASE CqPollEmpty(s)
  BY <1>1, <1>4 DEF CqPollEmpty, CqGoto, Announced
<1>5. CASE CqPoll(s)
  <2>1. /\ UNCHANGED <<armed, cqevent, held>> /\ s \in armed \cup cqevent
        /\ \/ cqh'[s] \in {"poll", "wake", "repost"}
           \/ cqh'[s] = "fail" /\ state'[s] = ERROR
    BY <1>1, <1>5 DEF CqPoll, CqGoto, SetState, Announced
  <2> QED BY <2>1 DEF Announced
<1>6. CASE CqRepost(s)
  <2>1. s \in armed \cup cqevent
    BY <1>6 DEF CqRepost, Announced
  <2>2. CASE cqh'[s] = "fail" /\ state'[s] = ERROR
    BY <2>2 DEF Announced
  <2>3. CASE cqh'[s] = "wake" /\ s \in armed' \cup cqevent'
    BY <2>3 DEF Announced
  <2>4. PostRecv(s) => s \in armed' \cup cqevent'
    BY <1>1, <2>1 DEF PostRecv, AddCompletions
  <2> QED BY <1>1, <1>6, <2>2, <2>3, <2>4 DEF CqRepost, CqGoto, SetState
<1>7. CASE CqWake(s)
  BY <1>1, <1>7 DEF CqWake, CqGoto, Announced, contextVars
<1> QED BY <1>2, <1>3, <1>4, <1>5, <1>6, <1>7 DEF megaVM_cq_event_handler

\* Nor do completions that enter.
LEMMA AnnouncedByEntry ==
  ASSUME SessionInv, Next, NEW s \in Side, "cq" \in held[s], ~megaVM_cq_event_handler(s),
         NEW q \in Seq(Wc), Source(s, q), Enter(s, q)
  PROVE  Announced(s)'
<1> USE SideFacts
<1>1. /\ TypeInv /\ QpPlace /\ Announced(s) /\ CqPlace /\ Accounted(s)
      /\ cqe[s] \in Seq(Wc)
  BY DEF SessionInv, QuietInv, HeldInv, TypeInv, TypeOK, CqTypeOK
<1>2. state[s] = ERROR => state'[s] = ERROR
  BY ErrorKept
<1>3. pc[s] # "setup_qp"
  BY <1>1 DEF Accounted, Bound, Unmapped, Mapping
<1>4. qp[s] = "none" => q = <<>> /\ qp'[s] = "none"
  <2>1. SUFFICES ASSUME qp[s] = "none"
                 PROVE  q = <<>> /\ qp'[s] = "none"
    OBVIOUS
  <2>2. q = <<>>
    BY <1>1, <2>1, NoneEnters
  <2>3. pc[s] \notin {"free_qp", "accept", "disconnect"}
    BY <1>1, <2>1 DEF QpPlace, NoQp
  <2>4. ~(s = "client" /\ ConnectionEstablished)
    BY <1>1, <2>1 DEF QpPlace, ConnectionEstablished
  <2> QED BY <1>1, <1>3, <2>1, <2>2, <2>3, <2>4, QpGoes DEF FreeQp, ServerAccept
<1>5. CASE cqh[s] = "idle" /\ s \notin cqevent'
  <2>1. s \notin cqevent /\ (s \in armed => q = <<>>)
    BY <1>5 DEF Enter
  <2>2. \/ cqe[s] = <<>> /\ (s \in armed \/ qp[s] = "none")
        \/ state[s] = ERROR
    BY <1>1, <1>5, <2>1 DEF Announced
  <2>3. CASE cqe[s] = <<>> /\ (s \in armed \/ qp[s] = "none")
    <3>1. q = <<>>
      BY <1>4, <2>1, <2>3
    <3>2. cqe'[s] = <<>> /\ (s \in armed => s \in armed')
      BY <2>3, <3>1 DEF Enter
    <3> QED BY <1>4, <1>5, <2>3, <3>2 DEF Announced, Enter
  <2>4. CASE state[s] = ERROR
    BY <1>2, <1>5, <2>4 DEF Announced, Enter
  <2> QED BY <2>2, <2>3, <2>4
<1>6. CASE ~(cqh[s] = "idle" /\ s \notin cqevent')
  <2>1. s \in armed \cup cqevent => s \in armed' \cup cqevent'
    BY DEF Enter
  <2> QED BY <1>1, <1>2, <1>6, <2>1 DEF Announced, Enter
<1> QED BY <1>5, <1>6

\* Whatever step is taken, what waits in a completion queue is or will be announced.
LEMMA AnnouncedStep ==
  ASSUME SessionInv, Next, NEW s \in Side
  PROVE  Announced(s)'
<1> USE SideFacts
<1>1. TypeInv /\ QpPlace /\ Announced(s) /\ Accounted(s) /\ held \in [Side -> SUBSET Resource]
  BY DEF SessionInv, QuietInv, HeldInv, TypeInv, TypeOK, ContextTypeOK
<1>2. CASE "cq" \notin held'[s]
  BY <1>2 DEF Announced
<1>3. CASE "cq" \notin held[s] /\ "cq" \in held'[s]
  BY <1>3, AnnouncedAtFirst
<1>4. CASE "cq" \in held[s] /\ "cq" \in held'[s]
  <2>1. CASE megaVM_cq_event_handler(s)
    BY <1>1, <1>4, <2>1, AnnouncedByCallback
  <2>2. CASE ~megaVM_cq_event_handler(s) /\ CqOwner(s)
    <3>1. pc[s] # "setup_qp"
      BY <1>1, <1>4 DEF Accounted, Bound, Unmapped, Mapping
    <3>2. ~\E next : FreeCq(s, next)
      BY <1>1, <1>4 DEF FreeCq, Released
    <3>3. FreeQp(s)
      BY <2>2, <3>1, <3>2 DEF CqOwner
    <3>4. UNCHANGED <<cqh, armed, cqevent, state>> /\ cqe'[s] = <<>> /\ pc[s] = "free_qp"
      BY <1>1, <3>3 DEF FreeQp, TypeInv, TypeOK, CqTypeOK
    <3>5. qp[s] # "none"
      BY <1>1, <3>4 DEF QpPlace, NoQp
    <3> QED BY <1>1, <1>4, <3>4, <3>5 DEF Announced
  <2>3. CASE ~megaVM_cq_event_handler(s) /\ ~CqOwner(s)
    BY <1>1, <1>4, <2>3, CqMoves, AnnouncedByEntry
  <2> QED BY <2>1, <2>2, <2>3
<1> QED BY <1>2, <1>3, <1>4

-----------------------------------------------------------------------------
(* The invariant of a session, and what follows from it.                   *)

\* A client that has posted its advertisement does not come back to before.
LEMMA UnsentBefore ==
  ASSUME TypeInv, Next, pc'["client"] \in Unsent
  PROVE  pc["client"] \in Unsent
<1>1. pc \in [Side -> ClientLabel \cup ServerLabel]
  BY DEF TypeInv, TypeOK, ThreadTypeOK
<1>2. CASE pc'["client"] # pc["client"]
  <2>1. ClientMain
    BY <1>2, ThreadMoves, SideFacts
  <2> QED
    BY <1>1, <1>2, <2>1
    DEF ClientMain, ClientStart, ClientBind, ClientBindWait, ClientBindCheck, ClientSetupQp,
        SetupBuffers, PostFirstRecv, ClientConnect, ClientConnectWait, ClientConnectCheck,
        ClientAdvertise, ClientSend, ClientGoAheadWait, Disconnect, FreeBuffers, FreeQp, FreeCq,
        ClientDestroyId, WaitEvent, Goto, Unsent, PreConnect
<1> QED BY <1>2

\* A session starts so.
LEMMA SessionInit ==
  ASSUME Init, QuietInv
  PROVE  SessionInv
<1> USE SideFacts DEF Init, InitContext
<1>1. <<>> \in Seq(CmEvent) /\ \A E : ~Has(<<>>, E)
  BY DEF Has
<1>2. Resolved
  BY <1>1 DEF Resolved
<1>3. QpPlace
  BY DEF QpPlace, NoQp
<1>4. Gone
  BY DEF Gone, Unsent, PreConnect
<1>5. ClientSends
  BY DEF ClientSends, Within
<1>6. CqPlace
  BY DEF CqPlace
<1>7. \A s \in Side : Announced(s)
  BY DEF Announced
<1>8. ServerWaits
  BY <1>1 DEF ServerWaits, Within, Opening
<1>9. Fresh
  BY DEF Fresh
<1>10. Connecting
  BY DEF Connecting, PreConnect
<1> QED BY <1>2, <1>3, <1>4, <1>5, <1>6, <1>7, <1>8, <1>9, <1>10 DEF SessionInv, Before

\* What holds of a session whose waits are not cut short holds at every step.
THEOREM SessionInvariance ==
  ASSUME NothingCutShort
  PROVE  Spec => []SessionInv
<1>1. Init /\ QuietInv => SessionInv
  BY SessionInit
<1>2. SessionInv /\ [Next]_vars /\ QuietInv' => SessionInv'
  <2>1. CASE UNCHANGED vars
    BY <2>1
    DEF SessionInv, Resolved, QpPlace, Gone, ClientSends, CqPlace, Announced, Before,
        ServerWaits, Fresh, Connecting, Has, Once, Calm, Within, vars, threadVars, contextVars,
        cmVars, cqVars, qpVars
  <2>2. CASE SessionInv /\ Next /\ QuietInv'
    <3>1. Resolved' /\ QpPlace' /\ Gone' /\ ClientSends' /\ CqPlace'
      BY <2>2, ResolvedStep, QpPlaceStep, GoneStep, ClientSendsStep, CqPlaceStep DEF SessionInv
    <3>2. \A s \in Side : Announced(s)'
      BY <2>2, AnnouncedStep
    <3>3. pc'["client"] \in Unsent => Before'
      <4>1. SUFFICES ASSUME pc'["client"] \in Unsent
                     PROVE  Before'
        OBVIOUS
      <4>2. pc["client"] \in Unsent
        BY <2>2, <4>1, UnsentBefore DEF SessionInv, QuietInv, HeldInv
      <4> QED BY <2>2, <4>1, <4>2, ServerWaitsStep, FreshStep, ConnectingStep DEF Before
    <3> QED BY <2>2, <3>1, <3>2, <3>3 DEF SessionInv
  <2> QED BY <2>1, <2>2
<1> QED BY <1>1, <1>2, QuietInvariance, PTL DEF Spec

\* Where no signal and no timeout cuts a wait short, no completion is left lying in a queue
\* that raises no event: whatever enters while the callback arms, polls and leaves is seen
\* by it or announced again, on the way out through every err label as well.
THEOREM NoCompletionLost ==
  ASSUME NothingCutShort
  PROVE  Spec => []CompletionsNotLost
<1>1. SessionInv => CompletionsNotLost
  BY DEF SessionInv, Announced, CompletionsNotLost
<1> QED BY <1>1, SessionInvariance, PTL

\* An event of the connection moves the client's state forward, or to ERROR.
LEMMA ForwardByEvent ==
  ASSUME SessionInv, Next, CmaEvent("client")
  PROVE  state'["client"] >= state["client"] \/ state["client"] = ERROR
<1> USE SideFacts
<1>1. /\ TypeInv /\ QuietInv /\ ConnInv /\ ClientQuiet /\ ClientHasNoChild /\ Resolved /\ Gone
      /\ cmq["client"] \in Seq(CmEvent)
      /\ state["client"] \in TestState
      /\ conn \in {"none", "requested", "accepted", "established", "closed"}
      /\ pc["client"] \in ClientLabel \cup ServerLabel
  BY DEF SessionInv, QuietInv, HeldInv, TypeInv, TypeOK, CmTypeOK, ContextTypeOK, ThreadTypeOK
<1>2. cmq["client"] # <<>>
  BY <1>1, CmaMoves
<1>3. Head(cmq["client"]) # "CONNECT_REQUEST"
  BY <1>1, <1>2, HasMoves DEF ClientHasNoChild, Asked
<1>4. Head(cmq["client"]) \in Resolution => state["client"] \in {IDLE, ADDR_RESOLVED}
  <2>1. SUFFICES ASSUME Head(cmq["client"]) \in Resolution
                 PROVE  state["client"] \in {IDLE, ADDR_RESOLVED}
    OBVIOUS
  <2>2. Has(cmq["client"], Resolution)
    BY <1>1, <1>2, <2>1, HasMoves
  <2>3. ~Calm(cmq["client"])
    BY <2>2 DEF Calm, Has, Resolution, Stray, CmEvent
  <2>4. pc["client"] \in {"bind_wait", "bind_check"}
    BY <1>1, <2>2, <2>3 DEF Resolved, ClientQuiet
  <2> QED BY <1>1, <2>3, <2>4 DEF Resolved
<1>5. Head(cmq["client"]) = "ESTABLISHED" => state["client"] = ROUTE_RESOLVED
  <2>1. SUFFICES ASSUME Head(cmq["client"]) = "ESTABLISHED"
                 PROVE  state["client"] = ROUTE_RESOLVED
    OBVIOUS
  <2>2. Has(cmq["client"], {"ESTABLISHED"}) /\ ~Calm(cmq["client"])
    <3>1. Has(cmq["client"], {"ESTABLISHED"})
      BY <1>1, <1>2, <2>1, HasMoves
    <3> QED BY <3>1, CalmNotEstablished
  <2>3. pc["client"] \in Unsent /\ pc["client"] \notin PreConnect
    BY <1>1, <2>2, NotHeardYet DEF Gone
  <2>4. Connecting
    BY <2>3 DEF SessionInv, Before
  <2>5. conn = "established"
    BY <1>1, <2>2, <2>3, <2>4 DEF Connecting, ConnInv, ClientQuiet, Requesting
  <2> QED BY <2>2, <2>4, <2>5 DEF Connecting
<1>6. CASE Head(cmq["client"]) = "ADDR_RESOLVED"
  BY <1>1, <1>4, <1>6, CmaMoves DEF Resolution, IDLE, ADDR_RESOLVED
<1>7. CASE Head(cmq["client"]) # "ADDR_RESOLVED"
  <2>1. state'["client"] \in {state["client"], StateOfEvent("client", Head(cmq["client"]))}
    BY <1>1, <1>3, <1>7, CmaMoves
  <2>2. StateOfEvent("client", Head(cmq["client"])) \in
          {state["client"], ERROR}
          \cup (IF Head(cmq["client"]) = "ROUTE_RESOLVED" THEN {ROUTE_RESOLVED} ELSE {})
          \cup (IF Head(cmq["client"]) = "ESTABLISHED" THEN {CONNECTED} ELSE {})
    BY DEF StateOfEvent
  <2>3. CASE Head(cmq["client"]) = "ROUTE_RESOLVED"
    BY <1>1, <1>4, <2>1, <2>2, <2>3
    DEF Resolution, TestState, IDLE, ADDR_RESOLVED, ROUTE_RESOLVED, ERROR
  <2>4. CASE Head(cmq["client"]) = "ESTABLISHED"
    BY <1>1, <1>5, <2>1, <2>2, <2>4 DEF TestState, ROUTE_RESOLVED, CONNECTED, ERROR
  <2>5. CASE Head(cmq["client"]) \notin {"ROUTE_RESOLVED", "ESTABLISHED"}
    BY <1>1, <2>1, <2>2, <2>5 DEF TestState, ERROR
  <2> QED BY <2>3, <2>4, <2>5
<1> QED BY <1>6, <1>7

\* So does a completion, for the client only sends and receives.
LEMMA ForwardByCompletion ==
  ASSUME SessionInv, CqPoll("client") \/ CqRepost("client")
  PROVE  state'["client"] >= state["client"] \/ state["client"] = ERROR
<1>1. /\ state \in [Side -> TestState] /\ "client" \in Side
      /\ cqe["client"] \in Seq(Wc) /\ Within(cqe["client"], OfClient)
  BY SideFacts
  DEF SessionInv, QuietInv, HeldInv, TypeInv, TypeOK, CqTypeOK, ContextTypeOK, ClientSends
<1>2. CASE CqPoll("client")
  <2>1. Head(cqe["client"]) \in OfClient
    BY <1>1, <1>2, WithinMoves DEF CqPoll
  <2>2. Head(cqe["client"]).op \notin {"READ", "WRITE"}
    BY <2>1 DEF OfClient
  <2>3. \/ state'["client"] \in {state["client"], ERROR}
        \/ state'["client"] = IF state["client"] = RDMA_READ_ADV
                              THEN RDMA_WRITE_ADV ELSE RDMA_WRITE_COMPLETE
    BY <1>1, <1>2, <2>2 DEF CqPoll, SetState, recv, client_recv
  <2> QED BY <1>1, <2>3
      DEF TestState, IDLE, CONNECT_REQUEST, ADDR_RESOLVED, ROUTE_RESOLVED, CONNECTED,
          RDMA_READ_ADV, RDMA_READ_COMPLETE, RDMA_WRITE_ADV, RDMA_WRITE_COMPLETE, ERROR
<1>3. CASE CqRepost("client")
  <2>1. state'["client"] \in {state["client"], ERROR}
    BY <1>1, <1>3 DEF CqRepost, SetState
  <2> QED BY <1>1, <2>1 DEF TestState, ERROR
<1> QED BY <1>2, <1>3

\* Where no signal and no timeout cuts a wait short, no callback and no step of the client
\* sets its state back below what its thread may already be waiting for; only an ERROR is
\* overwritten.
THEOREM ClientOnlyAdvances ==
  ASSUME NothingCutShort
  PROVE  Spec => ClientNeverFallsBack
<1> DEFINE A == state'["client"] >= state["client"] \/ state["client"] = ERROR
<1>1. SessionInv /\ [Next]_vars => [A]_state
  <2>1. CASE UNCHANGED vars
    BY <2>1 DEF vars, contextVars
  <2>2. ASSUME SessionInv, Next, state' # state
        PROVE  A
    <3>1. /\ TypeInv /\ ConnInv /\ state \in [Side -> TestState] /\ "client" \in Side
          /\ conn \in {"none", "requested", "accepted", "established", "closed"}
      BY <2>2, SideFacts
      DEF SessionInv, QuietInv, HeldInv, TypeInv, TypeOK, CmTypeOK, ContextTypeOK
    <3>2. CASE state'["client"] = state["client"]
      BY <3>1, <3>2 DEF TestState
    <3>3. CASE ClientAdvertise
      <4>1. pc["client"] = "advertise" /\ state'["client"] = RDMA_READ_ADV
        BY <3>1, <3>3 DEF ClientAdvertise, SetState
      <4>2. Connecting
        BY <2>2, <4>1 DEF SessionInv, Before, Unsent
      <4>3. state["client"] = CONNECTED
        BY <3>1, <4>1, <4>2 DEF ConnInv, Connecting, PreConnect
      <4> QED BY <4>1, <4>3 DEF CONNECTED, RDMA_READ_ADV
    <3>4. CASE CmaEvent("client")
      BY <2>2, <3>4, ForwardByEvent
    <3>5. CASE CqPoll("client") \/ CqRepost("client")
      BY <2>2, <3>5, ForwardByCompletion
    <3> QED BY <2>2, <3>1, <3>2, <3>3, <3>4, <3>5, StateBy
  <2> QED BY <2>1, <2>2
<1>2. ClientNeverFallsBack <=> [][A]_state
  BY DEF ClientNeverFallsBack
<1> HIDE DEF A
<1> QED BY <1>1, <1>2, SessionInvariance, PTL DEF Spec

-----------------------------------------------------------------------------
(* The server's callback and its queue pair, from the advertisement on.    *)

\* The completion of a receive that took a message, and the others.
Message(wc) == wc.op = "RECV" /\ wc.status = "ok"
NoMessage == {wc \in Wc : ~Message(wc)}

\* The completions that leave the client's state alone.
Harmless == {wc \in Wc : wc.status = "flush" \/ (wc.op = "SEND" /\ wc.status = "ok")}

\* No message of the client is still to be taken.
NonePosted == \A k \in 1 .. Len(sq["client"]) : sq["client"][k].phase # "posted"

\* Both sides are on the connection: the client waits for the go-ahead, which the server
\* is not to send yet, and neither hears of an end.
Together ==
  /\ conn = "established"
  /\ pc["client"] = "goahead_wait" /\ state["client"] = RDMA_READ_ADV
  /\ Calm(cmq["client"]) /\ ~Has(cmq["server"], Alarm)
  /\ cqh["client"] \in {"idle", "arm", "poll"}
  /\ Within(cqe["client"], Harmless)
  /\ pc["server"] \in {"accept_wait", "accept_check", "ping_wait", "read", "read_wait"}
  /\ \A k \in 1 .. Len(sq["server"]) : sq["server"][k].op # "SEND"

\* The server waits for the advertisement and its callback has not seen it.
Awaiting ==
  /\ Together
  /\ pc["server"] = "accept_wait" /\ state["server"] \in {IDLE, CONNECT_REQUEST}
  /\ sq["server"] = <<>>
  /\ cqh["server"] \in {"idle", "arm", "poll"}

\* The advertisement is on its way, ...
UnderWay == Awaiting /\ cqe["server"] = <<>> /\ Len(sq["client"]) <= 1

\* ... lies in the server's completion queue, ...
Arrived ==
  /\ Awaiting
  /\ NonePosted
  /\ Len(cqe["server"]) = 1 /\ Message(Head(cqe["server"]))

\* ... was polled and its receive is to be posted again, ...
Reposting ==
  /\ Together
  /\ NonePosted
  /\ Within(cqe["server"], NoMessage)
  /\ cqh["server"] = "repost"
  /\ state["server"] = RDMA_READ_ADV

\* ... or was dealt with, or will never come.
Dealt ==
  /\ NonePosted
  /\ Within(cqe["server"], NoMessage)
  /\ cqh["server"] # "repost"

\* Where the server has destroyed its queue pair.
Destroyed ==
  qp["server"] = "gone" =>
    pc["server"] \in {"free_cq", "destroy_child", "destroy_listener", "done"}

AdvertInv ==
  /\ SessionInv
  /\ Destroyed
  /\ <<"server", "qp">> \notin misuse
  /\ pc["client"] \notin Unsent => UnderWay \/ Arrived \/ Reposting \/ Dealt

\* While they are, the connection stays, and no event moves the client.
LEMMA NoEnd ==
  ASSUME NothingCutShort, SessionInv, Next, Together
  PROVE  /\ ~Answering /\ conn' = "established"
         /\ Calm(cmq'["client"]) /\ ~Has(cmq'["server"], Alarm)
         /\ pc'["client"] = "goahead_wait"
         /\ state'["client"] = RDMA_READ_ADV
         /\ cqh'["client"] \in {"idle", "arm", "poll"}
<1> USE SideFacts
<1>1. /\ TypeInv /\ Resolved /\ ClientSends /\ ConnInv /\ signalled = {}
      /\ pc \in [Side -> ClientLabel \cup ServerLabel] /\ cqh \in [Side -> CqPhase]
      /\ cqe["client"] \in Seq(Wc)
  BY DEF SessionInv, QuietInv, HeldInv, ConnInv, TypeInv, TypeOK, ThreadTypeOK, CqTypeOK
<1>2. conn' = conn /\ ~Answering
  <2>1. /\ ~ClientConnect /\ ~ServerAccept
        /\ pc["client"] \notin {"disconnect", "destroy_id"}
        /\ pc["server"] \notin {"disconnect", "destroy_child", "destroy_listener"}
    BY DEF Together, ClientConnect, ServerAccept
  <2>2. ~ConnectionEstablished /\ ~ConnectTimeout
    BY DEF Together, ConnectionEstablished, ConnectTimeout
  <2>3. conn' = conn
    BY <1>1, <2>1, <2>2, ConnBy
  <2> QED BY <2>3 DEF Answering
<1>3. Calm(cmq'["client"]) /\ (CmaEvent("client") => state'["client"] = state["client"])
  BY <1>1, <1>2, CalmKept DEF Together
<1>4. ~Has(cmq'["server"], Alarm)
  BY <1>1, <1>2, AlarmKept DEF Together, Resolved
<1>5. pc'["client"] = "goahead_wait"
  <2>1. ~(state["client"] >= Threshold["goahead_wait"])
    BY DEF Together, Threshold, RDMA_READ_ADV, RDMA_WRITE_ADV
  <2>2. CASE pc'["client"] # pc["client"]
    <3>1. ClientMain
      BY <1>1, <2>2, ThreadMoves
    <3>2. ClientGoAheadWait
      BY <3>1
      DEF Together, ClientMain, ClientStart, ClientBind, ClientBindWait, ClientBindCheck,
          ClientSetupQp, SetupBuffers, PostFirstRecv, ClientConnect, ClientConnectWait,
          ClientConnectCheck, ClientAdvertise, ClientSend, Disconnect, FreeBuffers, FreeQp,
          FreeCq, ClientDestroyId, WaitEvent
    <3> QED BY <1>1, <2>1, <2>2, <3>2 DEF ClientGoAheadWait, WaitEvent
  <2> QED BY <2>2 DEF Together
<1>6. CqPoll("client") => UNCHANGED <<state, cqh>>
  <2>1. SUFFICES ASSUME CqPoll("client")
                 PROVE  UNCHANGED <<state, cqh>>
    OBVIOUS
  <2>2. Head(cqe["client"]) \in Harmless
    BY <1>1, <2>1, WithinMoves DEF Together, CqPoll
  <2> QED BY <2>1, <2>2 DEF CqPoll, Harmless
<1>7. ~CqRepost("client") /\ ~CqWake("client") /\ ~ClientAdvertise
  BY DEF Together, CqRepost, CqWake, ClientAdvertise
<1>8. state'["client"] = RDMA_READ_ADV
  BY <1>1, <1>3, <1>6, <1>7, StateBy DEF Together
<1>9. cqh'["client"] \in {"idle", "arm", "poll"}
  <2>1. CASE megaVM_cq_event_handler("client")
    BY <1>1, <1>6, <1>7, <2>1
    DEF megaVM_cq_event_handler, CqEvent, CqArm, CqPollEmpty, CqGoto, Together
  <2>2. ~CqOwner("client")
    BY DEF Together, CqOwner, FreeQp, FreeCq
  <2>3. ASSUME NEW q, Enter("client", q)
        PROVE  cqh'["client"] \in {"idle", "arm", "poll"}
    BY <2>3 DEF Enter, Together
  <2> QED BY <1>1, <2>1, <2>2, <2>3, CqMoves
<1> QED BY <1>2, <1>3, <1>4, <1>5, <1>8, <1>9 DEF Together

\* Requests that were carried out are not posted again.
LEMMA NonePostedKept ==
  ASSUME TypeInv, Next, pc["client"] \notin Unsent, NonePosted
  PROVE  NonePosted'
<1>1. ~\E op : Posts("client", op)
  BY PostsAt, SideFacts DEF Unsent
<1>2. Remains(sq'["client"], sq["client"])
  BY <1>1, SqMoves, SideFacts DEF Enqueued
<1> QED BY <1>2 DEF Remains, NonePosted

\* Then the client's adapter sends nothing.
LEMMA NothingGoesOut ==
  ASSUME NonePosted, NEW k
  PROVE  ~Transmit("client", k) /\ ~TransmitFails("client", k)
BY DEF NonePosted, Transmit, TransmitFails, MayGoOut

\* A message comes to the server only when the client's adapter sends it.
LEMMA NoMessageEnters ==
  ASSUME TypeInv, NEW q \in Seq(Wc), Source("server", q),
         \A k \in 1 .. Len(sq["client"]) : ~Transmit("client", k)
  PROVE  Within(q, NoMessage)
<1>1. /\ QpTypeOK /\ sq["server"] \in Seq(Wr) /\ "server" \in Side /\ Peer("server") = "client"
  BY SideFacts DEF TypeInv, TypeOK, QpTypeOK, Peer
<1>2. \A op \in Operation, status \in {"ok", "err", "flush"} :
        WcOf(op, status, NoBuffer) \in NoMessage
  <2>1. "RECV" \notin Operation
    BY DEF Operation
  <2> QED BY <2>1, WcOfType DEF NoMessage, Message, WcOf
<1>3. WcOf("RECV", "flush", NoBuffer) \in NoMessage
  BY WcOfType DEF NoMessage, Message, WcOf
<1>4. \A wr \in Wr : wr.op \in Operation
  BY DEF Wr
<1>5. \A k \in Nat : Within(Flushed("server", k), NoMessage)
  <2>1. \A j \in 1 .. Len(sq["server"]) : sq["server"][j] \in Wr
    BY <1>1
  <2> QED BY <1>1, <1>2, <1>3, <1>4, <2>1, FlushedWithin
<1>6. Within(<<>>, NoMessage) /\ \A wc \in NoMessage : Within(<<wc>>, NoMessage)
  BY WithinMoves
<1>7. sq["server"] # <<>> => Head(sq["server"]).op \in Operation
  BY <1>1, <1>4
<1>8. CASE q = <<>>
  BY <1>6, <1>8
<1>9. CASE q = Flushed("server", 0) \/ \E k \in 1 .. Len(sq["server"]) : q = Flushed("server", k)
  BY <1>1, <1>5, <1>9
<1>10. CASE sq["server"] # <<>> /\ q = <<WcOf(Head(sq["server"]).op, "ok", NoBuffer)>>
  BY <1>2, <1>6, <1>7, <1>10
<1>11. CASE \/ q = <<WcOf("RECV", "flush", NoBuffer)>>
            \/ \E op \in Operation : q = <<WcOf(op, "flush", NoBuffer)>>
  BY <1>2, <1>3, <1>6, <1>11
<1> QED BY <1>1, <1>8, <1>9, <1>10, <1>11 DEF Source

\* So the server's queue stays without messages, ...
LEMMA NoMessageKept ==
  ASSUME TypeInv, Next, Within(cqe["server"], NoMessage),
         \A k \in 1 .. Len(sq["client"]) : ~Transmit("client", k)
  PROVE  Within(cqe'["server"], NoMessage)
<1>1. cqe["server"] \in Seq(Wc) /\ "server" \in Side
  BY SideFacts DEF TypeInv, TypeOK, CqTypeOK
<1>2. WcOf("RECV", "flush", NoBuffer) \in Wc /\ WcOf("RECV", "flush", NoBuffer) \in NoMessage
  BY WcOfType DEF NoMessage, Message, WcOf
<1>3. \A q \in Seq(Wc) : Within(q, NoMessage) => Within(cqe["server"] \o q, NoMessage)
  BY <1>1, WithinMoves
<1>4. Within(<<>>, NoMessage) /\ Within(<<WcOf("RECV", "flush", NoBuffer)>>, NoMessage)
  BY <1>2 DEF Within
<1>5. cqe["server"] # <<>> => Within(Tail(cqe["server"]), NoMessage)
  BY <1>1, WithinMoves
<1>6. <<WcOf("RECV", "flush", NoBuffer)>> \in Seq(Wc)
  BY <1>2
<1> QED BY <1>1, <1>3, <1>4, <1>5, <1>6, CompletionsMove, NoMessageEnters

\* ... and its callback posts a receive again only after it has polled one.
LEMMA RepostAfterMessage ==
  ASSUME TypeInv, Next, cqh["server"] # "repost", cqh'["server"] = "repost"
  PROVE  /\ CqPoll("server") /\ cqe["server"] # <<>> /\ Message(Head(cqe["server"]))
         /\ server_recv(Head(cqe["server"]))
<1> USE SideFacts
<1>1. cqh \in [Side -> CqPhase]
  BY DEF TypeInv, TypeOK, CqTypeOK
<1>2. CASE megaVM_cq_event_handler("server")
  BY <1>1, <1>2
  DEF megaVM_cq_event_handler, CqEvent, CqArm, CqPollEmpty, CqPoll, CqRepost, CqWake, CqGoto,
      Message, recv
<1>3. CASE CqOwner("server")
  BY <1>1, <1>3 DEF CqOwner, FreeQp, FreeCq
<1>4. ASSUME NEW q, Enter("server", q)
      PROVE  FALSE
  BY <1>4 DEF Enter
<1> QED BY <1>2, <1>3, <1>4, CqMoves

\* What was dealt with stays so.
LEMMA DealtStep ==
  ASSUME TypeInv, Next, pc["client"] \notin Unsent, Dealt
  PROVE  Dealt'
<1>1. NonePosted' /\ Within(cqe'["server"], NoMessage)
  BY NonePostedKept, NothingGoesOut, NoMessageKept DEF Dealt
<1>2. cqe["server"] \in Seq(Wc) /\ (cqe["server"] # <<>> => Head(cqe["server"]) \in NoMessage)
  BY SideFacts, WithinMoves DEF Dealt, TypeInv, TypeOK, CqTypeOK
<1>3. cqh'["server"] # "repost"
  BY <1>2, RepostAfterMessage DEF Dealt, NoMessage
<1> QED BY <1>1, <1>3 DEF Dealt

\* The client's completions stay harmless as long as its adapter does not fail.
LEMMA HarmlessKept ==
  ASSUME SessionInv, Next, Together, \A k \in 1 .. Len(sq["client"]) : ~TransmitFails("client", k)
  PROVE  Within(cqe'["client"], Harmless)
<1> USE SideFacts
<1>1. /\ TypeInv /\ QpTypeOK /\ cqe["client"] \in Seq(Wc) /\ Within(cqe["client"], Harmless)
      /\ \A k \in 1 .. Len(sq["client"]) : sq["client"][k].op = "SEND"
      /\ sq["client"] \in Seq(Wr) /\ Peer("client") = "server"
      /\ cqh["client"] # "repost" /\ pc["client"] = "goahead_wait"
  BY DEF SessionInv, QuietInv, HeldInv, ClientSends, Together, TypeInv, TypeOK, QpTypeOK,
         CqTypeOK, Peer
<1>2. \A status \in {"ok", "flush"} : WcOf("SEND", status, NoBuffer) \in Harmless
  BY WcOfType DEF Harmless, WcOf, Operation
<1>3. WcOf("RECV", "flush", NoBuffer) \in Harmless
  BY WcOfType DEF Harmless, WcOf
<1>4. Within(Flushed("client", 0), Harmless)
  BY <1>1, <1>2, <1>3, FlushedWithin
<1>5. sq["client"] # <<>> => Head(sq["client"]).op = "SEND"
  BY <1>1
<1>6. ~\E op : Posts("client", op)
  BY <1>1, PostsAt
<1>7. ~\E k \in 1 .. Len(sq["server"]) : sq["server"][k].op = "SEND"
  BY DEF Together
<1>8. ASSUME NEW q \in Seq(Wc), Source("client", q)
      PROVE  Within(q, Harmless)
  <2>1. \/ q = <<>> \/ q = Flushed("client", 0)
        \/ sq["client"] # <<>> /\ q = <<WcOf(Head(sq["client"]).op, "ok", NoBuffer)>>
    BY <1>1, <1>6, <1>7, <1>8 DEF Source
  <2>2. CASE q = <<>>
    BY <2>2 DEF Within
  <2>3. CASE q = Flushed("client", 0)
    BY <1>4, <2>3
  <2>4. CASE sq["client"] # <<>> /\ q = <<WcOf(Head(sq["client"]).op, "ok", NoBuffer)>>
    <3>1. q = <<WcOf("SEND", "ok", NoBuffer)>> /\ WcOf("SEND", "ok", NoBuffer) \in Harmless
      BY <1>2, <1>5, <2>4
    <3> QED BY <3>1 DEF Within
  <2> QED BY <2>1, <2>2, <2>3, <2>4
<1>9. \A q \in Seq(Wc) : Source("client", q) => Within(cqe["client"] \o q, Harmless)
  BY <1>1, <1>8, WithinMoves
<1>10. cqe["client"] # <<>> => Within(Tail(cqe["client"]), Harmless)
  BY <1>1, WithinMoves
<1>11. ~CqRepost("client") /\ ~FreeQp("client")
  BY <1>1 DEF CqRepost, FreeQp
<1>12. \/ cqe'["client"] = cqe["client"]
       \/ cqe["client"] # <<>> /\ cqe'["client"] = Tail(cqe["client"])
       \/ \E q \in Seq(Wc) : Source("client", q) /\ cqe'["client"] = cqe["client"] \o q
  BY <1>1, <1>11, CompletionsMove
<1>13. CASE cqe'["client"] = cqe["client"]
  BY <1>1, <1>13
<1>14. CASE cqe["client"] # <<>> /\ cqe'["client"] = Tail(cqe["client"])
  BY <1>10, <1>14
<1>15. CASE \E q \in Seq(Wc) : Source("client", q) /\ cqe'["client"] = cqe["client"] \o q
  BY <1>9, <1>15
<1> QED BY <1>12, <1>13, <1>14, <1>15

\* The server's state is set then by the advertisement or by a receive that is refused.
LEMMA ServerUnmoved ==
  ASSUME SessionInv, Next, Together, ~CqPoll("server"), ~CqRepost("server")
  PROVE  state'["server"] = state["server"]
<1> USE SideFacts
<1>1. /\ TypeInv /\ OneRequest /\ OneChild /\ Resolved /\ cmq["server"] \in Seq(CmEvent)
      /\ ~Has(cmq["server"], Alarm) /\ ~Has(cmq["server"], Resolution)
  BY DEF SessionInv, QuietInv, HeldInv, TypeInv, TypeOK, CmTypeOK, Resolved, Together
<1>2. ~Has(cmq["server"], {"CONNECT_REQUEST"})
  <2>1. child = "set"
    BY <1>1 DEF Together, OneChild, WithChild
  <2> QED BY <1>1, <2>1 DEF OneRequest, NoChild, Asked
<1>3. CASE CmaEvent("server")
  <2>1. cmq["server"] # <<>>
    BY <1>3 DEF CmaEvent
  <2>2. Head(cmq["server"]) \notin Alarm \cup Resolution \cup {"CONNECT_REQUEST"}
    BY <1>1, <1>2, <2>1, HasMoves
  <2>3. /\ Head(cmq["server"]) \notin {"ADDR_RESOLVED", "CONNECT_REQUEST"}
        /\ StateOfEvent("server", Head(cmq["server"])) = state["server"]
    BY <2>2 DEF StateOfEvent, Alarm, Resolution
  <2> QED BY <1>1, <1>3, <2>3, CmaMoves
<1> QED BY <1>1, <1>3, StateBy

\* How the server's thread goes on to its first wait for data.
LEMMA ServerReads ==
  ASSUME SessionInv, Next, Together, state["server"] = RDMA_READ_ADV
  PROVE  pc'["server"] \in {"accept_wait", "accept_check", "ping_wait", "read", "read_wait"}
<1> USE SideFacts
<1>1. /\ TypeInv /\ signalled = {} /\ pc \in [Side -> ClientLabel \cup ServerLabel]
  BY DEF SessionInv, QuietInv, HeldInv, ConnInv, TypeInv, TypeOK, ThreadTypeOK
<1>2. ~(state["server"] >= Threshold["read_wait"]) /\ state["server"] # ERROR
  BY DEF Threshold, RDMA_READ_ADV, RDMA_READ_COMPLETE, ERROR
<1>3. CASE pc'["server"] # pc["server"]
  <2>1. ServerMain
    BY <1>1, <1>3, ThreadMoves
  <2>2. ServerAcceptWait \/ ServerAcceptCheck \/ ServerPingWait \/ ServerRead \/ ServerReadWait
    BY <2>1
    DEF Together, ServerMain, ServerStart, ServerBind, ServerRequestWait, ServerRequestCheck,
        ServerSetupQp, SetupBuffers, PostFirstRecv, ServerAccept, ServerWrite,
        ServerWriteWait, ServerNextRound, ServerGoAhead, Disconnect, FreeBuffers, FreeQp, FreeCq,
        ServerDestroyChild, ServerDestroyListener, WaitEvent
  <2> QED BY <1>1, <1>2, <1>3, <2>2
      DEF ServerAcceptWait, ServerAcceptCheck, ServerPingWait, ServerRead, ServerReadWait,
          WaitEvent, Goto
<1> QED BY <1>3 DEF Together

\* The server posts no go-ahead before its first read is done.
LEMMA NoGoAheadYet ==
  ASSUME TypeInv, Next, Together
  PROVE  \A k \in 1 .. Len(sq'["server"]) : sq'["server"][k].op # "SEND"
<1> USE SideFacts
<1>1. sq["server"] \in Seq(Wr) /\ \A k \in 1 .. Len(sq["server"]) : sq["server"][k].op # "SEND"
  BY DEF TypeInv, TypeOK, QpTypeOK, Together
<1>2. CASE Remains(sq'["server"], sq["server"])
  BY <1>1, <1>2 DEF Remains
<1>3. ASSUME NEW op \in Operation, Enqueued("server", op)
      PROVE  \A k \in 1 .. Len(sq'["server"]) : sq'["server"][k].op # "SEND"
  <2>1. op # "SEND"
    BY <1>3 DEF Enqueued, Posts, Together, ServerGoAhead
  <2>2. PICK buf : sq'["server"] = Append(sq["server"], [op |-> op, buf |-> buf,
                                                        phase |-> "posted", val |-> "junk"])
    BY <1>3 DEF Enqueued
  <2>3. PICK wr : wr.op = op /\ sq'["server"] = Append(sq["server"], wr)
    BY <2>2
  <2>4. /\ Len(sq'["server"]) = Len(sq["server"]) + 1
        /\ \A k \in 1 .. Len(sq["server"]) : sq'["server"][k] = sq["server"][k]
        /\ sq'["server"][Len(sq["server"]) + 1] = wr
    BY <1>1, <2>3
  <2> QED BY <1>1, <2>1, <2>3, <2>4
<1> QED BY <1>2, <1>3, SqMoves

\* A server that waits goes on waiting.
LEMMA ServerGoesOnWaiting ==
  ASSUME SessionInv, Next, Awaiting
  PROVE  pc'["server"] = "accept_wait" /\ sq'["server"] = <<>>
<1> USE SideFacts
<1>1. TypeInv /\ signalled = {}
  BY DEF SessionInv, QuietInv, HeldInv, ConnInv
<1>2. ~(state["server"] >= CONNECTED)
  BY DEF Awaiting, IDLE, CONNECT_REQUEST, CONNECTED
<1>3. pc'["server"] = "accept_wait"
  BY <1>1, <1>2, ServerOpens DEF Awaiting, Opening
<1>4. ~\E op : Posts("server", op)
  BY <1>1, PostsAt DEF Awaiting
<1> QED BY <1>1, <1>3, <1>4, NothingRemains DEF Awaiting

\* The two sides stay together until the client's adapter fails.
LEMMA TogetherStep ==
  ASSUME NothingCutShort, SessionInv, Next, Together,
         Awaiting \/ state["server"] = RDMA_READ_ADV,
         \A k \in 1 .. Len(sq["client"]) : ~TransmitFails("client", k)
  PROVE  Together'
<1>1. TypeInv
  BY DEF SessionInv, QuietInv, HeldInv
<1>2. pc'["server"] \in {"accept_wait", "accept_check", "ping_wait", "read", "read_wait"}
  BY ServerReads, ServerGoesOnWaiting
<1> QED BY <1>1, <1>2, NoEnd, HarmlessKept, NoGoAheadYet DEF Together

\* So does the wait, until the callback polls.
LEMMA AwaitingStep ==
  ASSUME NothingCutShort, SessionInv, Next, Awaiting, ~CqPoll("server"),
         \A k \in 1 .. Len(sq["client"]) : ~TransmitFails("client", k)
  PROVE  Awaiting'
<1> USE SideFacts
<1>1. TypeInv /\ Together /\ cqh \in [Side -> CqPhase]
  BY DEF SessionInv, QuietInv, HeldInv, Awaiting, TypeInv, TypeOK, CqTypeOK
<1>2. ~CqRepost("server") /\ ~CqWake("server")
  BY DEF Awaiting, CqRepost, CqWake
<1>3. state'["server"] = state["server"]
  BY <1>1, <1>2, ServerUnmoved
<1>4. cqh'["server"] \in {"idle", "arm", "poll"}
  <2>1. CASE megaVM_cq_event_handler("server")
    BY <1>1, <1>2, <2>1
    DEF megaVM_cq_event_handler, CqEvent, CqArm, CqPollEmpty, CqGoto, Awaiting
  <2>2. ~CqOwner("server")
    BY DEF Awaiting, CqOwner, FreeQp, FreeCq
  <2>3. ASSUME NEW q, Enter("server", q)
        PROVE  cqh'["server"] \in {"idle", "arm", "poll"}
    BY <2>3 DEF Enter, Awaiting
  <2> QED BY <1>1, <2>1, <2>2, <2>3, CqMoves
<1>5. Together'
  BY <1>1, TogetherStep
<1> QED BY <1>3, <1>4, <1>5, ServerGoesOnWaiting DEF Awaiting

\* The advertisement is taken by the server, or it fails.
LEMMA UnderWayStep ==
  ASSUME NothingCutShort, SessionInv, Next, UnderWay
  PROVE  UnderWay' \/ Arrived' \/ Dealt'
<1> USE SideFacts
<1>0. /\ TypeInv /\ QpTypeOK /\ CqTypeOK /\ ClientSends
      /\ sq["client"] \in Seq(Wr) /\ sq \in [Side -> Seq(Wr)] /\ cqe \in [Side -> Seq(Wc)]
  BY DEF SessionInv, QuietInv, HeldInv, TypeInv, TypeOK, QpTypeOK, CqTypeOK
<1>1. /\ TypeInv /\ QpTypeOK /\ ClientSends /\ Awaiting /\ Together
      /\ pc["client"] \notin Unsent /\ ~CqPoll("server") /\ cqe["server"] = <<>>
  BY <1>0 DEF UnderWay, Awaiting, Together, CqPoll, Unsent, PreConnect
<1>6. Len(sq["client"]) \in Nat /\ Len(sq["client"]) <= 1
  BY <1>0 DEF UnderWay
<1>7. \A k \in 1 .. Len(sq["client"]) : k = 1 /\ Len(sq["client"]) = 1
  <2>1. \A n \in Nat : n <= 1 => \A k \in 1 .. n : k = 1 /\ n = 1
    OBVIOUS
  <2> QED BY <1>6, <2>1
<1>2. Within(cqe["server"], NoMessage)
  BY <1>1 DEF Within
<1>3. CASE \E k \in 1 .. Len(sq["client"]) : TransmitFails("client", k)
  <2>1. TransmitFails("client", 1) /\ 1 \in 1 .. Len(sq["client"]) /\ Len(sq["client"]) = 1
    <3>1. PICK k \in 1 .. Len(sq["client"]) : TransmitFails("client", k)
      BY <1>3
    <3>2. k = 1 /\ Len(sq["client"]) = 1
      BY <1>7, <3>1
    <3> QED BY <3>1, <3>2
  <2>2. UNCHANGED cqh /\ sq'["client"] = <<>>
    BY <1>0, <1>1, <1>7, <2>1 DEF TransmitFails, QpError
  <2>3. \A k \in 1 .. Len(sq["client"]) : ~Transmit("client", k)
    BY <1>0, <1>1, <1>7, <2>1 DEF TransmitFails, Transmit
  <2>4. Within(cqe'["server"], NoMessage)
    BY <1>0, <1>1, <1>7, <1>2, <2>3, NoMessageKept
  <2> QED BY <1>0, <1>1, <1>7, <2>2, <2>4 DEF Dealt, NonePosted, Awaiting
<1>4. CASE \E k \in 1 .. Len(sq["client"]) : Transmit("client", k)
  <2>1. Transmit("client", 1) /\ 1 \in 1 .. Len(sq["client"]) /\ Len(sq["client"]) = 1
    <3>1. PICK k \in 1 .. Len(sq["client"]) : Transmit("client", k)
      BY <1>4
    <3>2. k = 1 /\ Len(sq["client"]) = 1
      BY <1>7, <3>1
    <3> QED BY <3>1, <3>2
  <2>2. sq["client"][1].op = "SEND" /\ sq["client"][1] \in Wr
    BY <1>0, <1>1, <1>7, <2>1 DEF ClientSends
  <2>3. /\ sq' = [sq EXCEPT !["client"][1].phase = "done"]
        /\ AddCompletions(Only("server", <<WcOf("RECV", "ok", sq["client"][1].buf)>>))
    BY <2>1, <2>2 DEF Transmit, Peer
  <2>4. NonePosted'
    <3>1. sq'["client"] = [sq["client"] EXCEPT ![1] = [sq["client"][1] EXCEPT !.phase = "done"]]
      BY <1>0, <1>1, <1>7, <2>1, <2>3, EntryChanges
    <3>2. Len(sq'["client"]) = 1 /\ sq'["client"][1] = [sq["client"][1] EXCEPT !.phase = "done"]
      BY <1>0, <1>1, <1>7, <2>1, <3>1
    <3> QED BY <2>2, <3>2 DEF NonePosted, Wr
  <2>5. cqe'["server"] = <<WcOf("RECV", "ok", sq["client"][1].buf)>>
    <3>1. cqe'["server"] = cqe["server"] \o <<WcOf("RECV", "ok", sq["client"][1].buf)>>
      BY <2>3 DEF AddCompletions, Only, NoCompletion
    <3> QED BY <1>0, <1>1, <1>7, <3>1
  <2>6. Len(cqe'["server"]) = 1 /\ Message(Head(cqe'["server"]))
    BY <2>5 DEF Message, WcOf
  <2>7. \A k \in 1 .. Len(sq["client"]) : ~TransmitFails("client", k)
    BY <1>0, <1>1, <1>7, <2>1 DEF TransmitFails, Transmit
  <2>8. Awaiting'
    BY <1>0, <1>1, <1>7, <2>7, AwaitingStep
  <2> QED BY <2>4, <2>6, <2>8 DEF Arrived
<1>5. CASE \A k \in 1 .. Len(sq["client"]) : ~TransmitFails("client", k) /\ ~Transmit("client", k)
  <2>1. Awaiting'
    BY <1>0, <1>1, <1>7, <1>5, AwaitingStep
  <2>2. cqe'["server"] = <<>>
    <3>1. ASSUME NEW q \in Seq(Wc), Source("server", q)
          PROVE  q = <<>>
      <4>1. sq["server"] = <<>> /\ Peer("server") = "client" /\ pc["server"] = "accept_wait"
        BY <1>1 DEF Awaiting, Peer
      <4>2. ~\E op \in Operation : Posts("server", op)
        BY <1>0, <1>1, <1>7, <4>1, PostsAt
      <4>3. \A k \in 1 .. Len(sq["server"]) : FALSE
        BY <4>1
      <4> QED BY <1>5, <3>1, <4>1, <4>2, <4>3 DEF Source
    <3>2. ~CqRepost("server") /\ ~FreeQp("server")
      BY <1>1 DEF Awaiting, CqRepost, FreeQp
    <3> QED BY <1>0, <1>1, <1>7, <3>1, <3>2, CompletionsMove
  <2>3. Len(sq'["client"]) <= 1
    <3>1. ~\E op : Posts("client", op)
      BY <1>0, <1>1, <1>7, PostsAt DEF Together
    <3>2. Remains(sq'["client"], sq["client"])
      BY <1>0, <1>1, <1>7, <3>1, SqMoves DEF Enqueued
    <3>3. Len(sq'["client"]) <= Len(sq["client"])
      BY <3>2 DEF Remains
    <3>4. sq'["client"] \in Seq(Wr)
      BY <1>0, <1>1, <1>7, QueueStep DEF QpTypeOK
    <3> QED BY <1>6, <3>3, <3>4
  <2> QED BY <2>1, <2>2, <2>3 DEF UnderWay
<1> QED BY <1>3, <1>4, <1>5

\* The message waits for the server's callback.
LEMMA ArrivedStep ==
  ASSUME NothingCutShort, SessionInv, Next, Arrived
  PROVE  Arrived' \/ Reposting'
<1> USE SideFacts
<1>1. /\ TypeInv /\ Together /\ Awaiting /\ NonePosted /\ pc["client"] \notin Unsent
      /\ cqe["server"] \in Seq(Wc) /\ Len(cqe["server"]) = 1 /\ Message(Head(cqe["server"]))
      /\ state \in [Side -> TestState] /\ cqh \in [Side -> CqPhase] /\ cqe \in [Side -> Seq(Wc)]
  BY DEF SessionInv, QuietInv, HeldInv, Arrived, Awaiting, Together, TypeInv, TypeOK,
         CqTypeOK, ContextTypeOK, Unsent, PreConnect
<1>2. /\ NonePosted'
      /\ \A k \in 1 .. Len(sq["client"]) : ~TransmitFails("client", k) /\ ~Transmit("client", k)
  BY <1>1, NonePostedKept, NothingGoesOut
<1>3. CASE CqPoll("server")
  <2>1. cqe'["server"] = <<>>
    BY <1>1, <1>3 DEF CqPoll
  <2>2. /\ cqh'["server"] = "repost"
        /\ server_recv(Head(cqe["server"]))
    BY <1>1, <1>3 DEF CqPoll, CqGoto, Message, recv
  <2>3. state["server"] <= CONNECTED
    BY <1>1 DEF Awaiting, IDLE, CONNECT_REQUEST, CONNECTED
  <2>4. state'["server"] = RDMA_READ_ADV
    BY <1>1, <2>2, <2>3 DEF server_recv, SetState
  <2>5. Together'
    BY <1>1, <1>2, TogetherStep
  <2>6. Within(cqe'["server"], NoMessage)
    BY <2>1 DEF Within
  <2> QED BY <1>2, <2>2, <2>4, <2>5, <2>6 DEF Reposting
<1>4. CASE ~CqPoll("server")
  <2>1. Awaiting'
    BY <1>1, <1>2, <1>4, AwaitingStep
  <2>2. cqe'["server"] = cqe["server"]
    <3>1. ASSUME NEW q \in Seq(Wc), Source("server", q)
          PROVE  q = <<>>
      <4>1. sq["server"] = <<>> /\ Peer("server") = "client" /\ pc["server"] = "accept_wait"
        BY <1>1 DEF Awaiting, Peer
      <4>2. ~\E op \in Operation : Posts("server", op)
        BY <1>1, <4>1, PostsAt
      <4>3. \A k \in 1 .. Len(sq["server"]) : FALSE
        BY <4>1
      <4> QED BY <1>2, <3>1, <4>1, <4>2, <4>3 DEF Source
    <3>2. ~CqRepost("server") /\ ~FreeQp("server")
      BY <1>1 DEF Awaiting, CqRepost, FreeQp
    <3>3. cqe["server"] \o <<>> = cqe["server"]
      BY <1>1
    <3> QED BY <1>1, <1>4, <3>1, <3>2, <3>3, CompletionsMove
  <2> QED BY <1>1, <1>2, <2>1, <2>2 DEF Arrived
<1> QED BY <1>3, <1>4

\* The receive is posted again before the server has got further than its first read.
LEMMA RepostingStep ==
  ASSUME NothingCutShort, SessionInv, Next, Reposting
  PROVE  Reposting' \/ Dealt'
<1> USE SideFacts
<1>1. /\ TypeInv /\ Together /\ NonePosted /\ pc["client"] \notin Unsent
      /\ Within(cqe["server"], NoMessage) /\ cqh \in [Side -> CqPhase]
  BY DEF SessionInv, QuietInv, HeldInv, Reposting, Together, TypeInv, TypeOK, CqTypeOK, Unsent,
         PreConnect
<1>2. /\ NonePosted' /\ Within(cqe'["server"], NoMessage)
      /\ \A k \in 1 .. Len(sq["client"]) : ~TransmitFails("client", k)
  BY <1>1, NonePostedKept, NothingGoesOut, NoMessageKept
<1>3. CASE cqh'["server"] # "repost"
  BY <1>2, <1>3 DEF Dealt
<1>4. CASE cqh'["server"] = "repost"
  <2>1. ~CqPoll("server") /\ ~CqRepost("server")
    BY <1>1, <1>4 DEF Reposting, CqPoll, CqRepost, CqGoto
  <2>2. state'["server"] = RDMA_READ_ADV
    BY <1>1, <2>1, ServerUnmoved DEF Reposting
  <2>3. Together'
    BY <1>1, <1>2, TogetherStep DEF Reposting
  <2> QED BY <1>2, <1>4, <2>2, <2>3 DEF Reposting
<1> QED BY <1>3, <1>4

\* The client's post of its advertisement: it is under way, or it was flushed or refused,
\* and then the queues stay as empty.
LEMMA FirstPost ==
  ASSUME NothingCutShort, SessionInv, ClientSend
  PROVE  UnderWay'
<1> USE SideFacts
<1>0. /\ TypeInv /\ ConnInv /\ ServerWaits /\ Fresh /\ Connecting /\ pc["client"] = "send"
      /\ pc \in [Side -> ClientLabel \cup ServerLabel] /\ QpTypeOK /\ CqTypeOK
      /\ conn \in {"none", "requested", "accepted", "established", "closed"}
  BY DEF SessionInv, QuietInv, HeldInv, TypeInv, TypeOK, ThreadTypeOK, CmTypeOK, ClientSend,
         Unsent, Before
<1>1. conn = "established"
  BY <1>0 DEF Connecting, ConnInv, PreConnect
<1>2. /\ pc["server"] = "accept_wait"
      /\ state["client"] = RDMA_READ_ADV /\ Calm(cmq["client"])
  BY <1>0, <1>1 DEF Connecting
<1>3. /\ state["server"] \in {IDLE, CONNECT_REQUEST} /\ ~Has(cmq["server"], Alarm)
      /\ cqe["server"] = <<>> /\ sq["server"] = <<>> /\ cqh["server"] \in {"idle", "arm", "poll"}
      /\ cqe["client"] = <<>> /\ sq["client"] = <<>> /\ cqh["client"] = "idle"
  BY <1>0, <1>2 DEF ServerWaits, Fresh, Opening
<1>4. /\ UNCHANGED <<state, cmq, conn, cqh>>
      /\ pc' = [pc EXCEPT !["client"] = "goahead_wait"]
      /\ PostSend("client", "SEND", "start_buf")
  BY DEF ClientSend, contextVars, cmVars, Goto
<1>5. pc'["client"] = "goahead_wait" /\ pc'["server"] = "accept_wait"
  BY <1>0, <1>2, <1>4
<1>6. sq'["server"] = <<>> /\ Len(sq'["client"]) <= 1
  <2>1. \/ sq' = sq
        \/ \E wr : sq' = [sq EXCEPT !["client"] = Append(sq["client"], wr)]
    BY <1>4 DEF PostSend
  <2>2. sq \in [Side -> Seq(Wr)]
    BY <1>0 DEF QpTypeOK
  <2>3. CASE sq' = sq
    BY <1>3, <2>3
  <2>4. ASSUME NEW wr, sq' = [sq EXCEPT !["client"] = Append(sq["client"], wr)]
        PROVE  sq'["server"] = <<>> /\ Len(sq'["client"]) <= 1
    <3>1. sq'["server"] = sq["server"] /\ sq'["client"] = Append(sq["client"], wr)
      BY <2>2, <2>4
    <3>2. sq'["client"] = <<wr>>
      BY <1>3, <3>1
    <3> QED BY <1>3, <3>1, <3>2
  <2> QED BY <2>1, <2>3, <2>4
<1>7. cqe'["server"] = <<>> /\ Within(cqe'["client"], Harmless)
  <2>1. CASE cqe' = cqe
    BY <1>3, <2>1 DEF Within
  <2>2. CASE AddCompletions(Only("client", <<WcOf("SEND", "flush", NoBuffer)>>))
    <3>1. /\ cqe'["client"] = cqe["client"] \o <<WcOf("SEND", "flush", NoBuffer)>>
          /\ cqe'["server"] = cqe["server"] \o <<>>
      BY <2>2 DEF AddCompletions, Only, NoCompletion
    <3>2. /\ cqe'["client"] = <<WcOf("SEND", "flush", NoBuffer)>>
          /\ cqe'["server"] = <<>>
      BY <1>3, <3>1
    <3>3. WcOf("SEND", "flush", NoBuffer) \in Harmless
      <4>1. "SEND" \in Operation
        BY DEF Operation
      <4> QED BY <4>1, WcOfType DEF Harmless, WcOf
    <3> QED BY <3>2, <3>3 DEF Within
  <2> QED BY <1>4, <2>1, <2>2 DEF PostSend
<1> QED
  BY <1>1, <1>2, <1>3, <1>4, <1>5, <1>6, <1>7 DEF UnderWay, Awaiting, Together

\* However the client comes past the place where it posts its advertisement.
LEMMA FirstStep ==
  ASSUME NothingCutShort, SessionInv, Next,
         pc["client"] \in Unsent, pc'["client"] \notin Unsent
  PROVE  UnderWay' \/ Dealt'
<1> USE SideFacts
<1>1. CASE ClientSend
  BY <1>1, FirstPost
<1>2. CASE ~ClientSend
  <2>1. TypeInv /\ sq["client"] = <<>> /\ ServerWaits'
    BY ServerWaitsStep DEF SessionInv, QuietInv, HeldInv, Before, Fresh
  <2>2. ~\E op : Posts("client", op)
    BY <1>2 DEF Posts
  <2>3. sq'["client"] = <<>>
    BY <2>1, <2>2, NothingRemains
  <2>4. NonePosted'
    BY <2>3 DEF NonePosted
  <2>5. Within(cqe'["server"], NoMessage) /\ cqh'["server"] # "repost"
    BY <2>1 DEF ServerWaits, Within, Flushes, NoMessage, Message
  <2> QED BY <2>4, <2>5 DEF Dealt
<1> QED BY <1>1, <1>2

\* The queue pair is gone only where the main thread has destroyed it.
LEMMA DestroyedStep ==
  ASSUME TypeInv, Next, Destroyed
  PROVE  Destroyed'
<1> USE SideFacts
<1> SUFFICES ASSUME qp'["server"] = "gone"
             PROVE  pc'["server"] \in {"free_cq", "destroy_child", "destroy_listener", "done"}
  BY DEF Destroyed
<1>1. pc \in [Side -> ClientLabel \cup ServerLabel]
  BY DEF TypeInv, TypeOK, ThreadTypeOK
<1>2. CASE FreeQp("server")
  BY <1>1, <1>2 DEF FreeQp, Goto
<1>3. CASE qp["server"] = "gone"
  <2>1. pc["server"] \in {"free_cq", "destroy_child", "destroy_listener", "done"}
    BY <1>3 DEF Destroyed
  <2>2. CASE pc'["server"] = pc["server"]
    BY <2>1, <2>2
  <2>3. CASE pc'["server"] # pc["server"]
    <3>1. ServerMain
      BY <1>1, <2>3, ThreadMoves
    <3>2. \/ FreeCq("server", "destroy_child") \/ ServerDestroyChild \/ ServerDestroyListener
      BY <2>1, <3>1
      DEF ServerMain, ServerStart, ServerBind, ServerRequestWait, ServerRequestCheck,
          ServerSetupQp, SetupBuffers, PostFirstRecv, ServerAccept, ServerAcceptWait,
          ServerAcceptCheck, ServerPingWait, ServerRead, ServerReadWait, ServerWrite,
          ServerWriteWait, ServerNextRound, ServerGoAhead, Disconnect, FreeBuffers, FreeQp,
          WaitEvent
    <3> QED BY <1>1, <3>2 DEF FreeCq, ServerDestroyChild, ServerDestroyListener, Goto
  <2> QED BY <2>2, <2>3
<1> QED BY <1>2, <1>3, QpGoes

\* The server's completion callback alone notes a receive posted on a queue pair that is gone.
LEMMA MisusedQp ==
  ASSUME TypeInv, Next, <<"server", "qp">> \notin misuse, <<"server", "qp">> \in misuse'
  PROVE  cqh["server"] = "repost" /\ qp["server"] = "gone"
<1> USE SideFacts
<1>1. CASE ClientMain
  <2>1. misuse' = misuse
    BY <1>1
    DEF ClientMain, ClientStart, ClientBind, ClientBindWait, ClientBindCheck, ClientSetupQp,
        SetupBuffers, PostFirstRecv, ClientConnect, ClientConnectWait, ClientConnectCheck,
        ClientAdvertise, ClientSend, ClientGoAheadWait, Disconnect, FreeBuffers, FreeQp,
        FreeCq, ClientDestroyId, WaitEvent
  <2> QED BY <2>1
<1>2. CASE ServerMain
  <2>1. misuse' = misuse \/ misuse' = misuse \cup {<<"server", "child">>}
    BY <1>2
    DEF ServerMain, ServerStart, ServerBind, ServerRequestWait, ServerRequestCheck,
        ServerSetupQp, SetupBuffers, PostFirstRecv, ServerAccept, ServerAcceptWait,
        ServerAcceptCheck, ServerPingWait, ServerRead, ServerReadWait, ServerWrite,
        ServerWriteWait, ServerNextRound, ServerGoAhead, Disconnect, FreeBuffers, FreeQp,
        FreeCq, ServerDestroyChild, ServerDestroyListener, WaitEvent
  <2> QED BY <2>1
<1>3. ASSUME NEW x \in Side, megaVM_cma_event_handler(x)
      PROVE  FALSE
  <2>1. misuse' = misuse \/ misuse' = misuse \cup {<<x, "context">>}
    BY <1>3 DEF megaVM_cma_event_handler, CmaEvent, CmaChild, CmaWake, NoteFreedContext
  <2> QED BY <2>1
<1>4. ASSUME NEW x \in Side, megaVM_cq_event_handler(x)
      PROVE  cqh["server"] = "repost" /\ qp["server"] = "gone"
  <2>1. \/ misuse' = misuse
        \/ misuse' = misuse \cup {<<x, "qp">>} /\ cqh[x] = "repost" /\ qp[x] = "gone"
    BY <1>4
    DEF megaVM_cq_event_handler, CqEvent, CqArm, CqPollEmpty, CqPoll, CqRepost, CqWake
  <2> QED BY <2>1
<1>5. ASSUME NEW x \in Side, Adapter(x) \/ StrayEvent(x) \/ Signal(x)
      PROVE  FALSE
  BY <1>5 DEF Adapter, Transmit, TransmitFails, ReadArrives, CompleteSend, StrayEvent, Signal
<1>6. CASE ConnectionEstablished \/ ConnectTimeout \/ UNCHANGED vars
  BY <1>6 DEF ConnectionEstablished, ConnectTimeout, vars
<1> QED BY <1>1, <1>2, <1>3, <1>4, <1>5, <1>6 DEF Next, Progress, Fault, Over, Callbacks

\* So it never does: when a receive is to be posted again the server is at work.
LEMMA RepostsAlive ==
  ASSUME AdvertInv, Next
  PROVE  <<"server", "qp">> \notin misuse'
<1>1. TypeInv
  BY DEF AdvertInv, SessionInv, QuietInv, HeldInv
<1>2. SUFFICES ASSUME cqh["server"] = "repost", qp["server"] = "gone"
               PROVE  FALSE
  BY <1>1, MisusedQp DEF AdvertInv
<1>3. pc["client"] \notin Unsent
  BY <1>2 DEF AdvertInv, SessionInv, Before, ServerWaits
<1>4. Reposting
  BY <1>2, <1>3 DEF AdvertInv, UnderWay, Arrived, Awaiting, Dealt
<1>5. pc["server"] \in {"free_cq", "destroy_child", "destroy_listener", "done"}
  BY <1>2 DEF AdvertInv, Destroyed
<1> QED BY <1>4, <1>5 DEF Reposting, Together

\* Every step keeps it.
LEMMA AdvertStep ==
  ASSUME NothingCutShort, AdvertInv, Next, SessionInv'
  PROVE  AdvertInv'
<1>1. TypeInv /\ SessionInv
  BY DEF AdvertInv, SessionInv, QuietInv, HeldInv
<1>2. Destroyed' /\ <<"server", "qp">> \notin misuse'
  BY <1>1, DestroyedStep, RepostsAlive DEF AdvertInv
<1>3. ASSUME pc'["client"] \notin Unsent
      PROVE  UnderWay' \/ Arrived' \/ Reposting' \/ Dealt'
  <2>1. CASE pc["client"] \in Unsent
    BY <1>1, <1>3, <2>1, FirstStep
  <2>2. CASE pc["client"] \notin Unsent
    <3>1. CASE UnderWay
      BY <1>1, <3>1, UnderWayStep
    <3>2. CASE Arrived
      BY <1>1, <3>2, ArrivedStep
    <3>3. CASE Reposting
      BY <1>1, <3>3, RepostingStep
    <3>4. CASE Dealt
      BY <1>1, <2>2, <3>4, DealtStep
    <3> QED BY <2>2, <3>1, <3>2, <3>3, <3>4 DEF AdvertInv
  <2> QED BY <2>1, <2>2
<1> QED BY <1>2, <1>3 DEF AdvertInv

\* What holds of the server's callback and its queue pair in a session whose waits are not
\* cut short holds at every step.
THEOREM AdvertInvariance ==
  ASSUME NothingCutShort
  PROVE  Spec => []AdvertInv
<1>1. Init /\ SessionInv => AdvertInv
  <2>1. Init => qp["server"] = "none" /\ misuse = {} /\ pc["client"] = "start"
    BY SideFacts DEF Init, InitContext
  <2> QED BY <2>1 DEF AdvertInv, Destroyed, Unsent, PreConnect
<1>2. AdvertInv /\ [Next]_vars /\ SessionInv' => AdvertInv'
  <2>1. CASE UNCHANGED vars
    BY <2>1
    DEF AdvertInv, Destroyed, UnderWay, Arrived, Reposting, Dealt, Awaiting, Together,
        NonePosted, Within, Has, Calm, vars, threadVars, contextVars, cmVars, cqVars, qpVars
  <2> QED BY <2>1, AdvertStep
<1> QED BY <1>1, <1>2, SessionInvariance, PTL DEF Spec

\* While no signal and no timeout cuts a wait short, the server's completion callback never
\* posts its receive on a queue pair that the main thread has destroyed.
THEOREM RepostsOnLiveQp ==
  ASSUME NothingCutShort
  PROVE  Spec => []ServerRepostsOnLiveQp
<1>1. AdvertInv => ServerRepostsOnLiveQp
  BY DEF AdvertInv, ServerRepostsOnLiveQp
<1> QED BY <1>1, AdvertInvariance, PTL
=============================================================================
