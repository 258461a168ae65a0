--------------------------- MODULE PingPongProofs ---------------------------
(***************************************************************************)
(* A session implements PingPong, for every number of rounds: what the     *)
(* buffers, the queues and the completions carry, how many writes there    *)
(* are, and then the step simulation.                                      *)
(***************************************************************************)
EXTENDS MegaVMProofs

-----------------------------------------------------------------------------
(* The invariant: what the data are, wherever they may be.                *)

\* The server's posts are not refused: neither by the adapter, nor because its send
\* queue, which the requests of all rounds may have to share, is full.
PostsSucceed ==
  /\ Faults \cap {<<"server", "post">>, <<"server", "recv">>} = {}
  /\ 2 * Rounds <= TxDepth

\* The ping is in the client's buffer, and in the server's own.
Shared == mem["start_buf"] = "ping"
Copied == rdmaBuf = "ping"

\* The server knows where to read.
Known == advert = "start_buf" /\ Shared

\* A queue pair has failed: no request of the server is carried out any more.
Broken == \E s \in Side : qp[s] \in {"err", "gone"}

\* What may be on the client's send queue, and on the server's.
Adverts == {wr \in Wr : wr.phase # "fetched" /\ wr.buf = "start_buf" /\ Shared}
Asks == {wr \in Wr :
  /\ Known
  /\ wr.op # "SEND" => wr.buf = "start_buf"
  /\ wr.phase = "fetched" => wr.op = "READ" /\ wr.val = "ping"
  /\ wr.phase = "done" /\ wr.op # "SEND" => Copied
  /\ wr.op = "WRITE" => Copied \/ Broken}

\* What may wait in the server's completion queue.
News == {wc \in Wc :
  /\ Message(wc) => wc.info = "start_buf" /\ Shared
  /\ wc.op \in {"READ", "WRITE"} /\ wc.status = "ok" => Known /\ Copied
  /\ wc.status = "err" => Broken}

\* No read is answered before all that was posted ahead of it is done.
ReadsFirst(q) ==
  \A k \in 1 .. Len(q) : q[k].phase = "fetched" => \A j \in 1 .. k - 1 : q[j].phase = "done"

QueuedInv ==
  /\ Within(sq["client"], Adverts)
  /\ Within(sq["server"], Asks)
  /\ Within(cqe["server"], News)
  /\ ReadsFirst(sq["server"])

\* The labels of the loop, past the wait for the advertisement.
Working == {"ping_wait", "read", "read_wait", "write", "write_wait", "next_round", "go_ahead",
            "disconnect"}

\* What the server's state and label say about the data.
ServerInv ==
  /\ pc["server"] \in Opening \cup Leaving \cup Working \cup {"accept_check"}
  /\ state["server"] \in RDMA_READ_ADV .. RDMA_WRITE_COMPLETE => Known
  /\ state["server"] \in RDMA_READ_COMPLETE .. RDMA_WRITE_COMPLETE => Copied
  /\ state["server"] \notin {ADDR_RESOLVED, ROUTE_RESOLVED, CONNECTED}
  /\ state["server"] = ERROR \/ Has(cmq["server"], Alarm) => Broken \/ pc["server"] \in Leaving
  /\ pc["server"] \notin Opening \cup Leaving => state["server"] \notin {IDLE, CONNECT_REQUEST}
  /\ pc["server"] \in Working => Known
  /\ pc["server"] \in {"write", "write_wait", "next_round", "go_ahead"} \/ round > 0 =>
       Copied \/ Broken
  /\ \/ pc["server"] = "go_ahead"
     \/ \E k \in 1 .. Len(sq["server"]) : sq["server"][k].op = "SEND"
     => round = Rounds
  /\ pc["server"] \in Working \cup {"accept_wait", "accept_check"} =>
       qp["server"] \notin {"none", "init"}

\* The labels at which the client's buffers are registered with its adapter.
Registered == {"post_recv", "connect", "connect_wait", "connect_check", "advertise", "send",
               "goahead_wait", "disconnect"}

\* The client's end of the connection is up only while its main thread is at work.
ClientInv ==
  /\ pc["client"] \in Unsent =>
       qp["client"] \in {"none", "init"} \/ (qp["client"] = "rts" /\ conn = "established")
  /\ qp["client"] = "rts" \/ conn = "established" =>
       pc["client"] \in Unsent \cup {"goahead_wait", "disconnect"}
  /\ pc["client"] \in Registered => "dma_mr" \in held["client"]

\* How many writes the server still has to carry out, ...
Marked(q) == {k \in 1 .. Len(q) : q[k].op = "WRITE" /\ q[k].phase = "posted"}
WritesLeft == Cardinality(Marked(sq["server"]))

\* ... how many it has posted, and how many requests in all.
WritesMade == round + (IF pc["server"] \in {"write_wait", "next_round"} THEN 1 ELSE 0)
RequestsMade ==
  2 * round + (IF pc["server"] \in {"write_wait", "next_round"} THEN 2
               ELSE IF pc["server"] \in {"read_wait", "write"} THEN 1 ELSE 0)

\* Each write is carried out once, or the connection is down; and no go-ahead comes before
\* the advertisement.
CountInv ==
  /\ ~Broken => carried["WRITE"] + WritesLeft = WritesMade
  /\ pc["client"] \in Unsent => carried["SEND"] = 0
  /\ pc["server"] \notin Sent \cup {"oops"} => SqInUse("server") <= RequestsMade

EchoInv ==
  /\ AdvertInv
  /\ GoAheadInv
  /\ QueuedInv
  /\ ServerInv
  /\ ClientInv
  /\ CountInv

\* The server posts request op.
Put(op) ==
  /\ Posts("server", op)
  /\ sq'["server"] = Append(sq["server"],
       [op |-> op, buf |-> IF op = "SEND" THEN NoBuffer ELSE advert, phase |-> "posted",
        val |-> "junk"])

\* All that can happen to the server's send queue and to the buffers.
QueueMoved(r) ==
  \/ /\ r = sq["server"]
     /\ UNCHANGED <<rdmaBuf, carried>>
     /\ mem' = mem \/ ClientSend
  \/ r = <<>> /\ qp'["server"] \in {"err", "gone"} /\ UNCHANGED bufferVars
  \/ CompleteSend("server")
  \/ UNCHANGED bufferVars /\ \E op \in Operation : Put(op)
  \/ \E k \in 1 .. Len(sq["server"]) : Transmit("server", k) \/ ReadArrives("server", k)

-----------------------------------------------------------------------------
(* What may happen to the queues and to the buffers.                      *)

\* The client's adapter touches neither buffer: the client only sends.
LEMMA ClientOnlySends ==
  ASSUME TypeInv, ClientSends, Within(sq["client"], Adverts), NEW k \in 1 .. Len(sq["client"])
  PROVE  /\ sq["client"][k].op = "SEND" /\ sq["client"][k].buf = "start_buf"
         /\ sq["client"][k].phase # "fetched" /\ Shared
BY DEF Within, Adverts, ClientSends

\* Whatever step is taken.
LEMMA ServerQueueMoves ==
  ASSUME TypeInv, ClientSends, Within(sq["client"], Adverts), Next
  PROVE  QueueMoved(sq'["server"])
<1> USE SideFacts
<1>1. /\ sq \in [Side -> Seq(Wr)] /\ qp \in [Side -> {"none", "init", "rts", "err", "gone"}]
  BY DEF TypeInv, TypeOK, QpTypeOK
<1>2. "SEND" \in Operation /\ "READ" \in Operation /\ "WRITE" \in Operation
  BY DEF Operation
<1>3. ASSUME NEW m \in Side, QpError({m}, Only(m, Flushed(m, 0))) \/ FreeQp(m),
             UNCHANGED bufferVars
      PROVE  QueueMoved(sq'["server"])
  <2>1. CASE m = "client"
    <3>1. sq'["server"] = sq["server"]
      BY <1>1, <1>3, <2>1 DEF QpError, FreeQp
    <3> QED BY <1>3, <3>1 DEF QueueMoved, bufferVars
  <2>2. CASE m = "server"
    <3>1. sq'["server"] = <<>> /\ qp'["server"] \in {"err", "gone"}
      BY <1>1, <1>3, <2>2 DEF QpError, FreeQp
    <3> QED BY <1>3, <3>1 DEF QueueMoved
  <2> QED BY <2>1, <2>2
<1>4. CASE ServerMain
  <2>1. UNCHANGED bufferVars
    BY <1>4, ServerBuffer
  <2>2. ASSUME NEW op \in Operation, Posts("server", op),
               PostSend("server", op, IF op = "SEND" THEN NoBuffer ELSE advert)
        PROVE  QueueMoved(sq'["server"])
    <3>1. CASE sq' = sq
      BY <2>1, <3>1 DEF QueueMoved, bufferVars
    <3>2. CASE sq' # sq
      <4>1. Put(op)
        BY <1>1, <2>2, <3>2 DEF PostSend, Put
      <4> QED BY <2>1, <4>1 DEF QueueMoved
    <3> QED BY <3>1, <3>2
  <2>3. \/ sq' = sq
        \/ QpError({"server"}, Only("server", Flushed("server", 0)))
        \/ FreeQp("server")
        \/ \E op \in Operation : /\ Posts("server", op)
                                 /\ PostSend("server", op, IF op = "SEND" THEN NoBuffer ELSE advert)
    BY <1>2, <1>4
    DEF ServerMain, ServerStart, ServerBind, ServerRequestWait, ServerRequestCheck,
        ServerSetupQp, SetupBuffers, PostFirstRecv, ServerAccept, ServerAcceptWait,
        ServerAcceptCheck, ServerPingWait, ServerRead, ServerReadWait, ServerWrite,
        ServerWriteWait, ServerNextRound, ServerGoAhead, Disconnect, DisconnectConnection,
        FreeBuffers, FreeCq, ServerDestroyChild, ServerDestroyListener, WaitEvent, qpVars,
        Posts
  <2>4. CASE sq' = sq
    BY <2>1, <2>4 DEF QueueMoved, bufferVars
  <2> QED BY <1>3, <2>1, <2>2, <2>3, <2>4
<1>5. CASE ClientMain
  <2>1. ClientSend \/ UNCHANGED bufferVars
    BY <1>5, ClientBuffer
  <2>2. CASE ClientSend
    <3>1. sq'["server"] = sq["server"]
      <4>1. \A buf : PostSend("client", "SEND", buf) => sq'["server"] = sq["server"]
        BY <1>1 DEF PostSend
      <4> QED BY <2>2, <4>1 DEF ClientSend
    <3> QED BY <2>2, <3>1 DEF QueueMoved, ClientSend
  <2>3. CASE ~ClientSend
    <3>1. \/ sq' = sq
          \/ QpError({"client"}, Only("client", Flushed("client", 0)))
          \/ FreeQp("client")
      BY <1>5, <2>3
      DEF ClientMain, ClientStart, ClientBind, ClientBindWait, ClientBindCheck, ClientSetupQp,
          SetupBuffers, PostFirstRecv, ClientConnect, ClientConnectWait,
          ClientConnectCheck, ClientAdvertise, ClientGoAheadWait, Disconnect,
          DisconnectConnection, FreeBuffers, FreeCq, ClientDestroyId, WaitEvent, qpVars
    <3>2. CASE sq' = sq
      BY <2>1, <2>3, <3>2 DEF QueueMoved, bufferVars
    <3> QED BY <1>3, <2>1, <2>3, <3>1, <3>2
  <2> QED BY <2>2, <2>3
<1>6. ASSUME NEW k \in 1 .. Len(sq["client"]), Transmit("client", k) \/ ReadArrives("client", k)
      PROVE  QueueMoved(sq'["server"])
  <2>1. Transmit("client", k) /\ sq["client"][k].op = "SEND"
    BY <1>6, ClientOnlySends DEF ReadArrives
  <2>2. sq' = [sq EXCEPT !["client"][k].phase = "done"] /\ UNCHANGED bufferVars
    BY <2>1 DEF Transmit, bufferVars
  <2>3. sq'["server"] = sq["server"]
    BY <1>1, <2>2
  <2> QED BY <2>2, <2>3 DEF QueueMoved, bufferVars
<1>7. ASSUME NEW x \in Side, NEW k \in 1 .. Len(sq[x]), TransmitFails(x, k)
      PROVE  QueueMoved(sq'["server"])
  <2>1. UNCHANGED bufferVars
    BY <1>7 DEF TransmitFails
  <2>2. PICK sides : \E add : QpError(sides, add)
    BY <1>7 DEF TransmitFails
  <2>3. CASE "server" \in sides
    <3>1. sq'["server"] = <<>> /\ qp'["server"] = "err"
      BY <2>2, <2>3 DEF QpError
    <3> QED BY <2>1, <3>1 DEF QueueMoved
  <2>4. CASE "server" \notin sides
    <3>1. sq'["server"] = sq["server"]
      BY <2>2, <2>4 DEF QpError
    <3> QED BY <2>1, <3>1 DEF QueueMoved, bufferVars
  <2> QED BY <2>3, <2>4
<1>8. CASE CompleteSend("client")
  <2>1. sq'["server"] = sq["server"] /\ UNCHANGED bufferVars
    BY <1>1, <1>8 DEF CompleteSend
  <2> QED BY <2>1 DEF QueueMoved, bufferVars
<1>9. ASSUME NEW x \in Side, Adapter(x)
      PROVE  QueueMoved(sq'["server"])
  BY <1>6, <1>7, <1>8, <1>9 DEF Adapter, QueueMoved
<1>10. CASE \/ ConnectionEstablished \/ ConnectTimeout \/ UNCHANGED vars
            \/ \E x \in Side : \/ megaVM_cma_event_handler(x) \/ StrayEvent(x) \/ Signal(x)
                               \/ megaVM_cq_event_handler(x)
  <2>1. sq' = sq /\ UNCHANGED bufferVars
    BY <1>10, OtherQueues, OtherBuffer
    DEF ConnectionEstablished, ConnectTimeout, vars, qpVars, megaVM_cq_event_handler, CqEvent,
        CqArm, CqPollEmpty, CqPoll, CqRepost, CqWake, Callbacks
  <2> QED BY <2>1 DEF QueueMoved, bufferVars
<1> QED BY <1>4, <1>5, <1>9, <1>10 DEF Next, Progress, Fault, Over, Callbacks

\* What the proofs below take from the invariant.
LEMMA EchoFacts ==
  ASSUME EchoInv
  PROVE  /\ TypeInv /\ TypeOK /\ QuietInv /\ SessionInv /\ ClientSends /\ signalled = {}
         /\ QpTypeOK /\ CqTypeOK /\ QpPlace
         /\ pc \in [Side -> ClientLabel \cup ServerLabel] /\ state \in [Side -> TestState]
         /\ mem \in [Buffer -> Content] /\ carried \in [Operation -> Nat]
         /\ sq \in [Side -> Seq(Wr)] /\ cqe \in [Side -> Seq(Wc)]
         /\ sq["server"] \in Seq(Wr) /\ sq["client"] \in Seq(Wr) /\ cqe["server"] \in Seq(Wc)
         /\ round \in 0 .. Rounds
BY SideFacts
DEF EchoInv, AdvertInv, SessionInv, QuietInv, HeldInv, ConnInv, TypeInv, TypeOK, QpTypeOK, CqTypeOK,
    ThreadTypeOK, ContextTypeOK, BufferTypeOK

\* As long as nothing was advertised, the server has nothing to do.
LEMMA NothingToDo ==
  ASSUME EchoInv, pc["client"] \in Unsent
  PROVE  /\ sq["server"] = <<>> /\ sq["client"] = <<>> /\ Within(cqe["server"], Flushes)
         /\ pc["server"] \in Opening \cup Leaving
         /\ Connecting
         /\ pc["server"] \in Opening => ~Has(cmq["server"], Alarm)
BY DEF EchoInv, AdvertInv, SessionInv, Before, ServerWaits, Fresh

\* The client's adapter refuses the server no access: it was told of the buffer, and the
\* buffer stays registered while the client's queue pair is up.
LEMMA NoneRefused ==
  ASSUME EchoInv, NEW x \in Side, NEW k \in 1 .. Len(sq[x])
  PROVE  ~AccessRefused(x, sq[x][k])
<1> USE SideFacts
<1>1. CASE x = "client"
  BY <1>1, EchoFacts DEF AccessRefused, ClientSends
<1>2. CASE x = "server"
  <2>1. SUFFICES ASSUME qp["client"] = "rts", sq["server"][k].op # "SEND"
                 PROVE  sq["server"][k].buf = "start_buf" /\ "dma_mr" \in held["client"]
    BY <1>2 DEF AccessRefused, Peer, NoBuffer
  <2>2. sq["server"][k] \in Asks
    BY <1>2 DEF EchoInv, QueuedInv, Within
  <2>3. pc["client"] \notin Unsent
    BY <1>2, NothingToDo
  <2>4. pc["client"] \in Registered
    BY <2>1, <2>3 DEF EchoInv, ClientInv, Registered
  <2> QED BY <2>1, <2>2, <2>4 DEF Asks, EchoInv, ClientInv
<1> QED BY <1>1, <1>2

\* Where a request of the server is carried out, both queue pairs are up and the client
\* waits for the go-ahead or takes the connection down.
LEMMA CarriedOut ==
  ASSUME EchoInv, NEW k \in 1 .. Len(sq["server"]), Transmit("server", k)
  PROVE  /\ qp["server"] = "rts" /\ qp["client"] = "rts" /\ ~Broken /\ ~Broken' /\ qp' = qp
         /\ sq["server"][k] \in Asks /\ Known
         /\ sq["server"][k].phase = "posted"
         /\ pc["client"] \in {"goahead_wait", "disconnect"} /\ pc' = pc
<1> USE SideFacts
<1>1. qp["server"] = "rts" /\ qp["client"] = "rts" /\ qp' = qp /\ pc' = pc
  BY DEF Transmit, MayGoOut, Undeliverable, Peer, threadVars
<1>2. sq["server"][k] \in Asks
  BY DEF EchoInv, QueuedInv, Within
<1>3. pc["client"] \notin Unsent
  BY NothingToDo
<1> QED BY <1>1, <1>2, <1>3 DEF Broken, Side, Asks, EchoInv, ClientInv, Transmit, MayGoOut

\* The server's callback alone takes over an advertisement.
LEMMA AdvertBy ==
  ASSUME TypeInv, Next
  PROVE  \/ advert' = advert
         \/ /\ CqPoll("server") /\ cqe["server"] # <<>> /\ Message(Head(cqe["server"]))
            /\ server_recv(Head(cqe["server"]))
<1> USE SideFacts
<1>1. ASSUME NEW x \in Side, megaVM_cq_event_handler(x)
      PROVE  \/ advert' = advert
             \/ /\ CqPoll("server") /\ cqe["server"] # <<>> /\ Message(Head(cqe["server"]))
                /\ server_recv(Head(cqe["server"]))
  <2>1. CASE CqPoll(x)
    BY <2>1 DEF CqPoll, Message, recv, client_recv
  <2>2. CASE ~CqPoll(x)
    BY <1>1, <2>2
    DEF megaVM_cq_event_handler, CqEvent, CqArm, CqPollEmpty, CqRepost, CqWake, contextVars
  <2> QED BY <2>1, <2>2
<1>2. ASSUME NEW x \in Side, megaVM_cma_event_handler(x)
      PROVE  advert' = advert
  BY <1>2 DEF megaVM_cma_event_handler, CmaEvent, CmaChild, CmaWake, contextVars
<1>3. ASSUME NEW x \in Side,
             \/ Adapter(x) \/ StrayEvent(x) \/ Signal(x)
             \/ ConnectionEstablished \/ ConnectTimeout \/ UNCHANGED vars
      PROVE  advert' = advert
  BY <1>3, OtherContext DEF vars, contextVars
<1> QED BY <1>1, <1>2, <1>3, ClientContext, ServerContext DEF Next, Progress, Fault, Over, Callbacks

\* A queue pair that failed does not come back.
LEMMA StaysBroken ==
  ASSUME EchoInv, Next, Broken
  PROVE  Broken'
<1> USE SideFacts
<1>1. TypeInv /\ QuietInv
  BY EchoFacts
<1>2. PICK s \in Side : qp[s] \in {"err", "gone"}
  BY DEF Broken
<1>3. ~(QpSetUp(s) /\ pc[s] = "setup_qp")
  BY <1>1, <1>2 DEF QuietInv, HeldInv, OneChild, PreQp, ClientQuiet, PreConnect
<1>4. ~(s = "server" /\ ServerAccept /\ conn = "requested")
  <2>1. SUFFICES ASSUME s = "server", pc["server"] = "accept", conn = "requested"
                 PROVE  FALSE
    BY DEF ServerAccept
  <2>2. pc["client"] \in Unsent
    BY <1>1, <2>1 DEF QuietInv, ConnInv, Unsent
  <2> QED BY <1>2, <2>1, <2>2 DEF EchoInv, AdvertInv, SessionInv, Before, ServerWaits, Opening
<1>5. ~(s = "client" /\ ConnectionEstablished /\ qp'[s] = "rts")
  BY <1>2 DEF ConnectionEstablished
<1>6. qp'[s] \in {"err", "gone"}
  BY <1>1, <1>2, <1>3, <1>4, <1>5, QpGoes
<1> QED BY <1>6 DEF Broken

\* Nor does the data: the ping stays where it has come to.
LEMMA PingStays ==
  ASSUME EchoInv, Next
  PROVE  (Shared => Shared') /\ (Copied => Copied')
<1> USE SideFacts
<1>1. /\ mem \in [Buffer -> Content] /\ "start_buf" \in Buffer
      /\ QueueMoved(sq'["server"])
  BY EchoFacts, ServerQueueMoves DEF EchoInv, QueuedInv, Buffer
<1>2. CASE ClientSend
  BY <1>1, <1>2 DEF ClientSend, Shared, Copied
<1>3. CASE UNCHANGED bufferVars
  BY <1>3 DEF bufferVars, Shared, Copied
<1>4. ASSUME NEW k \in 1 .. Len(sq["server"]), Transmit("server", k)
      PROVE  (Shared => Shared') /\ (Copied => Copied')
  <2>1. /\ sq["server"][k] \in Asks /\ ~Broken
    BY <1>4, CarriedOut
  <2>2. CASE sq["server"][k].op = "WRITE"
    <3>1. mem' = [mem EXCEPT ![sq["server"][k].buf] = rdmaBuf] /\ rdmaBuf' = rdmaBuf
      BY <1>4, <2>2 DEF Transmit
    <3>2. sq["server"][k].buf = "start_buf" /\ Copied
      BY <2>1, <2>2 DEF Asks
    <3> QED BY <1>1, <3>1, <3>2 DEF Shared, Copied
  <2>3. CASE sq["server"][k].op # "WRITE"
    BY <1>4, <2>3 DEF Transmit, Shared, Copied
  <2> QED BY <2>2, <2>3
<1>5. ASSUME NEW k \in 1 .. Len(sq["server"]), ReadArrives("server", k)
      PROVE  (Shared => Shared') /\ Copied'
  <2>1. sq["server"][k] \in Asks /\ sq["server"][k].phase = "fetched"
    BY <1>5 DEF EchoInv, QueuedInv, Within, ReadArrives
  <2> QED BY <1>5, <2>1 DEF Asks, ReadArrives, Shared, Copied
<1>6. CASE UNCHANGED <<mem, rdmaBuf>>
  BY <1>6 DEF Shared, Copied
<1> QED BY <1>1, <1>2, <1>3, <1>4, <1>5, <1>6 DEF QueueMoved, CompleteSend, Put

\* And the server keeps knowing where to read.
LEMMA StaysKnown ==
  ASSUME EchoInv, Next, Known
  PROVE  Known'
<1>1. Shared'
  BY PingStays DEF Known
<1>2. CASE advert' = advert
  BY <1>1, <1>2 DEF Known
<1>3. CASE /\ CqPoll("server") /\ cqe["server"] # <<>> /\ Message(Head(cqe["server"]))
           /\ server_recv(Head(cqe["server"]))
  <2>1. Head(cqe["server"]) \in News
    BY <1>3, EchoFacts, WithinMoves DEF EchoInv, QueuedInv
  <2> QED BY <1>1, <1>3, <2>1 DEF Known, News, server_recv
<1> QED BY <1>2, <1>3, EchoFacts, AdvertBy

\* The client's main thread takes its end of the connection down before it gives the buffers
\* back.
LEMMA ClientStaysUp ==
  ASSUME EchoInv, Next, ~ConnectionEstablished, qp'["client"] = "rts" \/ conn' = "established"
  PROVE  pc'["client"] \in Unsent \cup {"goahead_wait", "disconnect"}
<1> USE SideFacts
<1>1. TypeInv /\ QuietInv /\ pc \in [Side -> ClientLabel \cup ServerLabel]
  BY EchoFacts
<1>2. qp["client"] = "rts" \/ conn = "established"
  BY <1>1, QpGoes, ConnBy DEF ConnectTimeout
<1>3. pc["client"] \in Unsent \cup {"goahead_wait", "disconnect"}
  BY <1>2 DEF EchoInv, ClientInv
<1>4. pc["client"] \notin PreConnect
  BY <1>1, <1>2 DEF QuietInv, ConnInv, ClientQuiet
<1>5. CASE pc'["client"] = pc["client"]
  BY <1>3, <1>5
<1>6. CASE pc'["client"] # pc["client"]
  <2>1. ClientMain
    BY <1>1, <1>6, ThreadMoves
  <2>2. ~Disconnect("client")
    <3>1. QpError({"client"}, Only("client", Flushed("client", 0))) => qp'["client"] = "err"
      BY DEF QpError
    <3> QED BY <1>2, <3>1 DEF Disconnect, DisconnectConnection
  <2>3. pc["client"] = "connect_check" => state["client"] # ERROR
    <3>1. SUFFICES ASSUME pc["client"] = "connect_check" PROVE state["client"] # ERROR
      OBVIOUS
    <3>2. conn = "established"
      BY <1>2, <3>1 DEF EchoInv, ClientInv, Unsent
    <3>3. Connecting
      BY <3>1, NothingToDo DEF Unsent
    <3> QED BY <3>1, <3>2, <3>3 DEF Connecting, CONNECTED, ERROR
  <2> QED
    BY <1>1, <1>3, <1>4, <1>6, <2>1, <2>2, <2>3
    DEF ClientMain, ClientStart, ClientBind, ClientBindWait, ClientBindCheck, ClientSetupQp,
        SetupBuffers, PostFirstRecv, ClientConnect, ClientConnectWait, ClientConnectCheck,
        ClientAdvertise, ClientSend, ClientGoAheadWait, FreeBuffers, FreeQp, FreeCq,
        ClientDestroyId, WaitEvent, Goto, PreConnect, Unsent
<1> QED BY <1>5, <1>6

\* A connection is made while the client waits for it.
LEMMA EstablishedInWait ==
  ASSUME EchoInv, ConnectionEstablished
  PROVE  pc["client"] = "connect_wait" /\ qp["client"] = "init" /\ UNCHANGED pc
<1>1. SessionInv /\ QpPlace
  BY EchoFacts
<1>2. conn = "accepted" /\ pc' = pc
  BY DEF ConnectionEstablished, threadVars
<1>3. pc["client"] \in Unsent
  BY <1>1, <1>2 DEF SessionInv, Gone
<1> QED BY <1>1, <1>2, <1>3, NothingToDo DEF Connecting, QpPlace

\* Its memory region is given back only after that.
LEMMA StaysRegistered ==
  ASSUME EchoInv, Next, pc'["client"] \in Registered
  PROVE  "dma_mr" \in held'["client"]
<1> USE SideFacts
<1>1. /\ TypeInv /\ pc \in [Side -> ClientLabel \cup ServerLabel]
      /\ held \in [Side -> SUBSET Resource]
  BY EchoFacts DEF TypeInv, TypeOK, ContextTypeOK
<1>2. pc["client"] \in Registered => "dma_mr" \in held["client"]
  BY DEF EchoInv, ClientInv
<1>3. CASE ClientMain
  <2>1. CASE SetupBuffers("client")
    BY <1>1, <2>1 DEF SetupBuffers, Holding, BufferResources, Goto, Registered
  <2>2. CASE ~SetupBuffers("client")
    <3>1. pc["client"] \in Registered /\ held' = held
      BY <1>1, <1>3, <2>2
      DEF ClientMain, ClientStart, ClientBind, ClientBindWait, ClientBindCheck, ClientSetupQp,
          QpSetUp, PostFirstRecv, ClientConnect, ClientConnectWait, ClientConnectCheck,
          ClientAdvertise, ClientSend, ClientGoAheadWait, Disconnect, FreeBuffers, FreeQp, FreeCq,
          ClientDestroyId, WaitEvent, Goto, Registered, contextVars
    <3> QED BY <1>2, <3>1
  <2> QED BY <2>1, <2>2
<1>4. CASE ServerMain
  <2>1. pc'["client"] = pc["client"]
    BY <1>1, <1>4, ServerThread
  <2>2. held'["client"] = held["client"]
    BY <1>1, <1>4, ServerContext DEF Holding, Released
  <2> QED BY <1>2, <2>1, <2>2
<1>5. ASSUME NEW s \in Side,
             \/ Callbacks(s) \/ Adapter(s) \/ ConnectionEstablished \/ ConnectTimeout
             \/ StrayEvent(s) \/ Signal(s) \/ UNCHANGED vars
      PROVE  "dma_mr" \in held'["client"]
  <2>1. pc' = pc /\ held["client"] \subseteq held'["client"]
    BY <1>1, <1>5, OthersHold
  <2> QED BY <1>2, <2>1
<1> QED BY <1>3, <1>4, <1>5 DEF Next, Progress, Fault, Over

\* The client's part of the invariant.
LEMMA EchoClientStep ==
  ASSUME NothingCutShort, EchoInv, Next
  PROVE  ClientInv'
<1> USE SideFacts
<1>1. TypeInv /\ QuietInv /\ SessionInv
  BY EchoFacts
<1>2. ASSUME pc'["client"] \in Unsent
      PROVE  qp'["client"] \in {"none", "init"} \/ (qp'["client"] = "rts" /\ conn' = "established")
  <2>1. pc["client"] \in Unsent
    BY <1>1, <1>2, UnsentBefore
  <2>2. /\ qp["client"] \in {"none", "init"} \/ (qp["client"] = "rts" /\ conn = "established")
        /\ Connecting /\ \A x \in Side : sq[x] = <<>>
    BY <2>1, NothingToDo DEF EchoInv, ClientInv, Side
  <2>3. conn = "established" => conn' = "established"
    BY <1>1, <2>1, <2>2, ConnBefore
    DEF Connecting, QuietInv, ConnInv, ClientConnect, ServerAccept, ConnectionEstablished, PreConnect
  <2>4. ~\E x \in Side : \E k \in 1 .. Len(sq[x]) : TransmitFails(x, k)
    BY <2>2
  <2>5. ~FreeQp("client") /\ pc["client"] \notin {"accept", "disconnect"}
    BY <2>1 DEF FreeQp, Unsent, PreConnect
  <2> QED BY <1>1, <2>2, <2>3, <2>4, <2>5, QpGoes
<1>3. ASSUME qp'["client"] = "rts" \/ conn' = "established"
      PROVE  pc'["client"] \in Unsent \cup {"goahead_wait", "disconnect"}
  <2>1. CASE ConnectionEstablished
    BY <2>1, EstablishedInWait DEF Unsent
  <2>2. CASE ~ConnectionEstablished
    BY <1>3, <2>2, ClientStaysUp
  <2> QED BY <2>1, <2>2
<1> QED BY <1>2, <1>3, StaysRegistered DEF ClientInv

\* The same for a queue of requests: it loses its head, gets one more, or one changes.
LEMMA RequestsWithin ==
  ASSUME NEW q \in Seq(Wr), NEW W, Within(q, W)
  PROVE  /\ q # <<>> => Head(q) \in W /\ Within(Tail(q), W)
         /\ \A wr \in W : Within(Append(q, wr), W)
         /\ \A k \in 1 .. Len(q), wr \in W : Within([q EXCEPT ![k] = wr], W)
<1>1. ASSUME q # <<>>
      PROVE  Head(q) \in W /\ Within(Tail(q), W)
  <2>1. /\ Head(q) = q[1] /\ 1 \in 1 .. Len(q)
        /\ \A i \in 1 .. Len(Tail(q)) : i + 1 \in 1 .. Len(q) /\ Tail(q)[i] = q[i + 1]
    BY <1>1
  <2> QED BY <2>1 DEF Within
<1>2. ASSUME NEW wr \in W
      PROVE  Within(Append(q, wr), W)
  <2>1. /\ Len(Append(q, wr)) = Len(q) + 1
        /\ \A i \in 1 .. Len(q) : Append(q, wr)[i] = q[i]
        /\ Append(q, wr)[Len(q) + 1] = wr
    OBVIOUS
  <2>2. \A i \in 1 .. Len(q) + 1 : i \in 1 .. Len(q) \/ i = Len(q) + 1
    OBVIOUS
  <2> HIDE DEF Within
  <2>3. ASSUME NEW i \in 1 .. Len(q) + 1
        PROVE  Append(q, wr)[i] \in W
    BY <1>2, <2>1, <2>2 DEF Within
  <2> QED BY <2>1, <2>3 DEF Within
<1>3. ASSUME NEW k \in 1 .. Len(q), NEW wr \in W
      PROVE  Within([q EXCEPT ![k] = wr], W)
  <2>1. /\ Len([q EXCEPT ![k] = wr]) = Len(q)
        /\ \A i \in 1 .. Len(q) : [q EXCEPT ![k] = wr][i] = IF i = k THEN wr ELSE q[i]
    OBVIOUS
  <2> QED BY <1>3, <2>1 DEF Within
<1> QED BY <1>1, <1>2, <1>3

\* Reads stay first when requests come, change and go.
LEMMA ReadsStayFirst ==
  ASSUME NEW q \in Seq(Wr), ReadsFirst(q)
  PROVE  /\ ReadsFirst(<<>>)
         /\ q # <<>> => ReadsFirst(Tail(q))
         /\ \A wr : wr.phase # "fetched" => ReadsFirst(Append(q, wr))
         /\ \A k \in 1 .. Len(q) : \A wr :
              \/ wr.phase = "done"
              \/ q[k].phase = "posted" /\ \A j \in 1 .. k - 1 : q[j].phase = "done"
              => ReadsFirst([q EXCEPT ![k] = wr])
<1>1. ReadsFirst(<<>>)
  BY DEF ReadsFirst
<1>2. ASSUME q # <<>>
      PROVE  ReadsFirst(Tail(q))
  <2>1. \A i \in 1 .. Len(Tail(q)) : i + 1 \in 1 .. Len(q) /\ Tail(q)[i] = q[i + 1]
    BY <1>2
  <2>2. Len(Tail(q)) \in Nat
    BY <1>2
  <2> SUFFICES ASSUME NEW k \in 1 .. Len(Tail(q)), Tail(q)[k].phase = "fetched",
                      NEW j \in 1 .. k - 1
               PROVE  Tail(q)[j].phase = "done"
    BY DEF ReadsFirst
  <2>3. /\ k + 1 \in 1 .. Len(q) /\ q[k + 1].phase = "fetched"
        /\ j + 1 \in 1 .. (k + 1) - 1 /\ j \in 1 .. Len(Tail(q))
    BY <2>1, <2>2
  <2> QED BY <2>1, <2>3 DEF ReadsFirst
<1>3. ASSUME NEW wr, wr.phase # "fetched"
      PROVE  ReadsFirst(Append(q, wr))
  <2>1. /\ Len(Append(q, wr)) = Len(q) + 1
        /\ \A i \in 1 .. Len(q) : Append(q, wr)[i] = q[i]
        /\ Append(q, wr)[Len(q) + 1] = wr
        /\ Len(q) \in Nat
    OBVIOUS
  <2> SUFFICES ASSUME NEW k \in 1 .. Len(q) + 1, Append(q, wr)[k].phase = "fetched",
                      NEW j \in 1 .. k - 1
               PROVE  Append(q, wr)[j].phase = "done"
    BY <2>1 DEF ReadsFirst
  <2>2. k \in 1 .. Len(q) /\ j \in 1 .. Len(q)
    BY <1>3, <2>1
  <2> QED BY <2>1, <2>2 DEF ReadsFirst
<1>4. ASSUME NEW k \in 1 .. Len(q), NEW wr,
             \/ wr.phase = "done"
             \/ q[k].phase = "posted" /\ \A j \in 1 .. k - 1 : q[j].phase = "done"
      PROVE  ReadsFirst([q EXCEPT ![k] = wr])
  <2> DEFINE r == [q EXCEPT ![k] = wr]
  <2>1. /\ Len(r) = Len(q) /\ Len(q) \in Nat
        /\ \A i \in 1 .. Len(q) : r[i] = IF i = k THEN wr ELSE q[i]
    OBVIOUS
  <2> HIDE DEF r
  <2> SUFFICES ASSUME NEW i \in 1 .. Len(q), r[i].phase = "fetched", NEW j \in 1 .. i - 1
               PROVE  r[j].phase = "done"
    BY <2>1 DEF ReadsFirst, r
  <2>2. j \in 1 .. Len(q)
    BY <2>1
  <2>3. CASE wr.phase = "done"
    <3>1. i # k /\ q[i].phase = "fetched"
      BY <2>1, <2>3
    <3>2. q[j].phase = "done"
      BY <3>1 DEF ReadsFirst
    <3> QED BY <2>1, <2>2, <2>3, <3>2
  <2>4. CASE q[k].phase = "posted" /\ \A m \in 1 .. k - 1 : q[m].phase = "done"
    <3>1. CASE i = k
      BY <2>1, <2>2, <2>4, <3>1
    <3>2. CASE i # k
      <4>1. q[i].phase = "fetched"
        BY <2>1, <3>2
      <4>2. ~(i < k)
        BY <2>4, <4>1
      <4>3. k \in 1 .. i - 1
        BY <3>2, <4>2
      <4> QED BY <2>4, <4>1, <4>3 DEF ReadsFirst
    <3> QED BY <3>1, <3>2
  <2> QED BY <1>4, <2>3, <2>4
<1> QED BY <1>1, <1>2, <1>3, <1>4

\* A read goes out: its entry holds the data, on its way back.
LEMMA Fetches ==
  ASSUME QpTypeOK, NEW s \in Side, NEW k \in 1 .. Len(sq[s]), Transmit(s, k),
         sq[s][k].op = "READ", mem[sq[s][k].buf] \in Content
  PROVE  sq'[s] = [sq[s] EXCEPT ![k] = [sq[s][k] EXCEPT !.phase = "fetched",
                                                      !.val = mem[sq[s][k].buf]]]
<1>1. sq \in [Side -> Seq(Wr)] /\ sq[s] \in Seq(Wr)
  BY DEF QpTypeOK
<1> DEFINE v == mem[sq[s][k].buf]
           read == [sq[s][k] EXCEPT !.phase = "fetched", !.val = v]
<1>2. sq' = [sq EXCEPT ![s][k].phase = "fetched", ![s][k].val = v]
  BY DEF Transmit
<1>3. v \in Content
  OBVIOUS
<1>4. [sq EXCEPT ![s][k].phase = "fetched", ![s][k].val = v] = [sq EXCEPT ![s][k] = read]
  <2>1. \A u \in Content :
          [sq EXCEPT ![s][k].phase = "fetched", ![s][k].val = u]
            = [sq EXCEPT ![s][k] = [sq[s][k] EXCEPT !.phase = "fetched", !.val = u]]
    BY EntryChanges
  <2> HIDE DEF v
  <2> QED BY <1>3, <2>1
<1> HIDE DEF v
<1>5. sq' = [sq EXCEPT ![s][k] = read]
  BY <1>2, <1>4
<1> HIDE DEF read
<1>6. sq'[s] = [sq[s] EXCEPT ![k] = read]
  BY <1>1, <1>5
<1> QED BY <1>6 DEF read, v

\* A request of the server goes out: nothing else on its queue changes.
LEMMA GoesOut ==
  ASSUME EchoInv, NEW k \in 1 .. Len(sq["server"]), Transmit("server", k)
  PROVE  \E wr \in Wr :
           /\ sq'["server"] = [sq["server"] EXCEPT ![k] = wr]
           /\ wr.op = sq["server"][k].op /\ wr.buf = sq["server"][k].buf
           /\ IF wr.op = "READ" THEN wr.phase = "fetched" /\ wr.val = mem["start_buf"]
                                ELSE wr.phase = "done"
           /\ sq["server"][k].phase = "posted"
           /\ \A j \in 1 .. k - 1 : sq["server"][j].phase # "posted"
           /\ wr.op = "READ" => \A j \in 1 .. k - 1 : sq["server"][j].phase = "done"
<1> USE SideFacts
<1>1. /\ sq \in [Side -> Seq(Wr)] /\ sq["server"] \in Seq(Wr) /\ QpTypeOK
      /\ mem \in [Buffer -> Content] /\ "start_buf" \in Buffer
  BY EchoFacts DEF Buffer
<1> DEFINE wr == sq["server"][k]
           sent == [wr EXCEPT !.phase = "done"]
           read == [wr EXCEPT !.phase = "fetched", !.val = mem["start_buf"]]
<1>2. wr \in Wr /\ mem["start_buf"] \in Content
  BY <1>1
<1>3. /\ sent \in Wr /\ sent.op = wr.op /\ sent.buf = wr.buf /\ sent.phase = "done"
      /\ read \in Wr /\ read.op = wr.op /\ read.buf = wr.buf /\ read.phase = "fetched"
      /\ read.val = mem["start_buf"]
  BY <1>2 DEF Wr
<1>4. MayGoOut("server", k)
  BY DEF Transmit
<1>5. CASE wr.op = "READ"
  <2>1. wr.buf = "start_buf"
    BY <1>5, CarriedOut DEF Asks
  <2>2. sq'["server"] = [sq["server"] EXCEPT ![k] = read]
    <3>1. sq["server"][k].op = "READ" /\ mem[sq["server"][k].buf] = mem["start_buf"]
      BY <1>5, <2>1
    <3>2. sq'["server"] = [sq["server"] EXCEPT ![k] =
            [sq["server"][k] EXCEPT !.phase = "fetched", !.val = mem[sq["server"][k].buf]]]
      <4> HIDE DEF wr, read, sent
      <4> QED BY <1>1, <1>2, <3>1, Fetches
    <3> QED BY <3>1, <3>2
  <2> QED BY <1>3, <1>4, <1>5, <2>2 DEF MayGoOut
<1>6. CASE wr.op # "READ"
  <2>1. sq' = [sq EXCEPT !["server"][k].phase = "done"]
    BY <1>6 DEF Transmit
  <2>2. sq' = [sq EXCEPT !["server"][k] = sent]
    BY <1>1, <2>1, EntryChanges
  <2>3. sq'["server"] = [sq["server"] EXCEPT ![k] = sent]
    <3> HIDE DEF sent
    <3> QED BY <1>1, <2>2
  <2> QED BY <1>3, <1>4, <1>6, <2>3 DEF MayGoOut
<1> QED BY <1>5, <1>6

\* The data of a read arrives: it is done.
LEMMA ComesIn ==
  ASSUME EchoInv, NEW k \in 1 .. Len(sq["server"]), ReadArrives("server", k)
  PROVE  /\ \E wr \in Wr :
              /\ sq'["server"] = [sq["server"] EXCEPT ![k] = wr]
              /\ wr.op = "READ" /\ wr.buf = "start_buf" /\ wr.phase = "done"
         /\ sq["server"][k].op = "READ" /\ sq["server"][k].phase = "fetched"
         /\ Copied' /\ UNCHANGED <<qp, mem, carried, pc, round, cqe>>
<1> USE SideFacts
<1>1. /\ sq \in [Side -> Seq(Wr)] /\ sq["server"] \in Seq(Wr) /\ QpTypeOK
  BY EchoFacts
<1> DEFINE wr == sq["server"][k]
           sent == [wr EXCEPT !.phase = "done"]
<1>2. wr \in Wr
  BY <1>1
<1>3. sent \in Wr /\ sent.op = wr.op /\ sent.buf = wr.buf /\ sent.phase = "done"
  BY <1>2 DEF Wr
<1>4. wr \in Asks /\ wr.phase = "fetched"
  BY DEF EchoInv, QueuedInv, Within, ReadArrives
<1>5. sq' = [sq EXCEPT !["server"][k].phase = "done"]
  BY DEF ReadArrives
<1>6. sq' = [sq EXCEPT !["server"][k] = sent]
  BY <1>1, <1>5, EntryChanges
<1>7. sq'["server"] = [sq["server"] EXCEPT ![k] = sent]
  <2> HIDE DEF sent
  <2> QED BY <1>1, <1>6
<1>8. wr.op = "READ" /\ wr.val = "ping"
  BY <1>4 DEF Asks
<1>9. wr.buf = "start_buf"
  BY <1>4, <1>8 DEF Asks
<1>10. Copied' /\ UNCHANGED <<qp, mem, carried, pc, round, cqe>>
  BY <1>8 DEF ReadArrives, Copied, threadVars, cqVars
<1> HIDE DEF sent
<1> QED BY <1>3, <1>4, <1>7, <1>8, <1>9, <1>10

-----------------------------------------------------------------------------
(* What the queues carry.                                                 *)

\* All that can happen to the client's send queue.
LEMMA ClientQueueMoves ==
  ASSUME EchoInv, Next
  PROVE  \/ sq'["client"] \in {sq["client"], <<>>}
         \/ sq["client"] # <<>> /\ sq'["client"] = Tail(sq["client"])
         \/ \E k \in 1 .. Len(sq["client"]), wr \in Wr :
              /\ sq'["client"] = [sq["client"] EXCEPT ![k] = wr]
              /\ wr.phase = "done" /\ wr.buf = sq["client"][k].buf
         \/ /\ ClientSend
            /\ sq'["client"] = Append(sq["client"], [op |-> "SEND", buf |-> "start_buf",
                                                     phase |-> "posted", val |-> "junk"])
<1> USE SideFacts
<1> DEFINE Expected ==
      \/ sq'["client"] \in {sq["client"], <<>>}
      \/ sq["client"] # <<>> /\ sq'["client"] = Tail(sq["client"])
      \/ \E k \in 1 .. Len(sq["client"]), wr \in Wr :
           /\ sq'["client"] = [sq["client"] EXCEPT ![k] = wr]
           /\ wr.phase = "done" /\ wr.buf = sq["client"][k].buf
      \/ /\ ClientSend
         /\ sq'["client"] = Append(sq["client"], [op |-> "SEND", buf |-> "start_buf",
                                                  phase |-> "posted", val |-> "junk"])
<1>1. /\ sq \in [Side -> Seq(Wr)] /\ sq["client"] \in Seq(Wr) /\ QpTypeOK /\ TypeInv /\ ClientSends
  BY EchoFacts
<1>2. ASSUME NEW m \in Side, QpError({m}, Only(m, Flushed(m, 0))) \/ FreeQp(m)
      PROVE  sq'["client"] \in {sq["client"], <<>>}
  BY <1>1, <1>2 DEF QpError, FreeQp
<1>3. CASE ServerMain
  <2>1. \/ sq'["client"] = sq["client"]
        \/ QpError({"server"}, Only("server", Flushed("server", 0)))
        \/ FreeQp("server")
    BY <1>1, <1>3
    DEF ServerMain, ServerStart, ServerBind, ServerRequestWait, ServerRequestCheck,
        ServerSetupQp, SetupBuffers, PostFirstRecv, ServerAccept, ServerAcceptWait,
        ServerAcceptCheck, ServerPingWait, ServerRead, ServerReadWait, ServerWrite,
        ServerWriteWait, ServerNextRound, ServerGoAhead, Disconnect, DisconnectConnection,
        FreeBuffers, FreeCq, ServerDestroyChild, ServerDestroyListener, WaitEvent, qpVars,
        PostSend
  <2> QED BY <1>2, <2>1
<1>4. CASE ClientSend
  <2>1. PostSend("client", "SEND", "start_buf")
    BY <1>4 DEF ClientSend
  <2>2. \/ sq' = sq
        \/ sq'["client"] = Append(sq["client"], [op |-> "SEND", buf |-> "start_buf",
                                                 phase |-> "posted", val |-> "junk"])
    BY <1>1, <2>1 DEF PostSend
  <2> QED BY <1>4, <2>2
<1>5. CASE ClientMain /\ ~ClientSend
  <2>1. \/ sq' = sq
        \/ QpError({"client"}, Only("client", Flushed("client", 0)))
        \/ FreeQp("client")
    BY <1>5
    DEF ClientMain, ClientStart, ClientBind, ClientBindWait, ClientBindCheck, ClientSetupQp,
        SetupBuffers, PostFirstRecv, ClientConnect, ClientConnectWait,
        ClientConnectCheck, ClientAdvertise, ClientGoAheadWait, Disconnect,
        DisconnectConnection, FreeBuffers, FreeCq, ClientDestroyId, WaitEvent, qpVars
  <2> QED BY <1>2, <2>1
<1>6. ASSUME NEW k \in 1 .. Len(sq["client"]), Transmit("client", k) \/ ReadArrives("client", k)
      PROVE  Expected
  <2> DEFINE wr == sq["client"][k]
             sent == [wr EXCEPT !.phase = "done"]
  <2>1. Transmit("client", k) /\ wr.op = "SEND"
    BY <1>1, <1>6, ClientOnlySends DEF ReadArrives, EchoInv, QueuedInv
  <2>2. wr \in Wr
    BY <1>1
  <2>3. sent \in Wr /\ sent.buf = wr.buf /\ sent.phase = "done"
    BY <2>2 DEF Wr
  <2>4. sq' = [sq EXCEPT !["client"][k].phase = "done"]
    BY <2>1 DEF Transmit
  <2>5. sq' = [sq EXCEPT !["client"][k] = sent]
    BY <1>1, <2>4, EntryChanges
  <2> HIDE DEF sent
  <2>6. sq'["client"] = [sq["client"] EXCEPT ![k] = sent]
    BY <1>1, <2>5
  <2> QED BY <2>3, <2>6
<1>7. ASSUME NEW x \in Side, NEW k \in 1 .. Len(sq[x]), TransmitFails(x, k)
      PROVE  sq'["client"] \in {sq["client"], <<>>}
  BY <1>1, <1>7 DEF TransmitFails, QpError
<1>8. ASSUME NEW k \in 1 .. Len(sq["server"]), Transmit("server", k) \/ ReadArrives("server", k)
      PROVE  sq'["client"] = sq["client"]
  BY <1>1, <1>8 DEF Transmit, ReadArrives
<1>9. ASSUME NEW x \in Side, CompleteSend(x)
      PROVE  Expected
  BY <1>1, <1>9 DEF CompleteSend
<1>10. ASSUME NEW x \in Side, Adapter(x)
       PROVE  Expected
  <2>1. CASE x = "client"
    BY <1>6, <1>7, <1>9, <1>10, <2>1 DEF Adapter
  <2>2. CASE x = "server"
    BY <1>7, <1>8, <1>9, <1>10, <2>2 DEF Adapter
  <2> QED BY <2>1, <2>2
<1>11. CASE \/ ConnectionEstablished \/ ConnectTimeout \/ UNCHANGED vars
            \/ \E x \in Side : \/ megaVM_cma_event_handler(x) \/ StrayEvent(x) \/ Signal(x)
                               \/ megaVM_cq_event_handler(x)
  <2>1. sq' = sq
    BY <1>11, OtherQueues
    DEF ConnectionEstablished, ConnectTimeout, vars, qpVars, megaVM_cq_event_handler, CqEvent,
        CqArm, CqPollEmpty, CqPoll, CqRepost, CqWake, Callbacks
  <2> QED BY <2>1
<1> QED BY <1>3, <1>4, <1>5, <1>10, <1>11 DEF Next, Progress, Fault, Over, Callbacks

\* What the queues may hold, they may hold for good.
LEMMA MayStay ==
  ASSUME EchoInv, Next
  PROVE  Adverts \subseteq Adverts' /\ Asks \subseteq Asks' /\ News \subseteq News'
<1>1. /\ Shared => Shared'
      /\ Copied => Copied'
      /\ Known => Known'
      /\ Broken => Broken'
  BY PingStays, StaysKnown, StaysBroken
<1> QED BY <1>1 DEF Adverts, Asks, News

\* The client's queue.
LEMMA AdvertsStep ==
  ASSUME EchoInv, Next
  PROVE  Within(sq'["client"], Adverts')
<1> USE SideFacts
<1>1. sq["client"] \in Seq(Wr) /\ mem \in [Buffer -> Content]
  BY EchoFacts
<1>2. Within(sq["client"], Adverts) /\ Within(sq["client"], Adverts')
  BY MayStay DEF EchoInv, QueuedInv, Within
<1>3. Within(<<>>, Adverts')
  BY DEF Within
<1>4. ASSUME NEW k \in 1 .. Len(sq["client"]), NEW wr \in Wr, wr.phase = "done",
             wr.buf = sq["client"][k].buf, sq'["client"] = [sq["client"] EXCEPT ![k] = wr]
      PROVE  Within(sq'["client"], Adverts')
  <2>1. wr \in Adverts'
    BY <1>2, <1>4, PingStays DEF Within, Adverts
  <2> QED BY <1>1, <1>2, <1>4, <2>1, RequestsWithin
<1>5. ASSUME ClientSend,
             sq'["client"] = Append(sq["client"], [op |-> "SEND", buf |-> "start_buf",
                                                   phase |-> "posted", val |-> "junk"])
      PROVE  Within(sq'["client"], Adverts')
  <2> DEFINE wr == [op |-> "SEND", buf |-> "start_buf", phase |-> "posted", val |-> "junk"]
  <2>1. Shared'
    BY <1>1, <1>5 DEF ClientSend, Shared, Buffer
  <2>2. wr \in Adverts'
    BY <2>1 DEF Adverts, Wr, Operation, Buffer, Content
  <2> HIDE DEF wr
  <2>3. Within(Append(sq["client"], wr), Adverts')
    BY <1>1, <1>2, <2>2, RequestsWithin
  <2> QED BY <1>5, <2>3 DEF wr
<1>6. sq["client"] # <<>> => Within(Tail(sq["client"]), Adverts')
  BY <1>1, <1>2, RequestsWithin
<1> QED BY <1>2, <1>3, <1>4, <1>5, <1>6, ClientQueueMoves

\* The server's.
LEMMA AsksStep ==
  ASSUME EchoInv, Next
  PROVE  Within(sq'["server"], Asks') /\ ReadsFirst(sq'["server"])
<1> USE SideFacts
<1>1. /\ sq["server"] \in Seq(Wr) /\ TypeInv /\ ClientSends /\ Within(sq["client"], Adverts)
  BY EchoFacts DEF EchoInv, QueuedInv
<1>2. /\ Within(sq["server"], Asks) /\ Within(sq["server"], Asks')
      /\ ReadsFirst(sq["server"])
  BY MayStay DEF EchoInv, QueuedInv, Within
<1>3. CASE sq'["server"] = sq["server"]
  BY <1>2, <1>3
<1>4. CASE sq'["server"] = <<>>
  BY <1>4 DEF Within, ReadsFirst
<1>5. CASE CompleteSend("server")
  <2>1. sq["server"] # <<>> /\ sq'["server"] = Tail(sq["server"])
    BY <1>1, <1>5, EchoFacts DEF CompleteSend
  <2> QED BY <1>1, <1>2, <2>1, RequestsWithin, ReadsStayFirst
<1>6. ASSUME NEW op \in Operation, Put(op)
      PROVE  Within(sq'["server"], Asks') /\ ReadsFirst(sq'["server"])
  <2> DEFINE wr == [op |-> op, buf |-> IF op = "SEND" THEN NoBuffer ELSE advert,
                    phase |-> "posted", val |-> "junk"]
  <2>1. /\ pc["server"] \in {"read", "write", "go_ahead"}
        /\ op = "WRITE" => pc["server"] = "write"
    BY <1>6 DEF Put, Posts, ServerRead, ServerWrite, ServerGoAhead
  <2>2. Known /\ (op = "WRITE" => Copied \/ Broken)
    BY <2>1 DEF EchoInv, ServerInv, Working
  <2>3. Known' /\ (op = "WRITE" => Copied' \/ Broken')
    BY <2>2, StaysKnown, PingStays, StaysBroken
  <2>4. /\ wr \in Wr /\ wr.op = op /\ wr.phase = "posted"
        /\ op # "SEND" => wr.buf = "start_buf"
    BY <2>2 DEF Known, Wr, Buffer, Content
  <2> HIDE DEF wr
  <2>5. wr \in Asks'
    BY <2>3, <2>4 DEF Asks
  <2>6. Within(Append(sq["server"], wr), Asks') /\ ReadsFirst(Append(sq["server"], wr))
    BY <1>1, <1>2, <2>4, <2>5, RequestsWithin, ReadsStayFirst
  <2> QED BY <1>6, <2>6 DEF Put, wr
<1>7. ASSUME NEW k \in 1 .. Len(sq["server"]), Transmit("server", k)
      PROVE  Within(sq'["server"], Asks') /\ ReadsFirst(sq'["server"])
  <2>1. PICK wr \in Wr :
           /\ sq'["server"] = [sq["server"] EXCEPT ![k] = wr]
           /\ wr.op = sq["server"][k].op /\ wr.buf = sq["server"][k].buf
           /\ IF wr.op = "READ" THEN wr.phase = "fetched" /\ wr.val = mem["start_buf"]
                                ELSE wr.phase = "done"
           /\ sq["server"][k].phase = "posted"
           /\ wr.op = "READ" => \A j \in 1 .. k - 1 : sq["server"][j].phase = "done"
    BY <1>7, GoesOut
  <2>2. sq["server"][k] \in Asks /\ ~Broken /\ Known /\ Known'
    BY <1>7, CarriedOut, StaysKnown
  <2>3. wr.op = "WRITE" => Copied'
    BY <2>1, <2>2, PingStays DEF Asks
  <2>4. wr.op # "SEND" => wr.buf = "start_buf"
    BY <2>1, <2>2 DEF Asks
  <2>5. wr.phase = "fetched" => wr.op = "READ" /\ wr.val = "ping"
    BY <2>1, <2>2 DEF Known, Shared
  <2>6. wr.phase = "done" => wr.op # "READ"
    BY <2>1
  <2>7. wr \in Asks'
    BY <2>2, <2>3, <2>4, <2>5, <2>6 DEF Asks, Wr, Operation
  <2> QED BY <1>1, <1>2, <2>1, <2>7, RequestsWithin, ReadsStayFirst
<1>8. ASSUME NEW k \in 1 .. Len(sq["server"]), ReadArrives("server", k)
      PROVE  Within(sq'["server"], Asks') /\ ReadsFirst(sq'["server"])
  <2>1. PICK wr \in Wr : /\ sq'["server"] = [sq["server"] EXCEPT ![k] = wr]
                         /\ wr.op = "READ" /\ wr.buf = "start_buf" /\ wr.phase = "done"
    BY <1>8, ComesIn
  <2>2. Copied' /\ Known'
    <3>1. sq["server"][k] \in Asks
      BY <1>2 DEF Within
    <3> QED BY <1>8, <3>1, ComesIn, StaysKnown DEF Asks
  <2>3. wr \in Asks'
    BY <2>1, <2>2 DEF Asks
  <2> QED BY <1>1, <1>2, <2>1, <2>3, RequestsWithin, ReadsStayFirst
<1>9. QueueMoved(sq'["server"])
  BY <1>1, ServerQueueMoves
<1> QED BY <1>3, <1>4, <1>5, <1>6, <1>7, <1>8, <1>9 DEF QueueMoved

\* The server's completions.
LEMMA NewsStep ==
  ASSUME EchoInv, Next
  PROVE  Within(cqe'["server"], News')
<1> USE SideFacts
<1>1. /\ cqe["server"] \in Seq(Wc) /\ sq["server"] \in Seq(Wr) /\ TypeInv /\ ClientSends /\ QpTypeOK
      /\ Within(sq["client"], Adverts) /\ Within(sq["server"], Asks)
      /\ Within(cqe["server"], News) /\ Within(cqe["server"], News')
  BY EchoFacts, MayStay DEF EchoInv, QueuedInv, Within
<1>2. \A op \in Operation \cup {"RECV"} : WcOf(op, "flush", NoBuffer) \in News'
  BY WcOfType DEF News, Message, WcOf
<1>3. WcOf("RECV", "flush", NoBuffer) \in News'
  BY <1>2
<1>4. ASSUME NEW j \in 1 .. Len(sq["server"])
      PROVE  /\ sq["server"][j].op \in Operation
             /\ sq["server"][j].phase = "done" => WcOf(sq["server"][j].op, "ok", NoBuffer) \in News'
             /\ Broken' => WcOf(sq["server"][j].op, "err", NoBuffer) \in News'
  <2>1. sq["server"][j] \in Asks
    BY <1>1 DEF Within
  <2>2. sq["server"][j].op \in Operation /\ sq["server"][j].op # "RECV"
    BY <2>1 DEF Asks, Wr, Operation
  <2>3. /\ WcOf(sq["server"][j].op, "ok", NoBuffer) \in Wc
        /\ WcOf(sq["server"][j].op, "err", NoBuffer) \in Wc
    BY <2>2, WcOfType
  <2>4. ASSUME sq["server"][j].phase = "done"
        PROVE  WcOf(sq["server"][j].op, "ok", NoBuffer) \in News'
    <3>1. sq["server"][j].op # "SEND" => Known' /\ Copied'
      BY <2>1, <2>4, StaysKnown, PingStays DEF Asks
    <3> QED BY <2>2, <2>3, <3>1 DEF News, Message, WcOf
  <2>5. Broken' => WcOf(sq["server"][j].op, "err", NoBuffer) \in News'
    BY <2>2, <2>3 DEF News, Message, WcOf
  <2> QED BY <2>2, <2>4, <2>5
<1>5. ASSUME NEW k \in Nat, k \in 1 .. Len(sq["server"]) => Broken'
      PROVE  Within(Flushed("server", k), News')
  BY <1>1, <1>2, <1>3, <1>4, <1>5, FlushedWithin
<1>6. ASSUME NEW k \in 1 .. Len(sq["server"]), TransmitFails("server", k)
      PROVE  Within(Flushed("server", k), News')
  <2>1. qp'["server"] = "err"
    BY <1>6 DEF TransmitFails, QpError
  <2> QED BY <1>1, <1>5, <2>1 DEF Broken
<1>7. ASSUME NEW k \in 1 .. Len(sq["client"])
      PROVE  WcOf("RECV", "ok", sq["client"][k].buf) \in News'
  <2>1. sq["client"][k].buf = "start_buf" /\ Shared'
    BY <1>1, ClientOnlySends, PingStays
  <2>2. WcOf("RECV", "ok", "start_buf") \in Wc
    BY WcOfType DEF Buffer
  <2> QED BY <2>1, <2>2 DEF News, Message, WcOf
<1>8. /\ Within(<<>>, News') /\ \A wc \in News' : Within(<<wc>>, News')
      /\ \A q \in Seq(Wc) : Within(q, News') => Within(cqe["server"] \o q, News')
      /\ cqe["server"] # <<>> => Within(Tail(cqe["server"]), News')
  BY <1>1, WithinMoves
<1>9. Peer("server") = "client"
  BY DEF Peer
<1>10. ASSUME NEW q \in Seq(Wc), Source("server", q)
       PROVE  Within(q, News')
  <2>1. CASE q = <<>>
    BY <1>8, <2>1
  <2>2. CASE q = Flushed("server", 0)
    BY <1>5, <2>2
  <2>3. CASE \E k \in 1 .. Len(sq["server"]) : TransmitFails("server", k) /\ q = Flushed("server", k)
    BY <1>6, <2>3
  <2>4. CASE /\ sq["server"] # <<>> /\ Head(sq["server"]).phase = "done"
             /\ q = <<WcOf(Head(sq["server"]).op, "ok", NoBuffer)>>
    <3>1. 1 \in 1 .. Len(sq["server"]) /\ Head(sq["server"]) = sq["server"][1]
      BY <1>1, <2>4
    <3> QED BY <1>4, <1>8, <2>4, <3>1
  <2>5. CASE \/ q = <<WcOf("RECV", "flush", NoBuffer)>>
             \/ \E op \in Operation : q = <<WcOf(op, "flush", NoBuffer)>>
    BY <1>2, <1>8, <2>5
  <2>6. CASE \E k \in 1 .. Len(sq["client"]) : q = <<WcOf("RECV", "ok", sq["client"][k].buf)>>
    BY <1>7, <1>8, <2>6
  <2> QED BY <1>9, <1>10, <2>1, <2>2, <2>3, <2>4, <2>5, <2>6 DEF Source
<1>11. <<WcOf("RECV", "flush", NoBuffer)>> \in Seq(Wc)
  BY WcOfType
<1>12. CASE \E q \in Seq(Wc) : Source("server", q) /\ cqe'["server"] = cqe["server"] \o q
  BY <1>8, <1>10, <1>12
<1>13. CASE cqe'["server"] = cqe["server"] \o <<WcOf("RECV", "flush", NoBuffer)>>
  BY <1>3, <1>8, <1>11, <1>13
<1>14. CASE cqe'["server"] \in {cqe["server"], <<>>}
  BY <1>1, <1>8, <1>14
<1>15. CASE cqe["server"] # <<>> /\ cqe'["server"] = Tail(cqe["server"])
  BY <1>8, <1>15
<1> QED BY <1>1, <1>12, <1>13, <1>14, <1>15, CompletionsMove

\* The queues' part of the invariant.
LEMMA QueuedStep ==
  ASSUME EchoInv, Next
  PROVE  QueuedInv'
BY AdvertsStep, AsksStep, NewsStep DEF QueuedInv, Within, ReadsFirst

-----------------------------------------------------------------------------
(* What the server's state and label say.                                 *)

\* Every step of the server's thread: its waits end only when the state is there.
LEMMA ServerSteps ==
  ASSUME EchoInv, Next, pc'["server"] # pc["server"]
  PROVE  /\ ServerMain /\ state' = state
         /\ \/ /\ pc["server"] \in Opening \ {"accept_wait"}
               /\ \/ pc'["server"] \in (Opening \ {"accept_wait"}) \cup Leaving
                  \/ pc["server"] = "accept" /\ pc'["server"] = "accept_wait" /\ qp'["server"] = "rts"
            \/ pc["server"] = "accept_wait" /\ pc'["server"] = "accept_check"
               /\ state["server"] >= CONNECTED
            \/ pc["server"] = "accept_check" /\ pc'["server"] = "free_buffers"
            \/ pc["server"] = "accept_check" /\ pc'["server"] = "ping_wait"
               /\ state["server"] # ERROR
            \/ pc["server"] = "ping_wait" /\ pc'["server"] = "read"
            \/ pc["server"] = "read" /\ pc'["server"] = "read_wait"
            \/ pc["server"] = "read_wait" /\ pc'["server"] = "write"
               /\ state["server"] >= RDMA_READ_COMPLETE
            \/ pc["server"] = "write" /\ pc'["server"] = "write_wait"
            \/ pc["server"] = "write_wait" /\ pc'["server"] = "next_round"
            \/ pc["server"] = "next_round" /\ pc'["server"] = "read"
            \/ pc["server"] = "next_round" /\ pc'["server"] = "go_ahead" /\ round' = Rounds
            \/ pc["server"] = "go_ahead" /\ pc'["server"] = "disconnect"
            \/ pc["server"] = "disconnect" /\ pc'["server"] = "free_buffers"
            \/ pc["server"] \in Leaving /\ pc'["server"] \in Leaving
<1> USE SideFacts
<1>1. /\ pc \in [Side -> ClientLabel \cup ServerLabel] /\ signalled = {} /\ TypeInv
      /\ round \in 0 .. Rounds
      /\ qp \in [Side -> {"none", "init", "rts", "err", "gone"}]
  BY EchoFacts DEF QpTypeOK
<1>2. ServerMain
  BY <1>1, ThreadMoves
<1>3. state' = state
  BY <1>2, ServerContext
<1>4. CASE \/ ServerStart \/ ServerBind \/ ServerRequestWait \/ ServerRequestCheck \/ ServerSetupQp
           \/ SetupBuffers("server") \/ PostFirstRecv("server", "accept")
  BY <1>1, <1>2, <1>3, <1>4
  DEF ServerStart, ServerBind, ServerRequestWait, ServerRequestCheck, ServerSetupQp, QpSetUp,
      SetupBuffers, PostFirstRecv, WaitEvent, Goto, Opening, Leaving
<1>5. CASE ServerAccept
  BY <1>1, <1>2, <1>3, <1>5 DEF ServerAccept, Goto, Opening, Leaving
<1>6. CASE \/ ServerAcceptWait \/ ServerAcceptCheck \/ ServerPingWait \/ ServerReadWait
           \/ ServerWriteWait
  BY <1>1, <1>2, <1>3, <1>6
  DEF ServerAcceptWait, ServerAcceptCheck, ServerPingWait, ServerReadWait, ServerWriteWait,
      WaitEvent, Threshold, Goto
<1>7. CASE ServerNextRound
  <2>1. round < Rounds /\ Rounds \in Nat
    BY <1>1, <1>7, IbContextAssumption DEF ServerNextRound, TypeInv, LoopInv
  <2> QED BY <1>1, <1>2, <1>3, <1>7, <2>1 DEF ServerNextRound, Goto
<1>8. CASE \/ ServerRead \/ ServerWrite \/ ServerGoAhead \/ Disconnect("server")
  BY <1>1, <1>2, <1>3, <1>8 DEF ServerRead, ServerWrite, ServerGoAhead, Disconnect, Goto
<1>9. CASE \/ FreeBuffers("server") \/ FreeQp("server")
           \/ FreeCq("server", "destroy_child") \/ ServerDestroyChild \/ ServerDestroyListener
  BY <1>1, <1>2, <1>3, <1>9
  DEF FreeBuffers, FreeQp, FreeCq, ServerDestroyChild, ServerDestroyListener, Goto, Leaving
<1> QED BY <1>2, <1>4, <1>5, <1>6, <1>7, <1>8, <1>9 DEF ServerMain

\* Rounds are counted at one place.
LEMMA RoundMoves ==
  ASSUME TypeInv, Next, round' # round
  PROVE  /\ ServerNextRound /\ pc["server"] = "next_round"
         /\ pc'["server"] \in {"read", "go_ahead"} /\ round' = round + 1
<1> USE SideFacts
<1>1. pc \in [Side -> ClientLabel \cup ServerLabel]
  BY DEF TypeInv, TypeOK, ThreadTypeOK
<1>2. CASE ServerMain
  <2>1. ServerNextRound
    BY <1>2
    DEF ServerMain, ServerStart, ServerBind, ServerRequestWait, ServerRequestCheck,
        ServerSetupQp, SetupBuffers, PostFirstRecv, ServerAccept, ServerAcceptWait,
        ServerAcceptCheck, ServerPingWait, ServerRead, ServerReadWait, ServerWrite,
        ServerWriteWait, ServerNextRound, ServerGoAhead, Disconnect, FreeBuffers, FreeQp,
        FreeCq, ServerDestroyChild, ServerDestroyListener, WaitEvent
  <2> QED BY <1>1, <2>1 DEF ServerNextRound, Goto
<1>3. ASSUME NEW x \in Side, Signal(x)
      PROVE  FALSE
  BY <1>3 DEF Signal
<1>4. CASE UNCHANGED vars
  BY <1>4 DEF vars, threadVars
<1> QED BY <1>2, <1>3, <1>4, ClientThread, OtherThread DEF Next, Progress, Fault, Over, Callbacks

\* What the server's callbacks make of its state.
LEMMA ServerStates ==
  ASSUME NothingCutShort, PostsSucceed, EchoInv, Next, state'["server"] # state["server"]
  PROVE  \/ state'["server"] = CONNECT_REQUEST /\ pc["server"] \in Opening \cup Leaving
         \/ state'["server"] = ERROR /\ (Broken \/ pc["server"] \in Leaving)
         \/ /\ state'["server"] \in {RDMA_READ_COMPLETE, RDMA_WRITE_COMPLETE}
            /\ Known /\ Copied
         \/ state'["server"] = RDMA_READ_ADV /\ Known'
<1> USE SideFacts
<1>1. /\ TypeInv /\ SessionInv /\ cmq["server"] \in Seq(CmEvent) /\ cqe["server"] \in Seq(Wc)
      /\ state \in [Side -> TestState] /\ Resolved /\ OneRequest /\ OneChild
  BY EchoFacts DEF SessionInv, QuietInv, HeldInv, TypeInv, TypeOK, CmTypeOK
<1>2. CASE CmaEvent("server")
  <2>1. cmq["server"] # <<>>
    BY <1>2 DEF CmaEvent
  <2>2. Head(cmq["server"]) \notin Resolution
    BY <1>1, <2>1, HasMoves DEF Resolved
  <2>3. CASE Head(cmq["server"]) = "CONNECT_REQUEST" /\ state'["server"] = CONNECT_REQUEST
    <3>1. child = "unset"
      BY <1>1, <2>1, <2>3, HasMoves DEF OneRequest, Asked, NoChild
    <3>2. pc["server"] \notin WithChild
      BY <1>1, <3>1 DEF OneChild
    <3> QED BY <2>3, <3>2 DEF EchoInv, ServerInv, WithChild, Working
  <2>4. CASE Head(cmq["server"]) \in Alarm /\ state'["server"] = ERROR
    <3>1. Has(cmq["server"], Alarm)
      BY <1>1, <2>1, <2>4, HasMoves
    <3> QED BY <2>4, <3>1 DEF EchoInv, ServerInv
  <2>5. Head(cmq["server"]) \notin Alarm \cup Resolution
          => StateOfEvent("server", Head(cmq["server"])) = state["server"]
    BY DEF StateOfEvent, Alarm, Resolution
  <2>6. Head(cmq["server"]) \in Alarm => StateOfEvent("server", Head(cmq["server"])) = ERROR
    BY DEF StateOfEvent, Alarm, CmErrors
  <2>7. "ADDR_RESOLVED" \in Resolution
    BY DEF Resolution
  <2> QED BY <1>1, <1>2, <2>2, <2>3, <2>4, <2>5, <2>6, <2>7, CmaMoves
<1>3. CASE CqPoll("server")
  <2>1. cqe["server"] # <<>>
    BY <1>3 DEF CqPoll
  <2> DEFINE wc == Head(cqe["server"])
  <2>2. wc \in News
    BY <1>1, <2>1, WithinMoves DEF EchoInv, QueuedInv
  <2>3. CASE wc.status = "err" /\ state'["server"] = ERROR
    BY <2>2, <2>3 DEF News
  <2>4. CASE /\ wc.status = "ok" /\ wc.op \in {"READ", "WRITE"}
             /\ state'["server"] \in {RDMA_READ_COMPLETE, RDMA_WRITE_COMPLETE}
    BY <2>2, <2>4 DEF News
  <2>5. CASE wc.status = "ok" /\ wc.op = "RECV" /\ server_recv(wc)
    <3>1. ~Within(cqe["server"], NoMessage) /\ ~Within(cqe["server"], Flushes)
      BY <1>1, <2>1, <2>5, WithinMoves DEF NoMessage, Message, Flushes
    <3>2. pc["client"] \notin Unsent
      BY <3>1, NothingToDo
    <3>3. Arrived
      BY <2>1, <3>1, <3>2 DEF EchoInv, AdvertInv, UnderWay, Reposting, Dealt
    <3>4. state'["server"] = RDMA_READ_ADV
      BY <1>1, <2>5, <3>3
      DEF Arrived, Awaiting, server_recv, SetState, IDLE, CONNECT_REQUEST, CONNECTED
    <3>5. advert' = "start_buf" /\ Shared'
      BY <2>2, <2>5, PingStays DEF News, Message, server_recv
    <3> QED BY <3>4, <3>5 DEF Known
  <2>6. CASE UNCHANGED state
    BY <2>6
  <2> QED BY <1>1, <1>3, <2>3, <2>4, <2>5, <2>6 DEF CqPoll, recv, SetState
<1>4. CASE CqRepost("server")
  <2>1. <<"server", "qp">> \notin misuse'
    BY RepostsAlive DEF EchoInv
  <2> QED BY <1>4, <2>1 DEF CqRepost, PostsSucceed
<1> QED BY <1>1, <1>2, <1>3, <1>4, StateBy

\* When the server is told that the connection is no more, a queue pair is down or the
\* server is on its way out.
LEMMA AlarmRises ==
  ASSUME NothingCutShort, EchoInv, Next, ~Has(cmq["server"], Alarm), Has(cmq'["server"], Alarm)
  PROVE  Broken' \/ pc'["server"] \in Leaving
<1> USE SideFacts
<1>1. /\ TypeInv /\ SessionInv /\ Resolved /\ ConnInv /\ Gone /\ QpPlace
      /\ cmq["server"] \in Seq(CmEvent) /\ pc \in [Side -> ClientLabel \cup ServerLabel]
  BY EchoFacts DEF SessionInv, QuietInv, HeldInv, TypeInv, TypeOK, CmTypeOK
<1>2. conn \in {"requested", "accepted", "established"} /\ conn' # conn
  BY <1>1, AlarmKept DEF Resolved, Answering
<1>3. CASE ClientMain
  <2>1. ClientConnect \/ Disconnect("client") \/ ClientDestroyId
    BY <1>2, <1>3
    DEF ClientMain, ClientStart, ClientBind, ClientBindWait, ClientBindCheck, ClientSetupQp,
        SetupBuffers, PostFirstRecv, ClientConnectWait, ClientConnectCheck,
        ClientAdvertise, ClientSend, ClientGoAheadWait, FreeBuffers, FreeQp, FreeCq, WaitEvent,
        cmVars
  <2>2. ~ClientConnect
    BY <1>1, <1>2 DEF ClientConnect, ConnInv, PreConnect
  <2>3. ~ClientDestroyId
    <3>1. SUFFICES ASSUME pc["client"] = "destroy_id" PROVE FALSE
      BY DEF ClientDestroyId
    <3>2. pc["client"] \notin Unsent
      BY <3>1 DEF Unsent, PreConnect
    <3> QED BY <1>1, <1>2, <3>1, <3>2 DEF Gone, EchoInv, ClientInv
  <2>4. Disconnect("client") => qp'["client"] = "err"
    BY DEF Disconnect, DisconnectConnection, QpError
  <2> QED BY <2>1, <2>2, <2>3, <2>4 DEF Broken
<1>4. CASE ServerMain
  <2>1. \/ ServerAccept \/ Disconnect("server") \/ ServerDestroyChild \/ ServerDestroyListener
    BY <1>2, <1>4
    DEF ServerMain, ServerStart, ServerBind, ServerRequestWait, ServerRequestCheck,
        ServerSetupQp, SetupBuffers, PostFirstRecv, ServerAcceptWait, ServerAcceptCheck,
        ServerPingWait, ServerRead, ServerReadWait, ServerWrite, ServerWriteWait,
        ServerNextRound, ServerGoAhead, FreeBuffers, FreeQp, FreeCq, WaitEvent, cmVars
  <2>2. CASE ServerAccept
    <3>1. ~(conn = "requested" /\ conn' = "accepted" /\ UNCHANGED cmq)
      OBVIOUS
    <3> QED BY <1>1, <2>2, <3>1 DEF ServerAccept, Goto, Leaving
  <2>3. CASE \/ Disconnect("server") \/ ServerDestroyChild \/ ServerDestroyListener
    BY <1>1, <2>3 DEF Disconnect, ServerDestroyChild, ServerDestroyListener, Goto, Leaving
  <2> QED BY <2>1, <2>2, <2>3
<1>5. CASE ConnectionEstablished
  <2>1. qp["client"] = "init"
    BY <1>1, <1>5 DEF ConnectionEstablished, QpPlace
  <2>2. cmq'["server"] = cmq["server"] \/ cmq'["server"] = Append(cmq["server"], "ESTABLISHED")
    BY <1>1, <1>5, <2>1, Establishes
  <2>3. "ESTABLISHED" \in CmEvent \ Alarm
    BY DEF CmEvent, Alarm, CmErrors
  <2>4. \A event \in CmEvent \ Alarm :
          Has(Append(cmq["server"], event), Alarm) => Has(cmq["server"], Alarm)
    BY <1>1, HasMoves
  <2> QED BY <2>2, <2>3, <2>4
<1>6. CASE ConnectTimeout
  BY <1>6 DEF ConnectTimeout, NothingCutShort, FaultKind, Leaving, threadVars
<1>7. CASE UNCHANGED conn
  BY <1>2, <1>7
<1>8. ASSUME NEW s \in Side, megaVM_cma_event_handler(s) \/ StrayEvent(s)
      PROVE  conn' = conn
  BY <1>8 DEF megaVM_cma_event_handler, CmaEvent, CmaChild, CmaWake, StrayEvent
<1>9. CASE \/ UNCHANGED vars
           \/ \E x \in Side : megaVM_cq_event_handler(x) \/ Adapter(x) \/ Signal(x)
  BY <1>7, <1>9, OtherCm DEF cmVars, vars
<1> QED BY <1>3, <1>4, <1>5, <1>6, <1>7, <1>8, <1>9 DEF Next, Progress, Fault, Over, Callbacks

\* The server's part of the invariant: its label, ...
LEMMA ServerPlaceStep ==
  ASSUME EchoInv, Next
  PROVE  /\ pc'["server"] \in Opening \cup Leaving \cup Working \cup {"accept_check"}
         /\ pc["server"] \in Leaving => pc'["server"] \in Leaving
         /\ pc'["server"] \in Working \cup {"accept_wait", "accept_check"} =>
              qp'["server"] \notin {"none", "init"}
<1> USE SideFacts
<1>1. /\ TypeInv /\ pc["server"] \in Opening \cup Leaving \cup Working \cup {"accept_check"}
      /\ pc["server"] \in Working \cup {"accept_wait", "accept_check"} =>
           qp["server"] \notin {"none", "init"}
  BY EchoFacts DEF EchoInv, ServerInv
<1>2. /\ pc'["server"] \in Opening \cup Leaving \cup Working \cup {"accept_check"}
      /\ pc["server"] \in Leaving => pc'["server"] \in Leaving
      /\ pc'["server"] \in Working \cup {"accept_wait", "accept_check"} =>
           \/ pc["server"] \in Working \cup {"accept_wait", "accept_check"}
           \/ qp'["server"] = "rts"
  <2>1. CASE pc'["server"] = pc["server"]
    BY <1>1, <2>1
  <2>2. CASE pc'["server"] # pc["server"]
    BY <1>1, <2>2, ServerSteps DEF Opening, Leaving, Working
  <2> QED BY <2>1, <2>2
<1>3. pc["server"] \in Working \cup {"accept_wait", "accept_check"} => pc["server"] # "setup_qp"
  BY DEF Working
<1> QED BY <1>1, <1>2, <1>3, QpGoes

\* ... its state ...
LEMMA ServerStateStep ==
  ASSUME NothingCutShort, PostsSucceed, EchoInv, Next
  PROVE  /\ state'["server"] \in RDMA_READ_ADV .. RDMA_WRITE_COMPLETE => Known'
         /\ state'["server"] \in RDMA_READ_COMPLETE .. RDMA_WRITE_COMPLETE => Copied'
         /\ state'["server"] \notin {ADDR_RESOLVED, ROUTE_RESOLVED, CONNECTED}
         /\ state'["server"] = ERROR \/ Has(cmq'["server"], Alarm) =>
              Broken' \/ pc'["server"] \in Leaving
         /\ pc'["server"] \notin Opening \cup Leaving =>
              state'["server"] \notin {IDLE, CONNECT_REQUEST}
<1> USE SideFacts
    DEF IDLE, CONNECT_REQUEST, ADDR_RESOLVED, ROUTE_RESOLVED, CONNECTED, RDMA_READ_ADV,
        RDMA_READ_COMPLETE, RDMA_WRITE_ADV, RDMA_WRITE_COMPLETE, ERROR
<1>1. /\ Known => Known'
      /\ Copied => Copied'
      /\ Broken => Broken'
      /\ pc["server"] \in Leaving => pc'["server"] \in Leaving
  BY PingStays, StaysKnown, StaysBroken, ServerPlaceStep
<1>2. ServerInv
  BY DEF EchoInv
<1>3. Has(cmq'["server"], Alarm) => Broken' \/ pc'["server"] \in Leaving
  BY <1>1, <1>2, AlarmRises DEF ServerInv
<1>4. pc'["server"] \notin Opening \cup Leaving =>
        state'["server"] \notin {IDLE, CONNECT_REQUEST}
  <2>1. SUFFICES ASSUME pc'["server"] \notin Opening \cup Leaving,
                        state'["server"] \in {IDLE, CONNECT_REQUEST}
                 PROVE  FALSE
    OBVIOUS
  <2>2. CASE state'["server"] = state["server"]
    <3>1. pc["server"] \in Opening \cup Leaving
      BY <1>2, <2>1, <2>2 DEF ServerInv
    <3>2. pc'["server"] # pc["server"]
      BY <2>1, <3>1
    <3>3. pc["server"] = "accept_wait" /\ state["server"] >= CONNECTED
      BY <2>1, <3>1, <3>2, ServerSteps DEF Opening, Leaving
    <3> QED BY <2>1, <2>2, <3>3
  <2>3. CASE state'["server"] # state["server"]
    <3>1. pc["server"] \in Opening \cup Leaving /\ state'["server"] = CONNECT_REQUEST
      BY <2>1, <2>3, ServerStates
    <3>2. pc'["server"] = pc["server"]
      BY <2>3, ServerSteps
    <3> QED BY <2>1, <3>1, <3>2
  <2> QED BY <2>2, <2>3
<1>5. CASE state'["server"] = state["server"]
  BY <1>1, <1>2, <1>3, <1>4, <1>5 DEF ServerInv
<1>6. CASE state'["server"] # state["server"]
  BY <1>1, <1>3, <1>4, <1>6, ServerStates
<1> QED BY <1>5, <1>6

\* ... and what it knows where it works.
LEMMA ServerWorkStep ==
  ASSUME EchoInv, Next
  PROVE  /\ pc'["server"] \in Working => Known'
         /\ pc'["server"] \in {"write", "write_wait", "next_round", "go_ahead"} \/ round' > 0 =>
              Copied' \/ Broken'
         /\ \/ pc'["server"] = "go_ahead"
            \/ \E k \in 1 .. Len(sq'["server"]) : sq'["server"][k].op = "SEND"
            => round' = Rounds
<1> USE SideFacts
    DEF IDLE, CONNECT_REQUEST, ADDR_RESOLVED, ROUTE_RESOLVED, CONNECTED, RDMA_READ_ADV,
        RDMA_READ_COMPLETE, RDMA_WRITE_ADV, RDMA_WRITE_COMPLETE, ERROR
<1>1. /\ Known => Known'
      /\ Copied => Copied'
      /\ Broken => Broken'
  BY PingStays, StaysKnown, StaysBroken
<1>2. /\ ServerInv /\ TypeInv /\ SendIsLast /\ state["server"] \in TestState
      /\ sq["server"] \in Seq(Wr) /\ round \in 0 .. Rounds
  BY EchoFacts DEF EchoInv, GoAheadInv
<1>3. pc'["server"] \in Working => Known'
  <2>1. SUFFICES ASSUME pc'["server"] \in Working, pc["server"] \notin Working
                 PROVE  Known
    BY <1>1, <1>2 DEF ServerInv
  <2>2. pc["server"] = "accept_check" /\ state["server"] # ERROR
    BY <2>1, ServerSteps DEF Opening, Leaving, Working
  <2>3. state["server"] \notin {IDLE, CONNECT_REQUEST}
    BY <1>2, <2>2 DEF ServerInv, Opening, Leaving
  <2> QED BY <1>2, <2>2, <2>3 DEF ServerInv, TestState
<1>4. pc'["server"] \in {"write", "write_wait", "next_round", "go_ahead"} \/ round' > 0 =>
        Copied' \/ Broken'
  <2>1. SUFFICES ASSUME pc'["server"] \in {"write", "write_wait", "next_round", "go_ahead"}
                          \/ round' > 0,
                        pc["server"] \notin {"write", "write_wait", "next_round", "go_ahead"},
                        ~(round > 0)
                 PROVE  Copied \/ Broken
    BY <1>1, <1>2 DEF ServerInv
  <2>2. round' = round
    BY <1>2, <2>1, RoundMoves
  <2>3. pc["server"] = "read_wait" /\ state["server"] >= RDMA_READ_COMPLETE
    BY <2>1, <2>2, ServerSteps DEF Opening, Leaving
  <2>4. state["server"] = ERROR => Broken
    BY <1>2, <2>3 DEF ServerInv, Leaving
  <2> QED BY <1>2, <2>3, <2>4 DEF ServerInv, TestState
<1>5. ASSUME pc'["server"] = "go_ahead"
      PROVE  round' = Rounds
  <2>1. CASE pc["server"] = "go_ahead"
    BY <1>2, <1>5, <2>1, RoundMoves DEF ServerInv
  <2>2. CASE pc["server"] # "go_ahead"
    BY <1>5, <2>2, ServerSteps DEF Opening, Leaving
  <2> QED BY <2>1, <2>2
<1>6. ASSUME NEW k \in 1 .. Len(sq'["server"]), sq'["server"][k].op = "SEND"
      PROVE  round' = Rounds
  <2>1. round = Rounds /\ pc["server"] \in Sent \cup {"go_ahead"}
    <3>1. CASE Remains(sq'["server"], sq["server"])
      <4>1. PICK j \in 1 .. Len(sq["server"]) : sq["server"][j].op = "SEND"
        BY <1>6, <3>1 DEF Remains
      <4> QED BY <1>2, <4>1 DEF ServerInv, SendIsLast
    <3>2. ASSUME NEW op \in Operation, Enqueued("server", op)
          PROVE  round = Rounds /\ pc["server"] \in Sent \cup {"go_ahead"}
      <4>1. PICK wr : wr.op = op /\ sq'["server"] = Append(sq["server"], wr)
        BY <3>2 DEF Enqueued
      <4>2. CASE op = "SEND"
        <5>1. pc["server"] = "go_ahead"
          BY <3>2, <4>2 DEF Enqueued, Posts, ServerGoAhead
        <5> QED BY <1>2, <5>1 DEF ServerInv
      <4>3. CASE op # "SEND"
        <5>1. /\ Len(sq'["server"]) = Len(sq["server"]) + 1
              /\ \A j \in 1 .. Len(sq["server"]) : sq'["server"][j] = sq["server"][j]
              /\ sq'["server"][Len(sq["server"]) + 1] = wr
          BY <1>2, <4>1
        <5>2. k \in 1 .. Len(sq["server"]) /\ sq["server"][k].op = "SEND"
          BY <1>2, <1>6, <4>1, <4>3, <5>1
        <5> QED BY <1>2, <5>2 DEF ServerInv, SendIsLast
      <4> QED BY <4>2, <4>3
    <3> QED BY <1>2, <3>1, <3>2, SqMoves
  <2> QED BY <1>2, <2>1, RoundMoves DEF Sent
<1> QED BY <1>3, <1>4, <1>5, <1>6

\* All of it.
LEMMA ServerPartStep ==
  ASSUME NothingCutShort, PostsSucceed, EchoInv, Next
  PROVE  ServerInv'
<1>1. ServerInv' <=>
        /\ pc'["server"] \in Opening \cup Leaving \cup Working \cup {"accept_check"}
        /\ state'["server"] \in RDMA_READ_ADV .. RDMA_WRITE_COMPLETE => Known'
        /\ state'["server"] \in RDMA_READ_COMPLETE .. RDMA_WRITE_COMPLETE => Copied'
        /\ state'["server"] \notin {ADDR_RESOLVED, ROUTE_RESOLVED, CONNECTED}
        /\ state'["server"] = ERROR \/ Has(cmq'["server"], Alarm) =>
             Broken' \/ pc'["server"] \in Leaving
        /\ pc'["server"] \notin Opening \cup Leaving =>
             state'["server"] \notin {IDLE, CONNECT_REQUEST}
        /\ pc'["server"] \in Working => Known'
        /\ pc'["server"] \in {"write", "write_wait", "next_round", "go_ahead"} \/ round' > 0 =>
             Copied' \/ Broken'
        /\ \/ pc'["server"] = "go_ahead"
           \/ \E k \in 1 .. Len(sq'["server"]) : sq'["server"][k].op = "SEND"
           => round' = Rounds
        /\ pc'["server"] \in Working \cup {"accept_wait", "accept_check"} =>
             qp'["server"] \notin {"none", "init"}
  BY DEF ServerInv, Has
<1> QED BY <1>1, ServerPlaceStep, ServerStateStep, ServerWorkStep

-----------------------------------------------------------------------------
(* How many writes and requests there are.                                *)

\* Requests that are to be carried out come, are carried out, and are taken off the queue
\* only after that.
LEMMA MarkedMoves ==
  ASSUME NEW q \in Seq(Wr)
  PROVE  /\ IsFiniteSet(Marked(q)) /\ Cardinality(Marked(q)) \in Nat
         /\ Marked(<<>>) = {}
         /\ \A wr : Cardinality(Marked(Append(q, wr))) =
              Cardinality(Marked(q))
                + (IF wr.op = "WRITE" /\ wr.phase = "posted" THEN 1 ELSE 0)
         /\ \A k \in 1 .. Len(q) : \A wr : wr.phase # "posted" =>
              Cardinality(Marked([q EXCEPT ![k] = wr])) =
                Cardinality(Marked(q)) - (IF k \in Marked(q) THEN 1 ELSE 0)
         /\ q # <<>> /\ Head(q).phase # "posted" =>
              Cardinality(Marked(Tail(q))) = Cardinality(Marked(q))
<1> DEFINE n == Len(q)
<1>0. n \in Nat
  OBVIOUS
<1>1. IsFiniteSet(Marked(q)) /\ Cardinality(Marked(q)) \in Nat
  <2>1. \A m \in Nat : IsFiniteSet(1 .. m)
    <3>1. \A m \in Nat : m >= 1 => m - 1 + 1 = m
      OBVIOUS
    <3> QED BY <3>1, FS_Interval
  <2>2. Marked(q) \subseteq 1 .. n
    BY DEF Marked
  <2> QED BY <1>0, <2>1, <2>2, FS_Subset, FS_CardinalityType
<1>2. Marked(<<>>) = {}
  BY DEF Marked
<1>3. ASSUME NEW wr
      PROVE  Cardinality(Marked(Append(q, wr))) =
               Cardinality(Marked(q)) + (IF wr.op = "WRITE" /\ wr.phase = "posted" THEN 1 ELSE 0)
  <2>1. /\ Len(Append(q, wr)) = n + 1
        /\ \A i \in 1 .. n : Append(q, wr)[i] = q[i]
        /\ Append(q, wr)[n + 1] = wr
    OBVIOUS
  <2>2. n + 1 \notin Marked(q)
    BY <1>0 DEF Marked
  <2>3. CASE wr.op = "WRITE" /\ wr.phase = "posted"
    <3>1. Marked(Append(q, wr)) = Marked(q) \cup {n + 1}
      BY <1>0, <2>1, <2>3 DEF Marked
    <3> QED BY <1>1, <2>2, <2>3, <3>1, FS_AddElement
  <2>4. CASE ~(wr.op = "WRITE" /\ wr.phase = "posted")
    <3>1. Marked(Append(q, wr)) = Marked(q)
      BY <1>0, <2>1, <2>4 DEF Marked
    <3> QED BY <1>1, <2>4, <3>1
  <2> QED BY <2>3, <2>4
<1>4. ASSUME NEW k \in 1 .. Len(q), NEW wr, wr.phase # "posted"
      PROVE  Cardinality(Marked([q EXCEPT ![k] = wr])) =
               Cardinality(Marked(q)) - (IF k \in Marked(q) THEN 1 ELSE 0)
  <2>1. /\ Len([q EXCEPT ![k] = wr]) = n
        /\ \A i \in 1 .. n : [q EXCEPT ![k] = wr][i] = IF i = k THEN wr ELSE q[i]
    OBVIOUS
  <2>2. Marked([q EXCEPT ![k] = wr]) = Marked(q) \ {k}
    BY <1>4, <2>1 DEF Marked
  <2>3. CASE k \in Marked(q)
    BY <1>1, <2>2, <2>3, FS_RemoveElement
  <2>4. CASE k \notin Marked(q)
    <3>1. Marked([q EXCEPT ![k] = wr]) = Marked(q)
      BY <2>2, <2>4
    <3> QED BY <1>1, <2>4, <3>1
  <2> QED BY <2>3, <2>4
<1>5. ASSUME q # <<>>, Head(q).phase # "posted"
      PROVE  Cardinality(Marked(Tail(q))) = Cardinality(Marked(q))
  <2> DEFINE Shift == [i \in Marked(q) |-> i - 1]
  <2>1. /\ n >= 1 /\ Len(Tail(q)) = n - 1 /\ q[1].phase # "posted"
        /\ \A i \in 1 .. n - 1 : Tail(q)[i] = q[i + 1]
    BY <1>5
  <2>2. ASSUME NEW i \in Marked(q)
        PROVE  i - 1 \in Marked(Tail(q)) /\ i \in Nat
    <3>1. i \in 1 .. n /\ i # 1 /\ q[i].op = "WRITE" /\ q[i].phase = "posted"
      BY <2>1 DEF Marked
    <3>2. i - 1 \in 1 .. n - 1 /\ (i - 1) + 1 = i
      BY <1>0, <3>1
    <3>3. Tail(q)[i - 1] = q[i]
      BY <2>1, <3>2
    <3> QED BY <2>1, <3>1, <3>2, <3>3 DEF Marked
  <2>3. ASSUME NEW j \in Marked(Tail(q))
        PROVE  j + 1 \in Marked(q) /\ (j + 1) - 1 = j
    <3>1. j \in 1 .. n - 1 /\ Tail(q)[j].op = "WRITE" /\ Tail(q)[j].phase = "posted"
      BY <2>1 DEF Marked
    <3>2. j + 1 \in 1 .. n /\ Tail(q)[j] = q[j + 1] /\ (j + 1) - 1 = j
      BY <1>0, <2>1, <3>1
    <3> QED BY <3>1, <3>2 DEF Marked
  <2>4. Shift \in Bijection(Marked(q), Marked(Tail(q)))
    <3>1. Shift \in [Marked(q) -> Marked(Tail(q))]
      BY <2>2
    <3>2. \A i, j \in Marked(q) : Shift[i] = Shift[j] => i = j
      BY <2>2
    <3>3. \A j \in Marked(Tail(q)) : \E i \in Marked(q) : Shift[i] = j
      BY <2>3
    <3> HIDE DEF Shift
    <3> QED BY <3>1, <3>2, <3>3 DEF Bijection, Injection, Surjection, IsInjective
  <2>5. ExistsBijection(Marked(q), Marked(Tail(q)))
    BY <2>4 DEF ExistsBijection
  <2> QED BY <1>1, <2>5, FS_Bijection
<1> QED BY <1>1, <1>2, <1>3, <1>4, <1>5

\* The server's main thread is past its work for good, and what it has posted adds up.
LEMMA MadeGrow ==
  ASSUME EchoInv, Next
  PROVE  /\ pc["server"] \in Sent \cup {"oops"} => pc'["server"] \in Sent \cup {"oops"}
         /\ \/ pc'["server"] = pc["server"]
            \/ pc["server"] \notin {"read", "write"}
            \/ pc["server"] = "read" /\ pc'["server"] = "read_wait"
            \/ pc["server"] = "write" /\ pc'["server"] = "write_wait"
         /\ WritesMade' = WritesMade +
              (IF pc["server"] = "write" /\ pc'["server"] # pc["server"] THEN 1 ELSE 0)
         /\ pc'["server"] \notin Sent \cup {"oops"} => RequestsMade' = RequestsMade +
              (IF pc["server"] \in {"read", "write"} /\ pc'["server"] # pc["server"] THEN 1 ELSE 0)
<1>1. /\ TypeInv /\ pc["server"] \in Opening \cup Leaving \cup Working \cup {"accept_check"}
      /\ round \in Nat
  BY EchoFacts, IbContextAssumption DEF EchoInv, ServerInv
<1>2. CASE pc'["server"] = pc["server"]
  <2>1. round' = round
    BY <1>1, <1>2, RoundMoves
  <2> QED BY <1>1, <1>2, <2>1 DEF WritesMade, RequestsMade
<1>3. CASE pc'["server"] # pc["server"] /\ round' # round
  BY <1>1, <1>3, RoundMoves DEF WritesMade, RequestsMade, Sent
<1>4. CASE pc'["server"] # pc["server"] /\ round' = round
  <2>1. ~(pc["server"] = "next_round")
    <3>1. ServerMain => ServerNextRound \/ pc["server"] # "next_round"
      BY DEF ServerMain, ServerStart, ServerBind, ServerRequestWait, ServerRequestCheck,
             ServerSetupQp, SetupBuffers, PostFirstRecv, ServerAccept, ServerAcceptWait,
             ServerAcceptCheck, ServerPingWait, ServerRead, ServerReadWait, ServerWrite,
             ServerWriteWait, ServerGoAhead, Disconnect, FreeBuffers, FreeQp,
             FreeCq, ServerDestroyChild, ServerDestroyListener, WaitEvent
    <3>2. ServerMain
      BY <1>4, ServerSteps
    <3> QED BY <1>1, <1>4, <3>1, <3>2 DEF ServerNextRound
  <2> QED BY <1>1, <1>4, <2>1, ServerSteps
          DEF WritesMade, RequestsMade, Sent, Opening, Leaving
<1> QED BY <1>2, <1>3, <1>4

\* What the callback, the adapters and a disconnection do takes no slot of the send queue.
LEMMA HandledUses ==
  ASSUME NEW z \in SizeRecord, NEW y, z.sends <= z.completions, Handled(z, y)
  PROVE  y.requests + y.sends <= z.requests + z.sends
<1> USE DEF SizeRecord, Moved
<1>1. CASE y = z
  BY <1>1
<1>2. CASE \/ Moved(z, y, 0, 0, 0, 0, -z.owed)
           \/ Moved(z, y, -1, 0, 1, 1, 0)
           \/ Moved(z, y, 0, -1, 1, 0, 0)
           \/ Moved(z, y, 0, 0, -1, -1, 0)
           \/ Moved(z, y, 0, 0, -1, 0, 0)
           \/ Moved(z, y, 0, 0, -1, 0, 1)
           \/ Moved(z, y, 0, 1, 0, 0, -z.owed)
           \/ Moved(z, y, 0, 0, 1, 0, -z.owed)
  BY <1>2
<1>3. CASE Moved(z, y, -z.requests, -z.receives, (z.requests + z.receives), z.requests, 0)
  BY <1>3
<1> QED BY <1>1, <1>2, <1>3 DEF Handled

\* How many slots a step takes: the posts of the loop take one each, nothing else takes any.
LEMMA ServerUses ==
  ASSUME EchoInv, Next, pc'["server"] \notin Sent
  PROVE  SqInUse("server")' <= SqInUse("server") +
           (IF pc["server"] \in {"read", "write"} /\ pc'["server"] # pc["server"] THEN 1 ELSE 0)
<1> USE SideFacts
<1>1. /\ TypeOK /\ QpTypeOK /\ CqTypeOK /\ 0 \in Nat
      /\ pc \in [Side -> ClientLabel \cup ServerLabel]
      /\ sq \in [Side -> Seq(Wr)] /\ cqe \in [Side -> Seq(Wc)]
  BY EchoFacts
<1> DEFINE z == Sizes("server")
           y == Sizes("server")'
           more == IF pc["server"] \in {"read", "write"} /\ pc'["server"] # pc["server"] THEN 1 ELSE 0
<1>2. /\ z \in SizeRecord /\ z.sends <= z.completions
      /\ SqInUse("server") = z.requests + z.sends
      /\ SqInUse("server")' = y.requests + y.sends
      /\ z.requests + z.sends \in Nat
      /\ more \in {0, 1}
  <2>1. SqInUse("server")' = y.requests + y.sends
    BY DEF SqInUse, Sizes
  <2>2. z \in SizeRecord /\ z.sends <= z.completions /\ SqInUse("server") = z.requests + z.sends
    BY <1>1, SizesType
  <2> QED BY <2>1, <2>2 DEF SizeRecord
<1> SUFFICES y.requests + y.sends <= z.requests + z.sends + more
  BY <1>2
<1>3. ASSUME Handled(z, y)
      PROVE  y.requests + y.sends <= z.requests + z.sends + more
  <2>1. y.requests + y.sends <= z.requests + z.sends
    <3> HIDE DEF y, z
    <3> QED BY <1>2, <1>3, HandledUses
  <2>2. y.requests + y.sends \in Int
    <3> HIDE DEF y, z
    <3> QED BY <1>2, <1>3 DEF Handled, Moved, SizeRecord
  <2> HIDE DEF y, z, more
  <2> QED BY <1>2, <2>1, <2>2
<1>4. ASSUME UNCHANGED <<sq, rq, cqe, cqh>>
      PROVE  Handled(z, y)
  BY <1>4 DEF Handled, Sizes
<1>5. ASSUME NEW m \in Side, QpError({m}, Only(m, Flushed(m, 0))), UNCHANGED cqh
      PROVE  Handled(z, y)
  <2>1. Flushed(m, 0) \in Seq(Wc)
    BY <1>1, FlushedType
  <2>2. Only(m, Flushed(m, 0)) \in [Side -> Seq(Wc)]
    BY <2>1, OnlyType
  <2>3. \A x \in Side : IF x \in {m} THEN \E k \in Nat : Only(m, Flushed(m, 0))[x] = Flushed(x, k)
                                     ELSE Only(m, Flushed(m, 0))[x] = <<>>
    BY <1>1 DEF Only, NoCompletion
  <2> QED BY <1>1, <1>5, <2>2, <2>3, QpErrorSizes
<1>6. CASE ServerMain
  <2>1. CASE ServerRead \/ ServerWrite
    <3>1. PICK op \in Operation : \E buf : PostSend("server", op, buf)
      BY <2>1 DEF ServerRead, ServerWrite, Operation
    <3>2. UNCHANGED <<rq, cqh>> /\ more = 1
      BY <1>1, <2>1 DEF ServerRead, ServerWrite, Goto
    <3>3. Posted(z, y) \/ y = z
      BY <1>1, <3>1, <3>2, PostSendSizes
    <3> HIDE DEF y, z, more
    <3> QED BY <1>2, <3>2, <3>3 DEF Posted, Moved, SizeRecord
  <2>2. CASE PostFirstRecv("server", "accept")
    <3>1. sq' = sq
      BY <2>2 DEF PostFirstRecv
    <3>2. cqe' = cqe \/ AddCompletions(Only("server", <<WcOf("RECV", "flush", NoBuffer)>>))
      BY <2>2 DEF PostFirstRecv, PostRecv
    <3>3. Sends(cqe'["server"]) = Sends(cqe["server"])
      <4>1. CASE cqe' = cqe
        BY <4>1
      <4>2. CASE AddCompletions(Only("server", <<WcOf("RECV", "flush", NoBuffer)>>))
        <5>1. "RECV" \in Operation \cup {"RECV"}
          OBVIOUS
        <5>2. Sends(cqe'["server"]) = Sends(cqe["server"]) + 0
          BY <1>1, <4>2, <5>1, OneEnters
        <5> QED BY <1>1, <5>2, SendsType
      <4> QED BY <3>2, <4>1, <4>2
    <3>4. y.requests = z.requests /\ y.sends = z.sends
      BY <3>1, <3>3 DEF Sizes
    <3> HIDE DEF y, z, more
    <3> QED BY <1>2, <3>4
  <2>3. CASE ~(ServerRead \/ ServerWrite \/ PostFirstRecv("server", "accept"))
    <3>1. \/ UNCHANGED <<sq, rq, cqe, cqh>>
          \/ QpError({"server"}, Only("server", Flushed("server", 0))) /\ UNCHANGED cqh
      BY <1>1, <1>6, <2>3
      DEF ServerMain, ServerStart, ServerBind, ServerRequestWait, ServerRequestCheck,
          ServerSetupQp, QpSetUp, SetupBuffers, ServerAccept, ServerAcceptWait,
          ServerAcceptCheck, ServerPingWait, ServerReadWait,
          ServerWriteWait, ServerNextRound, ServerGoAhead, Disconnect, DisconnectConnection,
          FreeBuffers, FreeQp, FreeCq, ServerDestroyChild, ServerDestroyListener, WaitEvent,
          Goto, cqVars, qpVars, Sent
    <3> QED BY <1>3, <1>4, <1>5, <3>1
  <2> QED BY <2>1, <2>2, <2>3
<1>7. CASE ClientMain
  <2>1. \/ UNCHANGED <<sq, rq, cqe, cqh>>
        \/ QpError({"client"}, Only("client", Flushed("client", 0))) /\ UNCHANGED cqh
        \/ /\ sq'["server"] = sq["server"] /\ rq'["server"] = rq["server"]
           /\ cqe'["server"] = cqe["server"] /\ cqh'["server"] = cqh["server"]
    <3>1. \A add : AddCompletions(Only("client", add)) => cqe'["server"] = cqe["server"] \o <<>>
      BY DEF AddCompletions, Only, NoCompletion
    <3>2. cqe["server"] \o <<>> = cqe["server"]
      BY <1>1
    <3>3. /\ rq \in [Side -> Nat]
          /\ \A op, buf : PostSend("client", op, buf) =>
               sq'["server"] = sq["server"] /\ cqe'["server"] = cqe["server"]
          /\ PostRecv("client") => rq'["server"] = rq["server"] /\ cqe'["server"] = cqe["server"]
      BY <1>1, <3>1, <3>2 DEF PostSend, PostRecv, QpTypeOK
    <3> QED
      BY <1>1, <1>7, <3>3
      DEF ClientMain, ClientStart, ClientBind, ClientBindWait, ClientBindCheck, ClientSetupQp,
          QpSetUp, SetupBuffers, PostFirstRecv, ClientConnect, ClientConnectWait,
          ClientConnectCheck, ClientAdvertise, ClientSend, ClientGoAheadWait, Disconnect,
          DisconnectConnection, FreeBuffers, FreeQp, FreeCq, ClientDestroyId, WaitEvent,
          cqVars, qpVars
  <2>2. CASE /\ sq'["server"] = sq["server"] /\ rq'["server"] = rq["server"]
             /\ cqe'["server"] = cqe["server"] /\ cqh'["server"] = cqh["server"]
    <3>1. Handled(z, y)
      BY <2>2 DEF Handled, Sizes
    <3> QED BY <1>3, <3>1
  <2> QED BY <1>3, <1>4, <1>5, <2>1, <2>2
<1>8. ASSUME NEW s \in Side, megaVM_cq_event_handler(s) \/ Adapter(s)
      PROVE  Handled(z, y)
  BY <1>1, <1>8, CqSizes, AdapterSizes DEF Handled
<1>9. CASE \/ ConnectionEstablished \/ ConnectTimeout \/ UNCHANGED vars
           \/ \E s \in Side : megaVM_cma_event_handler(s) \/ StrayEvent(s) \/ Signal(s)
  <2>1. UNCHANGED <<sq, rq, cqe, cqh>>
    BY <1>9, OtherQueues DEF ConnectionEstablished, ConnectTimeout, vars, cqVars, qpVars
  <2> QED BY <1>3, <1>4, <2>1
<1> QED BY <1>3, <1>6, <1>7, <1>8, <1>9 DEF Next, Progress, Fault, Over, Callbacks

\* While no queue pair has failed, a write that the server posts gets onto its send queue.
LEMMA WritePosted ==
  ASSUME PostsSucceed, EchoInv, Next, ~Broken', ServerWrite
  PROVE  sq'["server"] = Append(sq["server"],
           [op |-> "WRITE", buf |-> advert, phase |-> "posted", val |-> "junk"])
<1> USE SideFacts
<1>1. /\ qp \in [Side -> {"none", "init", "rts", "err", "gone"}] /\ sq \in [Side -> Seq(Wr)]
      /\ TypeInv /\ TypeOK /\ round \in 0 .. Rounds /\ pc["server"] = "write"
  BY EchoFacts DEF QpTypeOK, ServerWrite
<1>2. qp["server"] = "rts"
  <2>1. ~Broken
    BY StaysBroken
  <2>2. qp["server"] \notin {"none", "init"}
    BY <1>1 DEF EchoInv, ServerInv, Working
  <2> QED BY <1>1, <2>1, <2>2 DEF Broken
<1>3. SqInUse("server") < TxDepth /\ ~(SqInUse("server") >= TxDepth)
  <2>1. round < Rounds /\ Rounds \in Nat /\ TxDepth \in Nat /\ 2 * Rounds <= TxDepth
    BY <1>1, IbContextAssumption DEF TypeInv, LoopInv, PostsSucceed
  <2>2. SqInUse("server") <= 2 * round + 1
    BY <1>1 DEF EchoInv, CountInv, RequestsMade, Sent
  <2>3. SqInUse("server") \in Nat
    BY <1>1, SizesType DEF SizeRecord
  <2> HIDE DEF SqInUse
  <2> QED BY <1>1, <2>1, <2>2, <2>3
<1>4. PostSend("server", "WRITE", advert)
  BY DEF ServerWrite
<1>5. <<"server", "post">> \notin Faults
  BY DEF PostsSucceed
<1>6. sq' = [sq EXCEPT !["server"] = Append(@,
        [op |-> "WRITE", buf |-> advert, phase |-> "posted", val |-> "junk"])]
  <2> HIDE DEF SqInUse
  <2> QED BY <1>2, <1>3, <1>4, <1>5, IbContextAssumption DEF PostSend
<1> QED BY <1>1, <1>6

\* Every write that goes out was waiting to, and no other request counts.
LEMMA WriteCounted ==
  ASSUME EchoInv, Next, ~Broken', ~ServerWrite
  PROVE  carried'["WRITE"] + Cardinality(Marked(sq'["server"])) = carried["WRITE"] + WritesLeft
<1> USE SideFacts
<1>1. /\ sq["server"] \in Seq(Wr) /\ sq \in [Side -> Seq(Wr)]
      /\ carried \in [Operation -> Nat] /\ carried["WRITE"] \in Nat /\ WritesLeft \in Nat
      /\ TypeInv /\ ClientSends /\ Within(sq["client"], Adverts)
      /\ Operation = {"SEND", "READ", "WRITE"}
  <2>1. sq["server"] \in Seq(Wr) /\ sq \in [Side -> Seq(Wr)] /\ carried \in [Operation -> Nat]
    BY EchoFacts DEF QpTypeOK
  <2>2. WritesLeft \in Nat
    BY <2>1, MarkedMoves DEF WritesLeft
  <2> QED BY <2>1, <2>2, EchoFacts DEF Operation, EchoInv, QueuedInv
<1>2. QueueMoved(sq'["server"])
  BY <1>1, ServerQueueMoves
<1>3. CASE sq'["server"] = sq["server"] /\ carried' = carried
  BY <1>3 DEF WritesLeft
<1>4. CASE sq'["server"] = <<>> /\ qp'["server"] \in {"err", "gone"}
  BY <1>4 DEF Broken
<1>5. CASE CompleteSend("server")
  <2>1. /\ sq["server"] # <<>> /\ Head(sq["server"]).phase # "posted"
        /\ sq'["server"] = Tail(sq["server"]) /\ carried' = carried
    BY <1>1, <1>5 DEF CompleteSend, bufferVars
  <2>2. Cardinality(Marked(Tail(sq["server"]))) = Cardinality(Marked(sq["server"]))
    BY <1>1, <2>1, MarkedMoves
  <2> QED BY <2>1, <2>2 DEF WritesLeft
<1>6. ASSUME NEW op \in Operation, Put(op), UNCHANGED bufferVars
      PROVE  carried'["WRITE"] + Cardinality(Marked(sq'["server"])) = carried["WRITE"] + WritesLeft
  <2> DEFINE wr == [op |-> op, buf |-> IF op = "SEND" THEN NoBuffer ELSE advert,
                    phase |-> "posted", val |-> "junk"]
  <2>1. wr.op # "WRITE" /\ sq'["server"] = Append(sq["server"], wr) /\ carried' = carried
    BY <1>6 DEF Put, Posts, bufferVars
  <2> HIDE DEF wr
  <2>2. Cardinality(Marked(Append(sq["server"], wr))) = Cardinality(Marked(sq["server"])) + 0
    <3>1. sq["server"] \in Seq(Wr) /\ ~(wr.op = "WRITE" /\ wr.phase = "posted")
      BY <1>1, <2>1
    <3> QED BY <3>1, MarkedMoves
  <2> QED BY <1>1, <2>1, <2>2 DEF WritesLeft
<1>7. ASSUME NEW k \in 1 .. Len(sq["server"]), Transmit("server", k)
      PROVE  carried'["WRITE"] + Cardinality(Marked(sq'["server"])) = carried["WRITE"] + WritesLeft
  <2>1. PICK wr \in Wr :
          /\ sq'["server"] = [sq["server"] EXCEPT ![k] = wr]
          /\ wr.op = sq["server"][k].op
          /\ wr.phase # "posted"
          /\ sq["server"][k].phase = "posted"
    BY <1>7, GoesOut
  <2>2. Cardinality(Marked(sq'["server"])) = WritesLeft - (IF k \in Marked(sq["server"]) THEN 1 ELSE 0)
    BY <1>1, <2>1, MarkedMoves DEF WritesLeft
  <2>3. k \in Marked(sq["server"]) <=> sq["server"][k].op = "WRITE"
    BY <2>1 DEF Marked
  <2>4. carried' = [carried EXCEPT ![sq["server"][k].op] = @ + 1] /\ sq["server"][k].op \in Operation
    BY <1>1, <1>7 DEF Transmit, Wr
  <2>5. carried'["WRITE"] = carried["WRITE"] + (IF sq["server"][k].op = "WRITE" THEN 1 ELSE 0)
    BY <1>1, <2>4
  <2> QED BY <1>1, <2>2, <2>3, <2>5
<1>8. ASSUME NEW k \in 1 .. Len(sq["server"]), ReadArrives("server", k)
      PROVE  carried'["WRITE"] + Cardinality(Marked(sq'["server"])) = carried["WRITE"] + WritesLeft
  <2>1. PICK wr \in Wr : sq'["server"] = [sq["server"] EXCEPT ![k] = wr] /\ wr.phase = "done"
    BY <1>8, ComesIn
  <2>2. k \notin Marked(sq["server"]) /\ carried' = carried
    BY <1>8, ComesIn DEF Marked
  <2>3. Cardinality(Marked([sq["server"] EXCEPT ![k] = wr])) = Cardinality(Marked(sq["server"])) - 0
    <3>1. sq["server"] \in Seq(Wr) /\ k \in 1 .. Len(sq["server"]) /\ wr.phase # "posted"
      BY <1>1, <2>1
    <3>2. Cardinality(Marked([sq["server"] EXCEPT ![k] = wr])) = Cardinality(Marked(sq["server"]))
            - (IF k \in Marked(sq["server"]) THEN 1 ELSE 0)
      BY <3>1, MarkedMoves
    <3> QED BY <2>2, <3>2
  <2> QED BY <1>1, <2>1, <2>2, <2>3 DEF WritesLeft
<1> QED BY <1>2, <1>3, <1>4, <1>5, <1>6, <1>7, <1>8 DEF QueueMoved

\* The counts stay right.
LEMMA CountStep ==
  ASSUME PostsSucceed, EchoInv, Next
  PROVE  CountInv'
<1> USE SideFacts
<1>1. /\ ~Broken => carried["WRITE"] + WritesLeft = WritesMade
      /\ pc["server"] \notin Sent \cup {"oops"} => SqInUse("server") <= RequestsMade
      /\ pc["client"] \in Unsent => carried["SEND"] = 0
      /\ pc \in [Side -> ClientLabel \cup ServerLabel]
  BY EchoFacts DEF EchoInv, CountInv
<1>2. ASSUME ~Broken'
      PROVE  carried'["WRITE"] + WritesLeft' = WritesMade'
  <2>1. WritesLeft' = Cardinality(Marked(sq'["server"]))
    BY DEF WritesLeft, Marked
  <2>2. carried["WRITE"] + WritesLeft = WritesMade
    BY <1>1, <1>2, StaysBroken
  <2>3. ServerWrite <=> pc["server"] = "write" /\ pc'["server"] # pc["server"]
    <3>1. ServerWrite => pc["server"] = "write" /\ pc'["server"] # pc["server"]
      BY <1>1 DEF ServerWrite, Goto
    <3>2. ASSUME pc["server"] = "write", pc'["server"] # pc["server"]
          PROVE  ServerWrite
      <4>1. ServerMain
        BY <3>2, ServerSteps
      <4> QED BY <3>2, <4>1
          DEF ServerMain, ServerStart, ServerBind, ServerRequestWait, ServerRequestCheck,
              ServerSetupQp, SetupBuffers, PostFirstRecv, ServerAccept, ServerAcceptWait,
              ServerAcceptCheck, ServerPingWait, ServerRead, ServerReadWait, ServerNextRound,
              ServerWriteWait, ServerGoAhead, Disconnect, FreeBuffers, FreeQp,
              FreeCq, ServerDestroyChild, ServerDestroyListener, WaitEvent
    <3> QED BY <3>1, <3>2
  <2>4. CASE ServerWrite
    <3> DEFINE wr == [op |-> "WRITE", buf |-> advert, phase |-> "posted", val |-> "junk"]
    <3>1. sq'["server"] = Append(sq["server"], wr)
      BY <1>2, <2>4, WritePosted
    <3>2. carried' = carried
      BY <2>4 DEF ServerWrite, bufferVars
    <3>3. wr.op = "WRITE" /\ wr.phase = "posted"
      OBVIOUS
    <3> HIDE DEF wr
    <3>4. WritesLeft' = WritesLeft + 1
      BY <2>1, <3>1, <3>3, EchoFacts, MarkedMoves DEF WritesLeft
    <3>5. WritesLeft \in Nat /\ carried["WRITE"] \in Nat
      BY EchoFacts, MarkedMoves DEF WritesLeft, Operation
    <3>6. WritesMade' = WritesMade + 1
      BY <2>3, <2>4, MadeGrow
    <3> HIDE DEF WritesLeft, WritesMade
    <3> QED BY <2>2, <3>2, <3>4, <3>5, <3>6
  <2>5. CASE ~ServerWrite
    <3>1. WritesMade' = WritesMade + 0
      BY <2>3, <2>5, MadeGrow
    <3>2. WritesLeft \in Nat /\ carried["WRITE"] \in Nat
      BY EchoFacts, MarkedMoves DEF WritesLeft, Operation
    <3>3. carried'["WRITE"] + WritesLeft' = carried["WRITE"] + WritesLeft
      BY <1>2, <2>1, <2>5, WriteCounted
    <3> HIDE DEF WritesLeft, WritesMade
    <3> QED BY <2>2, <3>1, <3>2, <3>3
  <2> QED BY <2>4, <2>5
<1>3. ASSUME pc'["server"] \notin Sent \cup {"oops"}
      PROVE  SqInUse("server")' <= RequestsMade'
  <2> DEFINE more == IF pc["server"] \in {"read", "write"} /\ pc'["server"] # pc["server"] THEN 1 ELSE 0
  <2>1. SqInUse("server") <= RequestsMade
    BY <1>1, <1>3, MadeGrow
  <2>2. SqInUse("server")' <= SqInUse("server") + more /\ RequestsMade' = RequestsMade + more
    BY <1>3, ServerUses, MadeGrow
  <2>3. SqInUse("server") \in Nat /\ SqInUse("server")' \in Int /\ RequestsMade \in Nat /\ more \in Nat
    <3>1. SqInUse("server") \in Nat
      BY EchoFacts, SizesType DEF SizeRecord
    <3>2. RequestsMade \in Nat
      BY EchoFacts, IbContextAssumption DEF RequestsMade
    <3>3. SqInUse("server")' \in Int
      <4>1. CqTypeOK' /\ QpTypeOK'
        BY EchoFacts, QueueStep
      <4>2. sq'["server"] \in Seq(Wr) /\ cqe'["server"] \in Seq(Wc)
        BY <4>1 DEF CqTypeOK, QpTypeOK
      <4>3. Sends(cqe'["server"]) \in Nat /\ Len(sq'["server"]) \in Nat
        BY <4>2, SendsType
      <4>4. SqInUse("server")' = Len(sq'["server"]) + Sends(cqe'["server"])
        BY DEF SqInUse, Sends
      <4> QED BY <4>3, <4>4
    <3> QED BY <3>1, <3>2, <3>3
  <2> HIDE DEF more, SqInUse, RequestsMade
  <2> QED BY <2>1, <2>2, <2>3
<1>4. ASSUME pc'["client"] \in Unsent
      PROVE  carried'["SEND"] = 0
  <2>1. pc["client"] \in Unsent
    BY <1>4, EchoFacts, UnsentBefore
  <2>2. sq["server"] = <<>> /\ QueueMoved(sq'["server"])
    BY <2>1, NothingToDo, EchoFacts, ServerQueueMoves DEF EchoInv, QueuedInv
  <2>3. carried' = carried
    BY <2>2 DEF QueueMoved, CompleteSend, bufferVars
  <2> QED BY <1>1, <2>1, <2>3
<1> QED BY <1>2, <1>3, <1>4 DEF CountInv

-----------------------------------------------------------------------------
(* The invariant of a session.                                            *)

\* The invariant of the data holds at the start.
LEMMA EchoInit ==
  ASSUME Init, AdvertInv, GoAheadInv
  PROVE  EchoInv
<1> USE SideFacts
<1>1. /\ pc = [s \in Side |-> "start"] /\ state = [s \in Side |-> IDLE] /\ round = 0
      /\ sq = [s \in Side |-> <<>>] /\ cqe = [s \in Side |-> <<>>] /\ cmq = [s \in Side |-> <<>>]
      /\ qp = [s \in Side |-> "none"] /\ conn = "none" /\ carried["WRITE"] = 0
      /\ carried["SEND"] = 0
  BY DEF Init, InitContext, Operation
<1>2. QueuedInv
  BY <1>1 DEF QueuedInv, Within, ReadsFirst
<1>3. ServerInv
  BY <1>1
  DEF ServerInv, Opening, Leaving, Working, Has, IDLE, CONNECT_REQUEST, ADDR_RESOLVED,
      ROUTE_RESOLVED, CONNECTED, RDMA_READ_ADV, RDMA_READ_COMPLETE, RDMA_WRITE_COMPLETE, ERROR
<1>4. ClientInv
  BY <1>1 DEF ClientInv, Registered
<1>5. CountInv
  <2>1. WritesLeft = 0
    BY <1>1, FS_EmptySet DEF WritesLeft, Marked
  <2>2. SqInUse("server") = 0
    BY <1>1, SendsFew DEF SqInUse
  <2>3. WritesMade = 0 /\ RequestsMade = 0
    BY <1>1 DEF WritesMade, RequestsMade
  <2> QED BY <1>1, <2>1, <2>2, <2>3 DEF CountInv
<1> QED BY <1>2, <1>3, <1>4, <1>5 DEF EchoInv

\* EchoInv is inductive, given the invariants of the advertisement and of the go-ahead.
THEOREM EchoInvariance ==
  ASSUME NothingCutShort, PostsSucceed
  PROVE  Spec => []EchoInv
<1>1. Init /\ AdvertInv /\ GoAheadInv => EchoInv
  BY EchoInit
<1>2. EchoInv /\ [Next]_vars /\ AdvertInv' /\ GoAheadInv' => EchoInv'
  <2>1. CASE EchoInv /\ Next /\ AdvertInv' /\ GoAheadInv'
    BY <2>1, QueuedStep, ServerPartStep, EchoClientStep, CountStep DEF EchoInv
  <2>2. CASE EchoInv /\ UNCHANGED vars /\ AdvertInv' /\ GoAheadInv'
    <3>1. QueuedInv'
      BY <2>2
      DEF EchoInv, QueuedInv, Within, Adverts, Asks, News, ReadsFirst, Shared, Copied, Known,
          Broken, vars, contextVars, bufferVars, cqVars, qpVars
    <3>2. ServerInv'
      BY <2>2
      DEF EchoInv, ServerInv, Has, Shared, Copied, Known, Broken, vars, threadVars, contextVars,
          bufferVars, cmVars, qpVars
    <3>3. ClientInv'
      BY <2>2 DEF EchoInv, ClientInv, vars, threadVars, contextVars, cmVars, qpVars
    <3>4. CountInv'
      BY <2>2
      DEF EchoInv, CountInv, Broken, WritesLeft, Marked, WritesMade, RequestsMade, SqInUse, Sends,
          vars, threadVars, bufferVars, cqVars, qpVars
    <3> QED BY <2>2, <3>1, <3>2, <3>3, <3>4 DEF EchoInv
  <2> QED BY <2>1, <2>2
<1> QED BY <1>1, <1>2, AdvertInvariance, GoAheadInvariance, PTL DEF Spec

\* The data of a read is on its way back.
Fetching(q) == \E k \in 1 .. Len(q) : q[k].phase = "fetched"

-----------------------------------------------------------------------------
(* The step simulation.                                                   *)

\* It is the ping.
LEMMA ReplyIs ==
  /\ QueuedInv => Reply = IF Fetching(sq["server"]) THEN "ping" ELSE "none"
  /\ QueuedInv' => Reply' = IF Fetching(sq'["server"]) THEN "ping" ELSE "none"
<1>1. ASSUME NEW q, Fetching(q),
             \A k \in 1 .. Len(q) : q[k].phase = "fetched" => q[k].val = "ping"
      PROVE  q[CHOOSE k \in 1 .. Len(q) : q[k].phase = "fetched"].val = "ping"
  <2> DEFINE c == CHOOSE k \in 1 .. Len(q) : q[k].phase = "fetched"
  <2>1. c \in 1 .. Len(q) /\ q[c].phase = "fetched"
    BY <1>1 DEF Fetching
  <2> QED BY <1>1, <2>1
<1>2. ASSUME QueuedInv
      PROVE  \A k \in 1 .. Len(sq["server"]) :
               sq["server"][k].phase = "fetched" => sq["server"][k].val = "ping"
  BY <1>2 DEF QueuedInv, Within, Asks
<1>3. ASSUME QueuedInv'
      PROVE  \A k \in 1 .. Len(sq'["server"]) :
               sq'["server"][k].phase = "fetched" => sq'["server"][k].val = "ping"
  BY <1>3 DEF QueuedInv, Within, Asks
<1>4. ASSUME QueuedInv
      PROVE  Reply = IF Fetching(sq["server"]) THEN "ping" ELSE "none"
  BY <1>1, <1>2, <1>4 DEF Reply, Fetching
<1>5. ASSUME QueuedInv'
      PROVE  Reply' = IF Fetching(sq'["server"]) THEN "ping" ELSE "none"
  BY <1>1, <1>3, <1>5 DEF Reply, Fetching
<1> QED BY <1>4, <1>5

\* Whether a read is on its way back after a request has changed, come or gone.
LEMMA FetchingMoves ==
  ASSUME NEW q \in Seq(Wr), ReadsFirst(q)
  PROVE  /\ ~Fetching(<<>>)
         /\ q # <<>> => (Fetching(Tail(q)) => Fetching(q))
         /\ \A wr : wr.phase # "fetched" => (Fetching(Append(q, wr)) => Fetching(q))
         /\ \A k \in 1 .. Len(q) : \A wr :
              /\ q[k].phase # "fetched" /\ wr.phase # "fetched" =>
                   (Fetching([q EXCEPT ![k] = wr]) <=> Fetching(q))
              /\ wr.phase = "fetched" => Fetching([q EXCEPT ![k] = wr])
              /\ q[k].phase = "fetched" /\ wr.phase # "fetched" =>
                   ~Fetching([q EXCEPT ![k] = wr])
              /\ q[k].phase = "posted" /\ (\A j \in 1 .. k - 1 : q[j].phase = "done") =>
                   ~Fetching(q)
<1>1. ~Fetching(<<>>)
  BY DEF Fetching
<1>2. ASSUME q # <<>>, Fetching(Tail(q))
      PROVE  Fetching(q)
  <2>1. \A i \in 1 .. Len(Tail(q)) : i + 1 \in 1 .. Len(q) /\ Tail(q)[i] = q[i + 1]
    BY <1>2
  <2> QED BY <1>2, <2>1 DEF Fetching
<1>3. ASSUME NEW wr, wr.phase # "fetched", Fetching(Append(q, wr))
      PROVE  Fetching(q)
  <2>1. /\ Len(Append(q, wr)) = Len(q) + 1 /\ Len(q) \in Nat
        /\ \A i \in 1 .. Len(q) : Append(q, wr)[i] = q[i]
        /\ Append(q, wr)[Len(q) + 1] = wr
    OBVIOUS
  <2>2. PICK i \in 1 .. Len(q) + 1 : Append(q, wr)[i].phase = "fetched"
    BY <1>3, <2>1 DEF Fetching
  <2>3. i \in 1 .. Len(q)
    BY <1>3, <2>1, <2>2
  <2> QED BY <2>1, <2>2, <2>3 DEF Fetching
<1>4. ASSUME NEW k \in 1 .. Len(q), NEW wr
      PROVE  /\ q[k].phase # "fetched" /\ wr.phase # "fetched" =>
                  (Fetching([q EXCEPT ![k] = wr]) <=> Fetching(q))
             /\ wr.phase = "fetched" => Fetching([q EXCEPT ![k] = wr])
             /\ q[k].phase = "fetched" /\ wr.phase # "fetched" =>
                  ~Fetching([q EXCEPT ![k] = wr])
             /\ q[k].phase = "posted" /\ (\A j \in 1 .. k - 1 : q[j].phase = "done") =>
                  ~Fetching(q)
  <2> DEFINE r == [q EXCEPT ![k] = wr]
  <2>1. /\ Len(r) = Len(q) /\ Len(q) \in Nat
        /\ \A i \in 1 .. Len(q) : r[i] = IF i = k THEN wr ELSE q[i]
    OBVIOUS
  <2> HIDE DEF r
  <2>2. q[k].phase # "fetched" /\ wr.phase # "fetched" => (Fetching(r) <=> Fetching(q))
    BY <2>1 DEF Fetching
  <2>3. wr.phase = "fetched" => Fetching(r)
    BY <2>1 DEF Fetching
  <2>4. ASSUME q[k].phase = "fetched", NEW i \in 1 .. Len(q), i # k, q[i].phase = "fetched"
        PROVE  FALSE
    <3>1. CASE i < k
      <4>1. i \in 1 .. k - 1
        BY <3>1
      <4> QED BY <2>4, <4>1 DEF ReadsFirst
    <3>2. CASE i > k
      <4>1. k \in 1 .. i - 1
        BY <3>2
      <4> QED BY <2>4, <4>1 DEF ReadsFirst
    <3> QED BY <2>4, <3>1, <3>2
  <2>5. q[k].phase = "fetched" /\ wr.phase # "fetched" => ~Fetching(r)
    BY <2>1, <2>4 DEF Fetching
  <2>6. ASSUME q[k].phase = "posted", \A j \in 1 .. k - 1 : q[j].phase = "done",
               NEW i \in 1 .. Len(q), q[i].phase = "fetched"
        PROVE  FALSE
    <3>1. ~(i < k) /\ i # k
      <4>1. i < k => i \in 1 .. k - 1
        OBVIOUS
      <4> QED BY <2>6, <4>1
    <3>2. k \in 1 .. i - 1
      BY <3>1
    <3> QED BY <2>6, <3>2 DEF ReadsFirst
  <2>7. q[k].phase = "posted" /\ (\A j \in 1 .. k - 1 : q[j].phase = "done") => ~Fetching(q)
    BY <2>6 DEF Fetching
  <2> QED BY <2>2, <2>3, <2>5, <2>7 DEF r
<1> QED BY <1>1, <1>2, <1>3, <1>4

\* The steps of the client's thread, as far as the window can tell them apart.
LEMMA ClientSteps ==
  ASSUME EchoInv, ClientMain
  PROVE  \/ ClientSend
         \/ pc["client"] \in Unsent /\ pc'["client"] \notin {"goahead_wait", "disconnect"}
         \/ /\ pc["client"] = "goahead_wait" /\ pc'["client"] \in {"goahead_wait", "disconnect"}
            /\ qp' = qp
         \/ pc["client"] = "disconnect" /\ pc'["client"] = "free_buffers"
         \/ /\ pc["client"] \notin Unsent \cup {"goahead_wait", "disconnect"}
            /\ pc'["client"] \notin Unsent \cup {"goahead_wait", "disconnect"}
<1> USE SideFacts
<1>1. pc \in [Side -> ClientLabel \cup ServerLabel]
  BY EchoFacts
<1>2. CASE \/ ClientStart \/ ClientBind \/ ClientBindWait \/ ClientBindCheck \/ ClientSetupQp
           \/ SetupBuffers("client") \/ PostFirstRecv("client", "connect")
           \/ ClientConnect \/ ClientConnectWait \/ ClientConnectCheck \/ ClientAdvertise
  BY <1>1, <1>2
  DEF ClientStart, ClientBind, ClientBindWait, ClientBindCheck, ClientSetupQp, QpSetUp,
      SetupBuffers, PostFirstRecv, ClientConnect, ClientConnectWait, ClientConnectCheck,
      ClientAdvertise, WaitEvent, Goto, Unsent, PreConnect
<1>3. CASE ClientGoAheadWait \/ Disconnect("client")
  BY <1>1, <1>3 DEF ClientGoAheadWait, Disconnect, WaitEvent, Goto, qpVars
<1>4. CASE FreeBuffers("client") \/ FreeQp("client") \/ FreeCq("client", "destroy_id")
           \/ ClientDestroyId
  BY <1>1, <1>4 DEF FreeBuffers, FreeQp, FreeCq, ClientDestroyId, Goto, Unsent, PreConnect
<1> QED BY <1>2, <1>3, <1>4 DEF ClientMain

\* The server's queue in a step of the client's thread.
LEMMA ClientLeavesQueue ==
  ASSUME EchoInv, ClientMain
  PROVE  sq'["server"] = sq["server"]
<1> USE SideFacts
<1>1. sq \in [Side -> Seq(Wr)]
  BY EchoFacts DEF QpTypeOK
<1>2. \A op, buf : PostSend("client", op, buf) => sq'["server"] = sq["server"]
  BY <1>1 DEF PostSend
<1> QED
  BY <1>1, <1>2
  DEF ClientMain, ClientStart, ClientBind, ClientBindWait, ClientBindCheck, ClientSetupQp,
      QpSetUp, SetupBuffers, PostFirstRecv, ClientConnect, ClientConnectWait,
      ClientConnectCheck, ClientAdvertise, ClientSend, ClientGoAheadWait, Disconnect,
      DisconnectConnection, QpError, FreeBuffers, FreeQp, FreeCq, ClientDestroyId, WaitEvent,
      cqVars, qpVars

\* The window, by the labels the proofs use.
LEMMA WindowIs ==
  /\ Window =
       IF pc["client"] \in Unsent THEN "private"
       ELSE IF pc["client"] \notin {"goahead_wait", "disconnect"} \/ qp["client"] = "err"
       THEN "closed"
       ELSE IF carried["SEND"] = 0 THEN "open" ELSE "done"
  /\ Window' =
       IF pc'["client"] \in Unsent THEN "private"
       ELSE IF pc'["client"] \notin {"goahead_wait", "disconnect"} \/ qp'["client"] = "err"
       THEN "closed"
       ELSE IF carried'["SEND"] = 0 THEN "open" ELSE "done"
BY DEF Window, Unsent, PreConnect

\* A step of the client's thread publishes the buffer, withdraws it, or is none of
\* PingPong's.
LEMMA ClientMaps ==
  ASSUME EchoInv, Next, QueuedInv', ClientMain
  PROVE  PP!Next \/ UNCHANGED PP!vars
<1> USE SideFacts
<1>1. Reply' = Reply
  <2>1. QueuedInv /\ sq'["server"] = sq["server"]
    BY ClientLeavesQueue DEF EchoInv
  <2> QED BY <2>1, ReplyIs
<1>2. CASE ClientSend
  <2>1. pc["client"] = "send" /\ pc'["client"] = "goahead_wait" /\ qp' = qp
    BY <1>2, EchoFacts DEF ClientSend, Goto
  <2>2. Window = "private"
    BY <2>1, WindowIs DEF Unsent
  <2>3. carried' = carried /\ carried["SEND"] = 0 /\ qp["client"] # "err"
    BY <1>2, <2>1 DEF ClientSend, EchoInv, CountInv, ClientInv, Unsent
  <2>4. Window' = "open"
    BY <2>1, <2>3, WindowIs DEF Unsent, PreConnect
  <2>5. mem'["start_buf"] = "ping"
    <3>1. "start_buf" \in Buffer /\ mem \in [Buffer -> Content]
      BY EchoFacts DEF Buffer
    <3> QED BY <1>2, <3>1 DEF ClientSend
  <2>6. rdmaBuf' = rdmaBuf
    BY <1>2 DEF ClientSend
  <2>7. PP!Publish
    BY <1>1, <2>2, <2>3, <2>4, <2>5, <2>6 DEF PP!Publish
  <2> QED BY <2>7 DEF PP!Next
<1>3. CASE ~ClientSend
  <2>1. UNCHANGED bufferVars
    BY <1>3, ClientBuffer
  <2>2. Window' = Window \/ (Window # "closed" /\ Window' = "closed")
    <3>1. CASE pc["client"] \in Unsent /\ pc'["client"] \notin {"goahead_wait", "disconnect"}
      BY <3>1, WindowIs
    <3>2. CASE /\ pc["client"] = "goahead_wait" /\ pc'["client"] \in {"goahead_wait", "disconnect"}
               /\ qp' = qp
      BY <2>1, <3>2, WindowIs DEF Unsent, PreConnect, bufferVars
    <3>3. CASE pc["client"] = "disconnect" /\ pc'["client"] = "free_buffers"
      <4>1. Window' = "closed"
        BY <3>3, WindowIs DEF Unsent, PreConnect
      <4> QED BY <4>1
    <3>4. CASE /\ pc["client"] \notin Unsent \cup {"goahead_wait", "disconnect"}
               /\ pc'["client"] \notin Unsent \cup {"goahead_wait", "disconnect"}
      BY <3>4, WindowIs
    <3> QED BY <1>3, <3>1, <3>2, <3>3, <3>4, ClientSteps
  <2>3. mem' = mem /\ rdmaBuf' = rdmaBuf /\ carried' = carried
    BY <2>1 DEF bufferVars
  <2> QED BY <1>1, <2>2, <2>3 DEF PP!Next, PP!Withdraw, PP!vars
<1> QED BY <1>2, <1>3

\* A request of the server that goes out is PingPong's fetch, echo or go-ahead.
LEMMA GoesOutMaps ==
  ASSUME EchoInv, Next, QueuedInv', NEW k \in 1 .. Len(sq["server"]), Transmit("server", k)
  PROVE  PP!Next
<1> USE SideFacts
<1> DEFINE q == sq["server"]
<1>1. /\ qp["client"] = "rts" /\ ~Broken /\ qp' = qp /\ pc' = pc
      /\ q[k] \in Asks /\ Known /\ q[k].phase = "posted"
      /\ pc["client"] \in {"goahead_wait", "disconnect"}
  BY CarriedOut
<1>2. /\ q \in Seq(Wr) /\ carried \in [Operation -> Nat] /\ Operation = {"SEND", "READ", "WRITE"}
      /\ mem \in [Buffer -> Content] /\ round \in 0 .. Rounds /\ Rounds \in Nat
      /\ QueuedInv /\ ReadsFirst(q)
  BY EchoFacts, IbContextAssumption DEF Operation, EchoInv, QueuedInv
<1>3. carried["SEND"] = 0
  <2>1. ~(carried["SEND"] > 0)
    BY <1>1 DEF EchoInv, GoAheadInv, NothingAfterSend
  <2> QED BY <1>2, <2>1
<1>4. Window = "open"
  BY <1>1, <1>3, WindowIs DEF Unsent, PreConnect
<1>5. PICK wr \in Wr :
        /\ sq'["server"] = [q EXCEPT ![k] = wr]
        /\ wr.op = q[k].op /\ wr.buf = q[k].buf
        /\ IF wr.op = "READ" THEN wr.phase = "fetched" /\ wr.val = mem["start_buf"]
                             ELSE wr.phase = "done"
        /\ q[k].phase = "posted"
        /\ \A j \in 1 .. k - 1 : q[j].phase # "posted"
        /\ wr.op = "READ" => \A j \in 1 .. k - 1 : q[j].phase = "done"
  BY GoesOut
<1>6. carried' = [carried EXCEPT ![q[k].op] = @ + 1] /\ q[k].op \in Operation
  BY <1>2 DEF Transmit, Wr
<1>7. mem["start_buf"] = "ping"
  BY <1>1 DEF Known, Shared
<1>8. mem'["start_buf"] = "ping"
  BY <1>7, PingStays DEF Shared
<1>9. rdmaBuf' = rdmaBuf
  BY DEF Transmit
<1>10. WritesLeft \in Nat /\ carried["WRITE"] \in Nat /\ carried["WRITE"] + WritesLeft = WritesMade
  BY <1>1, <1>2, MarkedMoves DEF EchoInv, CountInv, WritesLeft
<1>11. CASE q[k].op = "READ"
  <2>1. ~Fetching(q) /\ Fetching(sq'["server"])
    BY <1>1, <1>2, <1>5, <1>11, FetchingMoves
  <2>2. Reply = "none" /\ Reply' = "ping"
    BY <1>2, <2>1, ReplyIs
  <2>3. carried'["SEND"] = carried["SEND"] /\ carried'["WRITE"] = carried["WRITE"]
    BY <1>2, <1>6, <1>11
  <2>4. Window' = "open"
    BY <1>1, <1>3, <2>3, WindowIs DEF Unsent, PreConnect
  <2> QED BY <1>4, <1>7, <1>8, <1>9, <2>2, <2>3, <2>4 DEF PP!Next, PP!Fetch
<1>12. ASSUME q[k].op # "READ"
       PROVE  Reply' = Reply
  <2>1. Fetching(sq'["server"]) <=> Fetching(q)
    BY <1>1, <1>2, <1>5, <1>12, FetchingMoves
  <2> QED BY <1>2, <2>1, ReplyIs
<1>13. CASE q[k].op = "WRITE"
  <2>1. rdmaBuf = "ping"
    BY <1>1, <1>13 DEF Asks, Copied
  <2>2. carried'["SEND"] = carried["SEND"] /\ carried'["WRITE"] = carried["WRITE"] + 1
    BY <1>2, <1>6, <1>13
  <2>3. Window' = "open"
    BY <1>1, <1>3, <2>2, WindowIs DEF Unsent, PreConnect
  <2>4. carried["WRITE"] < Rounds
    <3>1. k \in Marked(q)
      BY <1>1, <1>13 DEF Marked
    <3>2. WritesLeft # 0
      BY <1>2, <3>1, MarkedMoves, FS_EmptySet DEF WritesLeft
    <3>3. WritesMade \in Nat /\ WritesMade <= Rounds
      <4>1. pc["server"] \in {"write_wait", "next_round"} => round < Rounds
        BY EchoFacts DEF TypeInv, LoopInv
      <4> QED BY <1>2, <4>1 DEF WritesMade
    <3> HIDE DEF WritesLeft, WritesMade
    <3> QED BY <1>2, <1>10, <3>2, <3>3
  <2> QED BY <1>4, <1>7, <1>8, <1>9, <1>12, <1>13, <2>1, <2>2, <2>3, <2>4 DEF PP!Next, PP!Echo
<1>14. CASE q[k].op = "SEND"
  <2>1. k = Len(q) /\ pc["server"] \in Sent /\ round = Rounds
    BY <1>14 DEF EchoInv, GoAheadInv, SendIsLast, ServerInv
  <2>2. carried'["SEND"] = 1 /\ carried'["WRITE"] = carried["WRITE"]
    BY <1>2, <1>3, <1>6, <1>14
  <2>3. Window' = "done"
    BY <1>1, <2>2, WindowIs DEF Unsent, PreConnect
  <2>4. WritesLeft = 0
    <3>1. Marked(q) = {}
      <4>1. ASSUME NEW j \in Marked(q) PROVE FALSE
        <5>1. j \in 1 .. Len(q) /\ q[j].op = "WRITE" /\ q[j].phase = "posted"
          BY DEF Marked
        <5>2. j # k /\ Len(q) \in Nat
          BY <1>2, <1>14, <5>1
        <5>3. j \in 1 .. k - 1
          BY <2>1, <5>1, <5>2
        <5> QED BY <1>5, <5>1, <5>3
      <4> QED BY <4>1
    <3> QED BY <3>1, FS_EmptySet DEF WritesLeft
  <2>5. carried["WRITE"] = Rounds
    <3>1. WritesMade = Rounds
      BY <1>2, <2>1 DEF WritesMade, Sent
    <3> HIDE DEF WritesLeft, WritesMade
    <3> QED BY <1>2, <1>10, <2>4, <3>1
  <2>6. Reply' = Reply
    BY <1>12, <1>14
  <2> QED BY <1>4, <1>7, <1>8, <1>9, <2>2, <2>3, <2>5, <2>6 DEF PP!Next, PP!GoAhead
<1> QED BY <1>2, <1>6, <1>11, <1>13, <1>14

\* Data that comes in is PingPong's arrival.
LEMMA ComesInMaps ==
  ASSUME EchoInv, Next, QueuedInv', NEW k \in 1 .. Len(sq["server"]), ReadArrives("server", k)
  PROVE  PP!Next
<1> DEFINE q == sq["server"]
<1>1. PICK wr \in Wr : sq'["server"] = [q EXCEPT ![k] = wr] /\ wr.phase = "done"
  BY ComesIn
<1>2. /\ q[k].phase = "fetched" /\ Copied' /\ UNCHANGED <<qp, mem, carried, pc>>
      /\ QueuedInv /\ q \in Seq(Wr) /\ ReadsFirst(q)
  BY ComesIn, EchoFacts DEF EchoInv, QueuedInv
<1>3. Fetching(q) /\ ~Fetching(sq'["server"])
  <2>1. Fetching(q)
    BY <1>2 DEF Fetching
  <2>2. ~Fetching([q EXCEPT ![k] = wr])
    BY <1>1, <1>2, FetchingMoves
  <2> QED BY <1>1, <2>1, <2>2
<1>4. Reply = "ping" /\ Reply' = "none"
  BY <1>2, <1>3, ReplyIs
<1>5. Window' = Window
  BY <1>2, WindowIs
<1>6. rdmaBuf' = "ping"
  BY <1>2 DEF Copied
<1> QED BY <1>2, <1>4, <1>5, <1>6 DEF PP!Next, PP!Arrive

\* When the client's adapter fails, its window closes.
LEMMA ClientFails ==
  ASSUME EchoInv, Next, QueuedInv', NEW k \in 1 .. Len(sq["client"]), TransmitFails("client", k)
  PROVE  PP!Next \/ UNCHANGED PP!vars
<1> USE SideFacts
<1>1. ~AccessRefused("client", sq["client"][k])
  BY NoneRefused
<1>2. /\ qp'["client"] = "err" /\ sq'["server"] = sq["server"]
      /\ UNCHANGED <<bufferVars, pc>>
  BY <1>1 DEF TransmitFails, QpError, threadVars
<1>3. Reply' = Reply
  BY <1>2, ReplyIs DEF EchoInv
<1>4. Window' = Window \/ (Window # "closed" /\ Window' = "closed")
  BY <1>2, WindowIs
<1>5. mem' = mem /\ rdmaBuf' = rdmaBuf /\ carried' = carried
  BY <1>2 DEF bufferVars
<1> QED BY <1>3, <1>4, <1>5 DEF PP!Next, PP!Withdraw, PP!vars

\* Nothing else moves the window.
LEMMA WindowStays ==
  ASSUME EchoInv, Next, ~ClientMain, carried' = carried,
         ~\E k \in 1 .. Len(sq["client"]) : TransmitFails("client", k)
  PROVE  Window' = Window
<1> USE SideFacts
<1>1. pc'["client"] = pc["client"] /\ TypeInv
  BY EchoFacts, ThreadMoves
<1>2. CASE qp'["client"] = qp["client"]
  BY <1>1, <1>2, WindowIs
<1>3. CASE pc["client"] \notin {"goahead_wait", "disconnect"}
  BY <1>1, <1>3, WindowIs
<1>4. ASSUME qp'["client"] # qp["client"], pc["client"] \in {"goahead_wait", "disconnect"}
      PROVE  FALSE
  <2>1. ~FreeQp("client") /\ pc["client"] # "setup_qp" /\ ~(pc'["client"] = "free_buffers")
    BY <1>1, <1>4 DEF FreeQp
  <2>2. ~ConnectionEstablished
    BY <1>4, EstablishedInWait
  <2>3. PICK x \in Side : \E k \in 1 .. Len(sq[x]) : TransmitFails(x, k)
    BY <1>1, <1>4, <2>1, <2>2, QpGoes
  <2>4. x = "server"
    BY <2>3
  <2>5. PICK k \in 1 .. Len(sq["server"]) : TransmitFails("server", k)
    BY <2>3, <2>4
  <2>6. ~AccessRefused("server", sq["server"][k])
    BY NoneRefused
  <2>7. qp'["client"] = qp["client"]
    BY <2>5, <2>6 DEF TransmitFails, QpError
  <2> QED BY <1>4, <2>7
<1> QED BY <1>2, <1>3, <1>4

\* In any other step a read may at most be given up.
LEMMA OtherMaps ==
  ASSUME EchoInv, Next, QueuedInv', ~ClientMain,
         ~\E k \in 1 .. Len(sq["client"]) : TransmitFails("client", k),
         ~\E k \in 1 .. Len(sq["server"]) : Transmit("server", k) \/ ReadArrives("server", k)
  PROVE  PP!Next \/ UNCHANGED PP!vars
<1> USE SideFacts
<1> DEFINE q == sq["server"]
<1>1. /\ q \in Seq(Wr) /\ sq \in [Side -> Seq(Wr)] /\ QueuedInv /\ ReadsFirst(q)
      /\ QueueMoved(sq'["server"])
  BY EchoFacts, ServerQueueMoves DEF EchoInv, QueuedInv, QpTypeOK
<1>2. UNCHANGED bufferVars /\ (Fetching(sq'["server"]) => Fetching(q))
  <2>1. CASE sq'["server"] = q /\ UNCHANGED <<rdmaBuf, carried>> /\ (mem' = mem \/ ClientSend)
    BY <2>1 DEF ClientMain, bufferVars
  <2>2. CASE sq'["server"] = <<>> /\ UNCHANGED bufferVars
    BY <1>1, <2>2, FetchingMoves
  <2>3. CASE CompleteSend("server")
    <3>1. q # <<>> /\ sq'["server"] = Tail(q) /\ UNCHANGED bufferVars
      BY <1>1, <2>3 DEF CompleteSend
    <3> QED BY <1>1, <3>1, FetchingMoves
  <2>4. ASSUME NEW op \in Operation, Put(op), UNCHANGED bufferVars
        PROVE  Fetching(sq'["server"]) => Fetching(q)
    <3> DEFINE wr == [op |-> op, buf |-> IF op = "SEND" THEN NoBuffer ELSE advert,
                      phase |-> "posted", val |-> "junk"]
    <3>1. sq'["server"] = Append(q, wr) /\ wr.phase # "fetched"
      BY <2>4 DEF Put
    <3> HIDE DEF wr
    <3> QED BY <1>1, <3>1, FetchingMoves
  <2> QED BY <1>1, <2>1, <2>2, <2>3, <2>4 DEF QueueMoved
<1>3. mem' = mem /\ rdmaBuf' = rdmaBuf /\ carried' = carried
  BY <1>2 DEF bufferVars
<1>4. Window' = Window
  BY <1>3, WindowStays
<1>5. Reply' = Reply \/ (Reply # "none" /\ Reply' = "none")
  BY <1>1, <1>2, ReplyIs
<1> QED BY <1>3, <1>4, <1>5 DEF PP!Next, PP!Lose, PP!vars

\* While no signal and no timeout cuts a wait short and the server's posts are not refused,
\* the session does what PingPong promises, whatever else fails: the client's buffer keeps
\* the ping through every read and write of the server, the server writes back what it has
\* read, Rounds times before the go-ahead, and touches the buffer no more after that or
\* after the client's end of the connection is down.
THEOREM EchoesPing ==
  ASSUME NothingCutShort, PostsSucceed
  PROVE  Spec => ImplementsPingPong
<1>1. Init => PP!Init
  <2> SUFFICES ASSUME Init PROVE PP!Init
    OBVIOUS
  <2>1. /\ pc["client"] = "start" /\ mem["start_buf"] = "junk" /\ rdmaBuf = "junk"
        /\ carried["WRITE"] = 0 /\ sq["server"] = <<>>
    BY SideFacts DEF Init, InitContext, Buffer, Operation
  <2>2. Window = "private"
    BY <2>1, WindowIs DEF Unsent, PreConnect
  <2>3. Reply = "none"
    BY <2>1 DEF Reply
  <2> QED BY <2>1, <2>2, <2>3 DEF PP!Init
<1>2. EchoInv /\ [Next]_vars => [PP!Next]_PP!vars
  <2> SUFFICES ASSUME EchoInv, [Next]_vars
               PROVE  PP!Next \/ UNCHANGED PP!vars
    OBVIOUS
  <2>1. CASE Next
    <3>1. QueuedInv'
      BY <2>1, QueuedStep
    <3> QED BY <2>1, <3>1, ClientMaps, GoesOutMaps, ComesInMaps, ClientFails, OtherMaps
  <2>2. CASE UNCHANGED vars
    <3>1. UNCHANGED <<pc, qp, carried, mem, rdmaBuf, sq>>
      BY <2>2 DEF vars, threadVars, qpVars, bufferVars
    <3>2. Window' = Window /\ Reply' = Reply
      BY <3>1 DEF Window, Reply
    <3> QED BY <3>1, <3>2 DEF PP!vars
  <2> QED BY <2>1, <2>2
<1> QED BY <1>1, <1>2, EchoInvariance, PTL DEF Spec, ImplementsPingPong, PP!Spec
=============================================================================
