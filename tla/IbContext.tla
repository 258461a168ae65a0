----------------------------- MODULE IbContext -----------------------------
(***************************************************************************)
(* struct ib_context of the two kernel modules, one per side, and the      *)
(* threads that share it: the thread that loads the module ("main"), the   *)
(* rdma_cm callback and the completion-queue callback.  Each module below  *)
(* that EXTENDS this one adds the steps of one of them.                    *)
(***************************************************************************)
EXTENDS Integers, Sequences, FiniteSets

CONSTANTS
  Rounds,    \* read+write rounds of the server (10 in start_MegaVM_server)
  TxDepth,   \* txdepth: depth of the send queue (RPING_SQ_DEPTH, 64)
  Faults     \* which side may suffer which external fault

Side == {"client", "server"}
Peer(s) == IF s = "client" THEN "server" ELSE "client"

FaultKind == {
  "signal",   \* the thread that loads the module gets a signal
  "setup",    \* a verbs object or a buffer cannot be allocated
  "post",     \* ib_post_send refuses a work request though the queue has room
  "recv",     \* ib_post_recv refuses a receive
  "resolve",  \* address or route resolution fails, at once or later
  "connect",  \* rdma_connect, rdma_accept, rdma_bind_addr or rdma_listen fails
  "timeout",  \* the connection request is given up before it is answered
  "stray"}    \* events that call for nothing: device removal, end of timewait

ASSUME IbContextAssumption ==
  /\ Rounds \in Nat \ {0}
  /\ TxDepth \in Nat \ {0}
  /\ Faults \subseteq Side \X FaultKind

\* enum test_state: the waits compare these with >=, so their order matters.
IDLE == 1
CONNECT_REQUEST == 2
ADDR_RESOLVED == 3
ROUTE_RESOLVED == 4
CONNECTED == 5
RDMA_READ_ADV == 6
RDMA_READ_COMPLETE == 7
RDMA_WRITE_ADV == 8
RDMA_WRITE_COMPLETE == 9
ERROR == 10
TestState == IDLE .. ERROR

(***************************************************************************)
(* What a side allocates and must give back.                               *)
(***************************************************************************)
Mapping == {"recv_map", "send_map", "rdma_map", "start_map"}
Memory == {"rdma_buf", "start_buf"}
VerbsObject == {"pd", "cq", "qp", "dma_mr"}
Resource == Mapping \cup Memory \cup VerbsObject \cup {"context", "cm_id", "child"}

\* The buffers the client can advertise: start_buf, the source of the ping, and
\* rdma_buf, the sink.  NoBuffer is the zeroed remote_rkey/remote_addr.
Buffer == {"start_buf", "rdma_buf"}
NoBuffer == "no_buffer"
Content == {"junk", "ping"}

Operation == {"SEND", "READ", "WRITE"}

Wr == [op : Operation, buf : Buffer \cup {NoBuffer},
       phase : {"posted", "fetched", "done"}, val : Content]
Wc == [op : Operation \cup {"RECV"}, status : {"ok", "err", "flush"},
       info : Buffer \cup {NoBuffer}]

CmEvent == {"ADDR_RESOLVED", "ROUTE_RESOLVED", "CONNECT_REQUEST", "ESTABLISHED",
            "ADDR_ERROR", "ROUTE_ERROR", "CONNECT_ERROR", "UNREACHABLE", "REJECTED",
            "DISCONNECTED", "DEVICE_REMOVAL", "TIMEWAIT_EXIT"}

VARIABLES
  pc,         \* where the main thread of each side is
  asleep,     \* the sides whose main thread sleeps on context->sem
  signalled,  \* the sides whose main thread has a signal pending
  round,      \* i of the loop in start_MegaVM_server
  state,      \* context->state
  advert,     \* server: the buffer that remote_rkey/remote_addr name
  child,      \* server: whether child_cm_id is set
  held,       \* what each side has allocated and not given back
  mem,        \* contents of the client's two buffers
  rdmaBuf,    \* contents of the server's rdma_buf
  carried,    \* history: how many of the server's requests the client's adapter carried out
  cmh,        \* what the rdma_cm callback has still to do
  cmq,        \* connection events not yet delivered
  conn,       \* the connection, as the two connection managers see it
  cqh,        \* what the completion callback has still to do
  cqe,        \* completions not yet polled
  armed,      \* the sides whose CQ raises an event on the next completion
  cqevent,    \* the sides whose completion callback is due
  qp,         \* the queue pair of each side
  sq,         \* work requests on the send queue
  rq,         \* receives posted on the receive queue
  misuse      \* history: uses of an object after its destruction

threadVars == <<pc, asleep, signalled, round>>
contextVars == <<state, advert, child, held>>
bufferVars == <<mem, rdmaBuf, carried>>
cmVars == <<cmh, cmq, conn>>
cqVars == <<cqh, cqe, armed, cqevent>>
qpVars == <<qp, sq, rq>>
vars == <<threadVars, contextVars, bufferVars, cmVars, cqVars, qpVars, misuse>>

Goto(s, label) == pc' = [pc EXCEPT ![s] = label]

SetState(s, new) == state' = [state EXCEPT ![s] = new]

\* wake_up_interruptible(&context->sem)
WakeUp(s) == asleep' = asleep \ {s}

\* The state each wait_event_interruptible of the two programs waits for.
Threshold == [
  bind_wait     |-> ROUTE_RESOLVED,
  connect_wait  |-> CONNECTED,
  goahead_wait  |-> RDMA_WRITE_ADV,
  request_wait  |-> CONNECT_REQUEST,
  accept_wait   |-> CONNECTED,
  ping_wait     |-> RDMA_READ_ADV,
  read_wait     |-> RDMA_READ_COMPLETE,
  write_wait    |-> RDMA_WRITE_COMPLETE]

(***************************************************************************)
(* wait_event_interruptible(context->sem, context->state >= threshold):    *)
(* go on if the condition holds or a signal is pending, else sleep until   *)
(* the next wake-up, then look again.  A signal stays pending: nothing in  *)
(* the kernel consumes it, and the waits ignore what they return.          *)
(***************************************************************************)
WaitEvent(s, from, next) ==
  /\ pc[s] = from
  /\ s \notin asleep
  /\ \/ /\ state[s] >= Threshold[from] \/ s \in signalled
        /\ Goto(s, next)
        /\ UNCHANGED asleep
     \/ /\ state[s] < Threshold[from] /\ s \notin signalled
        /\ asleep' = asleep \cup {s}
        /\ UNCHANGED pc
  /\ UNCHANGED <<signalled, round, contextVars, bufferVars, cmVars, cqVars, qpVars, misuse>>

\* A signal for the thread that loads the module ends its sleep.
Signal(s) ==
  /\ <<s, "signal">> \in Faults
  /\ s \notin signalled
  /\ pc[s] \notin {"done", "oops"}
  /\ signalled' = signalled \cup {s}
  /\ WakeUp(s)
  /\ UNCHANGED <<pc, round, contextVars, bufferVars, cmVars, cqVars, qpVars, misuse>>

InitContext ==
  /\ pc = [s \in Side |-> "start"]
  /\ asleep = {}
  /\ signalled = {}
  /\ round = 0
  /\ state = [s \in Side |-> IDLE]
  /\ advert = NoBuffer
  /\ child = "unset"
  /\ held = [s \in Side |-> {}]
  /\ mem = [b \in Buffer |-> "junk"]
  /\ rdmaBuf = "junk"
  /\ carried = [op \in Operation |-> 0]
  /\ cmh = [s \in Side |-> "idle"]
  /\ cmq = [s \in Side |-> <<>>]
  /\ conn = "none"
  /\ cqh = [s \in Side |-> "idle"]
  /\ cqe = [s \in Side |-> <<>>]
  /\ armed = {}
  /\ cqevent = {}
  /\ qp = [s \in Side |-> "none"]
  /\ sq = [s \in Side |-> <<>>]
  /\ rq = [s \in Side |-> 0]
  /\ misuse = {}
=============================================================================
