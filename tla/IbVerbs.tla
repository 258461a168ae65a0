------------------------------ MODULE IbVerbs ------------------------------
(***************************************************************************)
(* What the two programs use of the kernel's RDMA stack: the reliable      *)
(* queue pair and completion queue behind ib_post_send, ib_post_recv,      *)
(* ib_req_notify_cq and ib_poll_cq, and the connection manager behind      *)
(* rdma_connect, rdma_accept, rdma_disconnect and rdma_destroy_id.         *)
(*                                                                         *)
(* Work requests leave in the order they were posted and complete in that  *)
(* order.  One read may be outstanding (initiator_depth is 1) and nothing  *)
(* is fenced: a later write or send may be carried out before the data of  *)
(* an earlier read has arrived.  rnr_retry_count is 0: a send that finds   *)
(* no receive posted fails.                                                *)
(***************************************************************************)
EXTENDS IbContext

NoCompletion == [s \in Side |-> <<>>]

Only(s, completions) == [NoCompletion EXCEPT ![s] = completions]

\* Completions enter the queues; an armed queue raises its event and disarms.
AddCompletions(add) ==
  /\ cqe' = [s \in Side |-> cqe[s] \o add[s]]
  /\ cqevent' = cqevent \cup {s \in armed : add[s] # <<>>}
  /\ armed' = {s \in armed : add[s] = <<>>}

WcOf(op, status, info) == [op |-> op, status |-> status, info |-> info]

Acknowledged(s, k) == \A j \in 1 .. k : sq[s][j].phase = "done"

\* What both queues of a side complete with when its queue pair goes to the
\* error state because request k failed (k = 0: for another reason).
Flushed(s, k) ==
  [j \in 1 .. Len(sq[s]) |->
     WcOf(sq[s][j].op,
          IF Acknowledged(s, j) THEN "ok" ELSE IF j = k THEN "err" ELSE "flush",
          NoBuffer)]
  \o [j \in 1 .. rq[s] |-> WcOf("RECV", "flush", NoBuffer)]

\* The queue pairs of sides go to the error state.
QpError(sides, completions) ==
  /\ qp' = [s \in Side |-> IF s \in sides THEN "err" ELSE qp[s]]
  /\ sq' = [s \in Side |-> IF s \in sides THEN <<>> ELSE sq[s]]
  /\ rq' = [s \in Side |-> IF s \in sides THEN 0 ELSE rq[s]]
  /\ AddCompletions(completions)

\* How many of the completions in q are of requests.
Sends(q) == Cardinality({i \in 1 .. Len(q) : q[i].op # "RECV"})

\* A slot of the send queue is free again when its completion was polled.
SqInUse(s) == Len(sq[s]) + Sends(cqe[s])

\* ib_post_send: the request is queued, or flushed at once, or refused.
PostSend(s, op, buf) ==
  \/ /\ qp[s] = "rts" /\ SqInUse(s) < TxDepth
     /\ sq' = [sq EXCEPT ![s] =
                 Append(@, [op |-> op, buf |-> buf, phase |-> "posted", val |-> "junk"])]
     /\ UNCHANGED <<cqe, armed, cqevent>>
  \/ /\ qp[s] = "err" /\ SqInUse(s) < TxDepth
     /\ AddCompletions(Only(s, <<WcOf(op, "flush", NoBuffer)>>))
     /\ UNCHANGED sq
  \/ /\ \/ qp[s] \notin {"rts", "err"}
        \/ SqInUse(s) >= TxDepth
        \/ <<s, "post">> \in Faults
     /\ UNCHANGED <<sq, cqe, armed, cqevent>>

\* ib_post_recv, when it succeeds.  On a queue pair in the error state the
\* receive is flushed at once.
PostRecv(s) ==
  IF qp[s] = "err"
  THEN AddCompletions(Only(s, <<WcOf("RECV", "flush", NoBuffer)>>)) /\ UNCHANGED rq
  ELSE rq' = [rq EXCEPT ![s] = @ + 1] /\ UNCHANGED <<cqe, armed, cqevent>>

-----------------------------------------------------------------------------
(* The adapters.                                                           *)

\* The next request of the send queue to go out: k is the first one that has
\* not, and no read is outstanding when it is a read itself.
MayGoOut(s, k) ==
  /\ qp[s] = "rts"
  /\ qp[Peer(s)] # "init"
  /\ k \in 1 .. Len(sq[s])
  /\ sq[s][k].phase = "posted"
  /\ \A j \in 1 .. k - 1 : sq[s][j].phase # "posted"
  /\ sq[s][k].op = "READ" => \A j \in 1 .. k - 1 : sq[s][j].phase = "done"

AccessRefused(s, wr) ==
  /\ qp[Peer(s)] = "rts"
  /\ wr.op # "SEND"
  /\ wr.buf = NoBuffer \/ "dma_mr" \notin held[Peer(s)]

Undeliverable(s, wr) ==
  \/ qp[Peer(s)] # "rts"
  \/ AccessRefused(s, wr)
  \/ wr.op = "SEND" /\ rq[Peer(s)] = 0

\* The peer carries out a send (its receive completes), a read (the data is on
\* its way back) or a write (the data is in its buffer).
Transmit(s, k) ==
  LET wr == sq[s][k] p == Peer(s) IN
  /\ MayGoOut(s, k)
  /\ ~Undeliverable(s, wr)
  /\ \/ /\ wr.op = "SEND"
        /\ sq' = [sq EXCEPT ![s][k].phase = "done"]
        /\ rq' = [rq EXCEPT ![p] = @ - 1]
        /\ AddCompletions(Only(p, <<WcOf("RECV", "ok", wr.buf)>>))
        /\ UNCHANGED <<mem, rdmaBuf>>
     \/ /\ wr.op = "READ"
        /\ sq' = [sq EXCEPT ![s][k].phase = "fetched", ![s][k].val = mem[wr.buf]]
        /\ UNCHANGED <<rq, cqe, armed, cqevent, mem, rdmaBuf>>
     \/ /\ wr.op = "WRITE"
        /\ sq' = [sq EXCEPT ![s][k].phase = "done"]
        /\ mem' = [mem EXCEPT ![wr.buf] = rdmaBuf]
        /\ UNCHANGED <<rq, cqe, armed, cqevent, rdmaBuf>>
  /\ carried' = IF s = "server" THEN [carried EXCEPT ![wr.op] = @ + 1] ELSE carried
  /\ UNCHANGED <<qp, cqh, threadVars, contextVars, cmVars, misuse>>

\* A request cannot be carried out: the sender's queue pair fails, and the
\* peer's too if it refused the access.
TransmitFails(s, k) ==
  LET refused == AccessRefused(s, sq[s][k]) p == Peer(s) IN
  /\ MayGoOut(s, k)
  /\ Undeliverable(s, sq[s][k])
  /\ QpError(IF refused THEN Side ELSE {s},
             [NoCompletion EXCEPT ![s] = Flushed(s, k),
                                  ![p] = IF refused THEN Flushed(p, 0) ELSE <<>>])
  /\ UNCHANGED <<cqh, threadVars, contextVars, bufferVars, cmVars, misuse>>

\* The data of the outstanding read arrives in the server's rdma_buf.
ReadArrives(s, k) ==
  /\ k \in 1 .. Len(sq[s])
  /\ sq[s][k].phase = "fetched"
  /\ sq' = [sq EXCEPT ![s][k].phase = "done"]
  /\ rdmaBuf' = sq[s][k].val
  /\ UNCHANGED <<qp, rq, cqVars, threadVars, contextVars, mem, carried, cmVars, misuse>>

\* The oldest request was carried out: it completes.
CompleteSend(s) ==
  /\ sq[s] # <<>>
  /\ Head(sq[s]).phase = "done"
  /\ sq' = [sq EXCEPT ![s] = Tail(@)]
  /\ AddCompletions(Only(s, <<WcOf(Head(sq[s]).op, "ok", NoBuffer)>>))
  /\ UNCHANGED <<qp, rq, cqh, threadVars, contextVars, bufferVars, cmVars, misuse>>

Adapter(s) ==
  \/ \E k \in 1 .. Len(sq[s]) : Transmit(s, k) \/ TransmitFails(s, k) \/ ReadArrives(s, k)
  \/ CompleteSend(s)

-----------------------------------------------------------------------------
(* The connection managers.                                                *)

\* Events reach a side while it has the id they are for: the client's cm_id, or
\* the id made for the request, which the server's callback may not have seen yet.
HasConnectionId(s) ==
  IF s = "client"
  THEN "cm_id" \in held[s]
  ELSE "child" \in held[s] \/ \E i \in 1 .. Len(cmq[s]) : cmq[s][i] = "CONNECT_REQUEST"

\* The queue of s when events are sent to it.
Heard(s, events) == IF HasConnectionId(s) THEN cmq[s] \o events ELSE cmq[s]

\* The listener is bound and not about to be destroyed.
Listening ==
  /\ "cm_id" \in held["server"]
  /\ pc["server"] \notin {"bind", "destroy_listener"}

\* rdma_connect: the request reaches the listener, or is rejected.
ConnectRequest ==
  IF Listening
  THEN /\ conn' = "requested"
       /\ cmq' = [cmq EXCEPT !["server"] = Append(@, "CONNECT_REQUEST")]
  ELSE /\ conn' = "closed"
       /\ cmq' = [cmq EXCEPT !["client"] = Append(@, "REJECTED")]

\* The answer of rdma_accept reaches the client, and both sides learn of it.
\* A client that tore down its queue pair refuses the connection.
ConnectionEstablished ==
  /\ conn = "accepted"
  /\ IF qp["client"] = "init"
     THEN /\ conn' = "established"
          /\ qp' = [qp EXCEPT !["client"] = "rts"]
          /\ cmq' = [s \in Side |-> Heard(s, <<"ESTABLISHED">>)]
     ELSE /\ conn' = "closed"
          /\ cmq' = [cmq EXCEPT !["client"] = Heard("client", <<"CONNECT_ERROR">>),
                                !["server"] = Heard("server", <<"REJECTED">>)]
          /\ UNCHANGED qp
  /\ UNCHANGED <<sq, rq, cmh, cqVars, threadVars, contextVars, bufferVars, misuse>>

\* No answer in time: the client gives up and tells a server that has an id.
ConnectTimeout ==
  /\ conn = "requested"
  /\ pc["server"] \in {"done", "oops"} \/ <<"client", "timeout">> \in Faults
  /\ conn' = "closed"
  /\ cmq' = [cmq EXCEPT !["client"] = Heard("client", <<"UNREACHABLE">>),
                        !["server"] = Heard("server", <<"REJECTED">>)]
  /\ UNCHANGED <<cmh, qpVars, cqVars, threadVars, contextVars, bufferVars, misuse>>

\* rdma_disconnect: the queue pair goes to the error state and, on a live
\* connection, both sides hear of it.
DisconnectConnection(s) ==
  /\ QpError({s}, Only(s, Flushed(s, 0)))
  /\ IF conn = "established"
     THEN /\ conn' = "closed"
          /\ cmq' = [x \in Side |-> Heard(x, <<"DISCONNECTED">>)]
     ELSE UNCHANGED <<conn, cmq>>

\* rdma_destroy_id of the connection's id: its events are dropped, and the
\* peer hears of a connection it ends.
DestroyConnectionId(s) ==
  LET p == Peer(s)
      heard == IF conn = "established" THEN <<"DISCONNECTED">>
               ELSE IF conn \in {"requested", "accepted"} THEN <<"REJECTED">>
               ELSE <<>>
  IN  /\ cmq' = [cmq EXCEPT ![s] = <<>>,
                            ![p] = Heard(p, heard)]
      /\ conn' = IF heard = <<>> THEN conn ELSE "closed"

\* An event the program does not count on: the device is going away, or the
\* quiet time after a disconnection is over.
StrayEvent(s) ==
  /\ <<s, "stray">> \in Faults
  /\ HasConnectionId(s)
  /\ cmq[s] = <<>>
  /\ \E event \in {"DEVICE_REMOVAL", "TIMEWAIT_EXIT"} :
       /\ event = "TIMEWAIT_EXIT" => conn = "closed"
       /\ cmq' = [cmq EXCEPT ![s] = <<event>>]
  /\ UNCHANGED <<cmh, conn, qpVars, cqVars, threadVars, contextVars, bufferVars, misuse>>
=============================================================================
