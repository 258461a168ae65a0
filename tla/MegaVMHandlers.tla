--------------------------- MODULE MegaVMHandlers ---------------------------
(***************************************************************************)
(* The two callbacks of each side, which run beside the main thread:       *)
(* megaVM_cma_event_handler, called by rdma_cm for one event at a time,    *)
(* and megaVM_cq_event_handler, called when an armed completion queue gets *)
(* a completion.  Each writes context->state first and wakes the main      *)
(* thread later; the main thread may look in between.  cmh and cqh say     *)
(* what a running callback has still to do.                                *)
(***************************************************************************)
EXTENDS IbVerbs

CmPhase == {"idle", "child", "wake"}
CqPhase == {"idle", "arm", "poll", "repost", "wake", "fail"}

CmErrors == {"ADDR_ERROR", "ROUTE_ERROR", "CONNECT_ERROR", "UNREACHABLE", "REJECTED"}

\* The callback's context was freed with the main thread's kfree(context).
NoteFreedContext(s) ==
  misuse' = IF "context" \in held[s] THEN misuse ELSE misuse \cup {<<s, "context">>}

-----------------------------------------------------------------------------
(* megaVM_cma_event_handler.                                               *)

\* ADDR_RESOLVED: resolve the route next.  Only when that is refused at once is
\* the main thread woken, and it is woken with a state below ROUTE_RESOLVED.
AddrResolved(s) ==
  /\ Head(cmq[s]) = "ADDR_RESOLVED"
  /\ SetState(s, ADDR_RESOLVED)
  /\ \/ /\ cmq' = [cmq EXCEPT ![s] = Append(Tail(@), "ROUTE_RESOLVED")]
        /\ UNCHANGED cmh
     \/ /\ <<s, "resolve">> \in Faults
        /\ cmq' = [cmq EXCEPT ![s] = Append(Tail(@), "ROUTE_ERROR")]
        /\ UNCHANGED cmh
     \/ /\ <<s, "resolve">> \in Faults
        /\ cmq' = [cmq EXCEPT ![s] = Tail(@)]
        /\ cmh' = [cmh EXCEPT ![s] = "wake"]
  /\ UNCHANGED held

\* CONNECT_REQUEST: the state is published before child_cm_id is.
ConnectRequested(s) ==
  /\ Head(cmq[s]) = "CONNECT_REQUEST"
  /\ SetState(s, CONNECT_REQUEST)
  /\ held' = [held EXCEPT ![s] = @ \cup {"child"}]
  /\ cmh' = [cmh EXCEPT ![s] = "child"]
  /\ cmq' = [cmq EXCEPT ![s] = Tail(@)]

\* Mutant of StateOfEvent: ESTABLISHED moves the server's state too.
StateOfEventBothSides(s, event) ==
  IF event = "ROUTE_RESOLVED" THEN ROUTE_RESOLVED
  ELSE IF event = "ESTABLISHED" THEN CONNECTED
  ELSE IF event \in CmErrors \cup {"DISCONNECTED"} THEN ERROR
  ELSE state[s]

\* Mutant of StateOfEvent: the errors of the connection are only logged.
StateOfEventNoError(s, event) ==
  IF event = "ROUTE_RESOLVED" THEN ROUTE_RESOLVED
  ELSE IF event = "ESTABLISHED" /\ s = "client" THEN CONNECTED
  ELSE IF event = "DISCONNECTED" THEN ERROR
  ELSE state[s]

\* The events that set the state and wake the main thread.  ESTABLISHED leaves
\* the server's state alone: its advertisement may have come first.
StateOfEvent(s, event) ==
  IF event = "ROUTE_RESOLVED" THEN ROUTE_RESOLVED
  ELSE IF event = "ESTABLISHED" /\ s = "client" THEN CONNECTED
  ELSE IF event \in CmErrors \cup {"DISCONNECTED"} THEN ERROR
  ELSE state[s]

StateAndWake(s) ==
  /\ Head(cmq[s]) \notin {"ADDR_RESOLVED", "CONNECT_REQUEST", "DEVICE_REMOVAL"}
  /\ SetState(s, StateOfEvent(s, Head(cmq[s])))
  /\ cmh' = [cmh EXCEPT ![s] = "wake"]
  /\ cmq' = [cmq EXCEPT ![s] = Tail(@)]
  /\ UNCHANGED held

\* DEVICE_REMOVAL is only logged.
DeviceRemovalLogged(s) ==
  /\ Head(cmq[s]) = "DEVICE_REMOVAL"
  /\ cmq' = [cmq EXCEPT ![s] = Tail(@)]
  /\ UNCHANGED <<state, held, cmh>>

CmaEvent(s) ==
  /\ cmh[s] = "idle"
  /\ cmq[s] # <<>>
  /\ NoteFreedContext(s)
  /\ AddrResolved(s) \/ ConnectRequested(s) \/ StateAndWake(s) \/ DeviceRemovalLogged(s)
  /\ UNCHANGED <<conn, advert, child, threadVars, bufferVars, cqVars, qpVars>>

\* context->child_cm_id = cma_id
CmaChild(s) ==
  /\ cmh[s] = "child"
  /\ child' = "set"
  /\ cmh' = [cmh EXCEPT ![s] = "wake"]
  /\ UNCHANGED <<cmq, conn, state, advert, held, threadVars, bufferVars, cqVars, qpVars, misuse>>

CmaWake(s) ==
  /\ cmh[s] = "wake"
  /\ NoteFreedContext(s)
  /\ WakeUp(s)
  /\ cmh' = [cmh EXCEPT ![s] = "idle"]
  /\ UNCHANGED <<cmq, conn, pc, signalled, round, contextVars, bufferVars, cqVars, qpVars>>

megaVM_cma_event_handler(s) == CmaEvent(s) \/ CmaChild(s) \/ CmaWake(s)

-----------------------------------------------------------------------------
(* megaVM_cq_event_handler.                                                *)

CqGoto(s, phase) == cqh' = [cqh EXCEPT ![s] = phase]

\* In the ERROR state the callback returns at once: the queue stays disarmed.
CqEvent(s) ==
  /\ cqh[s] = "idle"
  /\ s \in cqevent
  /\ cqevent' = cqevent \ {s}
  /\ CqGoto(s, IF state[s] = ERROR THEN "idle" ELSE "arm")
  /\ UNCHANGED <<cqe, armed, threadVars, contextVars, bufferVars, cmVars, qpVars, misuse>>

\* Mutant of CqArm: the queue is not armed again.
CqArmForgotten(s) ==
  /\ cqh[s] = "arm"
  /\ CqGoto(s, "poll")
  /\ UNCHANGED <<cqe, armed, cqevent, threadVars, contextVars, bufferVars, cmVars, qpVars, misuse>>

\* ib_req_notify_cq, before the first poll.
CqArm(s) ==
  /\ cqh[s] = "arm"
  /\ armed' = armed \cup {s}
  /\ CqGoto(s, "poll")
  /\ UNCHANGED <<cqe, cqevent, threadVars, contextVars, bufferVars, cmVars, qpVars, misuse>>

\* client_recv and server_recv: the state after a message, the server also
\* taking over the buffer it names.
client_recv ==
  /\ SetState("client", IF state["client"] = RDMA_READ_ADV
                        THEN RDMA_WRITE_ADV ELSE RDMA_WRITE_COMPLETE)
  /\ UNCHANGED advert

\* Mutant of server_recv: it sets the state as client_recv does.
server_recvAsClient(wc) ==
  /\ advert' = wc.info
  /\ SetState("server",
       IF state["server"] = RDMA_READ_ADV THEN RDMA_WRITE_ADV ELSE RDMA_WRITE_COMPLETE)

server_recv(wc) ==
  /\ advert' = wc.info
  /\ SetState("server",
       IF state["server"] <= CONNECTED \/ state["server"] = RDMA_WRITE_COMPLETE
       THEN RDMA_READ_ADV ELSE RDMA_WRITE_ADV)

recv(s, wc) == IF s = "server" THEN server_recv(wc) ELSE client_recv

\* The queue is empty: the loop ends and the callback returns.
CqPollEmpty(s) ==
  /\ cqh[s] = "poll"
  /\ cqe[s] = <<>>
  /\ CqGoto(s, "idle")
  /\ UNCHANGED <<cqe, armed, cqevent, threadVars, contextVars, bufferVars, cmVars, qpVars, misuse>>

\* One completion is taken off and looked at.
CqPoll(s) ==
  /\ cqh[s] = "poll"
  /\ cqe[s] # <<>>
  /\ cqe' = [cqe EXCEPT ![s] = Tail(@)]
  /\ LET wc == Head(cqe[s]) IN
     \/ /\ wc.status = "flush" \/ (wc.status = "ok" /\ wc.op = "SEND")
        /\ UNCHANGED <<state, advert, cqh>>
     \/ /\ wc.status = "err"
        /\ SetState(s, ERROR)
        /\ CqGoto(s, "fail")
        /\ UNCHANGED advert
     \/ /\ wc.status = "ok" /\ wc.op \in {"READ", "WRITE"}
        /\ SetState(s, IF wc.op = "READ" THEN RDMA_READ_COMPLETE ELSE RDMA_WRITE_COMPLETE)
        /\ CqGoto(s, "wake")
        /\ UNCHANGED advert
     \/ /\ wc.status = "ok" /\ wc.op = "RECV"
        /\ recv(s, wc)
        /\ CqGoto(s, "repost")
  /\ UNCHANGED <<armed, cqevent, child, held, threadVars, bufferVars, cmVars, qpVars, misuse>>

\* Mutant of CqRepost: the receive is posted twice.
CqRepostTwice(s) ==
  /\ cqh[s] = "repost"
  /\ qp[s] # "gone"
  /\ IF qp[s] = "err"
     THEN /\ AddCompletions(Only(s, <<WcOf("RECV", "flush", NoBuffer),
                                     WcOf("RECV", "flush", NoBuffer)>>))
          /\ UNCHANGED rq
     ELSE /\ rq' = [rq EXCEPT ![s] = @ + 2]
          /\ UNCHANGED <<cqe, armed, cqevent>>
  /\ CqGoto(s, "wake")
  /\ UNCHANGED <<state, misuse, qp, sq, advert, child, held, threadVars, bufferVars, cmVars>>

\* Mutant of CqRepost: nobody is woken after a message.
CqRepostWithoutWake(s) ==
  /\ cqh[s] = "repost"
  /\ qp[s] # "gone"
  /\ PostRecv(s)
  /\ CqGoto(s, "poll")
  /\ UNCHANGED <<state, misuse, qp, sq, advert, child, held, threadVars, bufferVars, cmVars>>

\* ib_post_recv of the receive that was just taken, then the wake-up; when it is
\* refused the state becomes ERROR.  Main may have destroyed the queue pair.
CqRepost(s) ==
  /\ cqh[s] = "repost"
  /\ \/ /\ qp[s] # "gone"
        /\ PostRecv(s)
        /\ CqGoto(s, "wake")
        /\ UNCHANGED <<state, misuse>>
     \/ /\ qp[s] = "gone"
        /\ misuse' = misuse \cup {<<s, "qp">>}
        /\ SetState(s, ERROR)
        /\ CqGoto(s, "fail")
        /\ UNCHANGED <<rq, cqe, armed, cqevent>>
     \/ /\ <<s, "recv">> \in Faults
        /\ SetState(s, ERROR)
        /\ CqGoto(s, "fail")
        /\ UNCHANGED <<rq, cqe, armed, cqevent, misuse>>
  /\ UNCHANGED <<qp, sq, advert, child, held, threadVars, bufferVars, cmVars>>

\* wake_up_interruptible; after an error the callback returns without polling
\* the completions that are left.
CqWake(s) ==
  /\ cqh[s] \in {"wake", "fail"}
  /\ WakeUp(s)
  /\ CqGoto(s, IF cqh[s] = "wake" THEN "poll" ELSE "idle")
  /\ UNCHANGED <<cqe, armed, cqevent, pc, signalled, round, contextVars, bufferVars, cmVars,
                 qpVars, misuse>>

megaVM_cq_event_handler(s) ==
  CqEvent(s) \/ CqArm(s) \/ CqPollEmpty(s) \/ CqPoll(s) \/ CqRepost(s) \/ CqWake(s)
=============================================================================
