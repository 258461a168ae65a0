---------------------------- MODULE MegaVMServer ----------------------------
(***************************************************************************)
(* The main thread of megaVM_server.c: initialisation, megaVM_StartServer  *)
(* and what they call.  The labels of pc["server"] follow the calls.       *)
(***************************************************************************)
EXTENDS MegaVMResources

\* initialisation.  rdma_create_id reports failure with an error pointer, which
\* the check for NULL lets through.
ServerStart ==
  /\ pc["server"] = "start"
  /\ \/ Holding("server", {"context", "cm_id"}) /\ Goto("server", "bind")
     \/ /\ <<"server", "setup">> \in Faults
        /\ \/ Goto("server", "done") /\ UNCHANGED held
           \/ Goto("server", "oops") /\ Holding("server", {"context"})
  /\ UNCHANGED <<asleep, signalled, round, state, advert, child, bufferVars, cmVars, cqVars,
                 qpVars, misuse>>

\* bind_server: rdma_bind_addr and rdma_listen.
ServerBind ==
  /\ pc["server"] = "bind"
  /\ \/ Goto("server", "request_wait")
     \/ /\ <<"server", "connect">> \in Faults
        /\ Goto("server", "destroy_listener")
  /\ UNCHANGED <<asleep, signalled, round, contextVars, bufferVars, cmVars, cqVars, qpVars,
                 misuse>>

ServerRequestWait == WaitEvent("server", "request_wait", "request_check")

\* When bind_server fails here, megaVM_StartServer returns past its labels.
ServerRequestCheck ==
  /\ pc["server"] = "request_check"
  /\ Goto("server", IF state["server"] = CONNECT_REQUEST THEN "setup_qp" ELSE "destroy_listener")
  /\ UNCHANGED <<asleep, signalled, round, contextVars, bufferVars, cmVars, cqVars, qpVars,
                 misuse>>

\* setup_pd_and_qp(context, child_cm_id).  It dereferences a child_cm_id that is
\* not set yet, and the error pointers of ib_alloc_pd and ib_create_cq, which the
\* checks for NULL let through; ib_req_notify_cq and create_qp failing are handled.
ServerSetupQp ==
  /\ pc["server"] = "setup_qp"
  /\ \/ /\ child = "set"
        /\ QpSetUp("server")
        /\ UNCHANGED misuse
     \/ /\ child = "set" /\ <<"server", "setup">> \in Faults
        /\ Goto("server", "destroy_child")
        /\ UNCHANGED <<held, qp, armed, misuse>>
     \/ /\ child = "set" /\ <<"server", "setup">> \in Faults
        /\ \E left \in {"pd", "cq"} : Holding("server", {left})
        /\ Goto("server", "oops")
        /\ UNCHANGED <<qp, armed, misuse>>
     \/ /\ child = "unset"
        /\ misuse' = misuse \cup {<<"server", "child">>}
        /\ Goto("server", "oops")
        /\ UNCHANGED <<held, qp, armed>>
  /\ UNCHANGED <<asleep, signalled, round, state, advert, child, bufferVars, cmVars, cqh, cqe,
                 cqevent, sq, rq>>

\* accept_connections: rdma_accept, which fails when the client gave up and then
\* takes the queue pair down and rejects the request.
ServerAccept ==
  /\ pc["server"] = "accept"
  /\ \/ /\ conn = "requested"
        /\ conn' = "accepted"
        /\ qp' = [qp EXCEPT !["server"] = "rts"]
        /\ Goto("server", "accept_wait")
        /\ UNCHANGED <<cmq, sq, rq, cqe, armed, cqevent>>
     \/ /\ conn # "requested" \/ <<"server", "connect">> \in Faults
        /\ QpError({"server"}, Only("server", Flushed("server", 0)))
        /\ conn' = "closed"
        /\ cmq' = [cmq EXCEPT !["client"] =
                     IF conn = "requested" THEN Heard("client", <<"REJECTED">>) ELSE @]
        /\ Goto("server", "free_buffers")
  /\ UNCHANGED <<asleep, signalled, round, contextVars, bufferVars, cmh, cqh, misuse>>

\* The wait for CONNECTED ends when the client's advertisement arrives: on the
\* server no event of the connection sets CONNECTED.
ServerAcceptWait == WaitEvent("server", "accept_wait", "accept_check")

\* Mutant of ServerAcceptCheck: it leaves through the wrong label.
ServerAcceptCheckWrongLabel ==
  /\ pc["server"] = "accept_check"
  /\ Goto("server", IF state["server"] = ERROR THEN "free_qp" ELSE "ping_wait")
  /\ UNCHANGED <<asleep, signalled, round, contextVars, bufferVars, cmVars, cqVars, qpVars,
                 misuse>>

ServerAcceptCheck ==
  /\ pc["server"] = "accept_check"
  /\ Goto("server", IF state["server"] = ERROR THEN "free_buffers" ELSE "ping_wait")
  /\ UNCHANGED <<asleep, signalled, round, contextVars, bufferVars, cmVars, cqVars, qpVars,
                 misuse>>

\* start_MegaVM_server.  A state other than RDMA_READ_ADV is only logged.
ServerPingWait == WaitEvent("server", "ping_wait", "read")

\* megaVM_rdma_read and megaVM_rdma_write post with the key and address last
\* received, wait, and only log a state they did not wait for.
ServerRead ==
  /\ pc["server"] = "read"
  /\ PostSend("server", "READ", advert)
  /\ Goto("server", "read_wait")
  /\ UNCHANGED <<asleep, signalled, round, contextVars, bufferVars, cmVars, cqh, qp, rq, misuse>>

\* Mutant of ServerReadWait: the wait is left out.
ServerReadNoWait ==
  /\ pc["server"] = "read_wait"
  /\ Goto("server", "write")
  /\ UNCHANGED <<asleep, signalled, round, contextVars, bufferVars, cmVars, cqVars, qpVars,
                 misuse>>

ServerReadWait == WaitEvent("server", "read_wait", "write")

ServerWrite ==
  /\ pc["server"] = "write"
  /\ PostSend("server", "WRITE", advert)
  /\ Goto("server", "write_wait")
  /\ UNCHANGED <<asleep, signalled, round, contextVars, bufferVars, cmVars, cqh, qp, rq, misuse>>

ServerWriteWait == WaitEvent("server", "write_wait", "next_round")

\* Mutant of ServerNextRound: one round too many.
ServerRoundTooMany ==
  /\ pc["server"] = "next_round"
  /\ round' = round + 1
  /\ Goto("server", IF round + 1 <= Rounds THEN "read" ELSE "go_ahead")
  /\ UNCHANGED <<asleep, signalled, contextVars, bufferVars, cmVars, cqVars, qpVars, misuse>>

\* Mutant of ServerNextRound: the go-ahead is sent in every round.
ServerGoAheadEachRound ==
  /\ pc["server"] = "next_round"
  /\ round' = round + 1
  /\ PostSend("server", "SEND", NoBuffer)
  /\ Goto("server", IF round + 1 < Rounds THEN "read" ELSE "go_ahead")
  /\ UNCHANGED <<asleep, signalled, contextVars, bufferVars, cmVars, cqh, qp, rq, misuse>>

ServerNextRound ==
  /\ pc["server"] = "next_round"
  /\ round' = round + 1
  /\ Goto("server", IF round + 1 < Rounds THEN "read" ELSE "go_ahead")
  /\ UNCHANGED <<asleep, signalled, contextVars, bufferVars, cmVars, cqVars, qpVars, misuse>>

\* The "go ahead" message; whether it could be posted is only logged.
ServerGoAhead ==
  /\ pc["server"] = "go_ahead"
  /\ PostSend("server", "SEND", NoBuffer)
  /\ Goto("server", "disconnect")
  /\ UNCHANGED <<asleep, signalled, round, contextVars, bufferVars, cmVars, cqh, qp, rq, misuse>>

\* Mutant of ServerDestroyChild: the id of the connection is not destroyed.
ServerForgetsChild ==
  /\ pc["server"] = "destroy_child"
  /\ Goto("server", "destroy_listener")
  /\ UNCHANGED <<asleep, signalled, round, contextVars, bufferVars, cmVars, cqVars, qpVars,
                 misuse>>

\* rdma_destroy_id(child_cm_id)
ServerDestroyChild ==
  /\ pc["server"] = "destroy_child"
  /\ cmh["server"] = "idle"
  /\ DestroyConnectionId("server")
  /\ Released("server", {"child"})
  /\ Goto("server", "destroy_listener")
  /\ UNCHANGED <<asleep, signalled, round, state, advert, child, bufferVars, cmh, cqVars, qpVars,
                 misuse>>

\* rdma_destroy_id(cm_id), then the context is freed.  A request that the
\* callback has not seen is rejected; an id it was given stays behind.
ServerDestroyListener ==
  /\ pc["server"] = "destroy_listener"
  /\ cmh["server"] = "idle"
  /\ IF "child" \in held["server"]
     THEN UNCHANGED <<conn, cmq>>
     ELSE /\ conn' = IF conn = "requested" THEN "closed" ELSE conn
          /\ cmq' = [cmq EXCEPT !["server"] = <<>>,
                                !["client"] = IF conn = "requested"
                                              THEN Heard("client", <<"REJECTED">>) ELSE @]
  /\ Released("server", {"cm_id", "context"})
  /\ Goto("server", "done")
  /\ UNCHANGED <<asleep, signalled, round, state, advert, child, bufferVars, cmh, cqVars, qpVars,
                 misuse>>

ServerMain ==
  \/ ServerStart \/ ServerBind \/ ServerRequestWait \/ ServerRequestCheck \/ ServerSetupQp
  \/ SetupBuffers("server") \/ PostFirstRecv("server", "accept")
  \/ ServerAccept \/ ServerAcceptWait \/ ServerAcceptCheck
  \/ ServerPingWait \/ ServerRead \/ ServerReadWait \/ ServerWrite \/ ServerWriteWait
  \/ ServerNextRound \/ ServerGoAhead
  \/ Disconnect("server") \/ FreeBuffers("server") \/ FreeQp("server")
  \/ FreeCq("server", "destroy_child") \/ ServerDestroyChild \/ ServerDestroyListener
=============================================================================
