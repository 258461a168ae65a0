---------------------------- MODULE MegaVMClient ----------------------------
(***************************************************************************)
(* The main thread of megaVM_client.c: megaVM_doit and what it calls, from *)
(* the moment the module is loaded.  The labels of pc["client"] follow the *)
(* calls; the waits are steps of their own, and so are the checks of the   *)
(* state after them.                                                       *)
(***************************************************************************)
EXTENDS MegaVMResources

\* megaVM_doit.  rdma_create_id reports failure with an error pointer, which the
\* check for NULL lets through.
ClientStart ==
  /\ pc["client"] = "start"
  /\ \/ Holding("client", {"context", "cm_id"}) /\ Goto("client", "bind")
     \/ /\ <<"client", "setup">> \in Faults
        /\ \/ Goto("client", "done") /\ UNCHANGED held
           \/ Goto("client", "oops") /\ Holding("client", {"context"})
  /\ UNCHANGED <<asleep, signalled, round, state, advert, child, bufferVars, cmVars, cqVars,
                 qpVars, misuse>>

\* megaVM_bind_client: rdma_resolve_addr, which may be refused at once, fail
\* later, or succeed later.
ClientBind ==
  /\ pc["client"] = "bind"
  /\ \/ \E event \in {"ADDR_RESOLVED", "ADDR_ERROR"} :
          /\ event = "ADDR_ERROR" => <<"client", "resolve">> \in Faults
          /\ cmq' = [cmq EXCEPT !["client"] = Append(@, event)]
          /\ Goto("client", "bind_wait")
     \/ /\ <<"client", "resolve">> \in Faults
        /\ Goto("client", "destroy_id")
        /\ UNCHANGED cmq
  /\ UNCHANGED <<asleep, signalled, round, contextVars, bufferVars, cmh, conn, cqVars, qpVars,
                 misuse>>

ClientBindWait == WaitEvent("client", "bind_wait", "bind_check")

ClientBindCheck ==
  /\ pc["client"] = "bind_check"
  /\ Goto("client", IF state["client"] = ROUTE_RESOLVED THEN "setup_qp" ELSE "destroy_id")
  /\ UNCHANGED <<asleep, signalled, round, contextVars, bufferVars, cmVars, cqVars, qpVars,
                 misuse>>

\* megaVM_setup_qp: when a step fails, the earlier ones are undone.
ClientSetupQp ==
  /\ pc["client"] = "setup_qp"
  /\ \/ QpSetUp("client")
     \/ /\ <<"client", "setup">> \in Faults
        /\ Goto("client", "destroy_id")
        /\ UNCHANGED <<held, qp, armed>>
  /\ UNCHANGED <<asleep, signalled, round, state, advert, child, bufferVars, cmVars, cqh, cqe,
                 cqevent, sq, rq, misuse>>

\* megaVM_connect_client
ClientConnect ==
  /\ pc["client"] = "connect"
  /\ \/ ConnectRequest /\ Goto("client", "connect_wait")
     \/ /\ <<"client", "connect">> \in Faults
        /\ Goto("client", "free_buffers")
        /\ UNCHANGED <<conn, cmq>>
  /\ UNCHANGED <<asleep, signalled, round, contextVars, bufferVars, cmh, cqVars, qpVars, misuse>>

\* Mutant of ClientConnectWait: the wait is left out.
ClientConnectNoWait ==
  /\ pc["client"] = "connect_wait"
  /\ Goto("client", "connect_check")
  /\ UNCHANGED <<asleep, signalled, round, contextVars, bufferVars, cmVars, cqVars, qpVars,
                 misuse>>

ClientConnectWait == WaitEvent("client", "connect_wait", "connect_check")

\* Mutant of ClientConnectCheck: it leaves through the wrong label.
ClientConnectCheckWrongLabel ==
  /\ pc["client"] = "connect_check"
  /\ Goto("client", IF state["client"] = ERROR THEN "free_qp" ELSE "advertise")
  /\ UNCHANGED <<asleep, signalled, round, contextVars, bufferVars, cmVars, cqVars, qpVars,
                 misuse>>

ClientConnectCheck ==
  /\ pc["client"] = "connect_check"
  /\ Goto("client", IF state["client"] = ERROR THEN "free_buffers" ELSE "advertise")
  /\ UNCHANGED <<asleep, signalled, round, contextVars, bufferVars, cmVars, cqVars, qpVars,
                 misuse>>

\* megaVM_test_client sets its state whatever it is: an ERROR is overwritten.
ClientAdvertise ==
  /\ pc["client"] = "advertise"
  /\ SetState("client", RDMA_READ_ADV)
  /\ Goto("client", "send")
  /\ UNCHANGED <<asleep, signalled, round, advert, child, held, bufferVars, cmVars, cqVars,
                 qpVars, misuse>>

\* Fill start_buf, put its address and key into send_buf, and post the send: its
\* outcome and an ERROR state are only logged.
ClientSend ==
  /\ pc["client"] = "send"
  /\ mem' = [mem EXCEPT !["start_buf"] = "ping"]
  /\ PostSend("client", "SEND", "start_buf")
  /\ Goto("client", "goahead_wait")
  /\ UNCHANGED <<asleep, signalled, round, contextVars, rdmaBuf, carried, cmVars, cqh, qp, rq, misuse>>

ClientGoAheadWait == WaitEvent("client", "goahead_wait", "disconnect")

\* rdma_destroy_id waits for a running callback; then the context is freed.
ClientDestroyId ==
  /\ pc["client"] = "destroy_id"
  /\ cmh["client"] = "idle"
  /\ DestroyConnectionId("client")
  /\ Released("client", {"cm_id", "context"})
  /\ Goto("client", "done")
  /\ UNCHANGED <<asleep, signalled, round, state, advert, child, bufferVars, cmh, cqVars, qpVars,
                 misuse>>

ClientMain ==
  \/ ClientStart \/ ClientBind \/ ClientBindWait \/ ClientBindCheck \/ ClientSetupQp
  \/ SetupBuffers("client") \/ PostFirstRecv("client", "connect")
  \/ ClientConnect \/ ClientConnectWait \/ ClientConnectCheck
  \/ ClientAdvertise \/ ClientSend \/ ClientGoAheadWait
  \/ Disconnect("client") \/ FreeBuffers("client") \/ FreeQp("client")
  \/ FreeCq("client", "destroy_id") \/ ClientDestroyId
=============================================================================
