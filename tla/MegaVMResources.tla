-------------------------- MODULE MegaVMResources --------------------------
(***************************************************************************)
(* The steps of the main thread that the two programs share: they set up   *)
(* the queue pair and the buffers, end the connection, and give everything *)
(* back in the order of their err labels.                                  *)
(***************************************************************************)
EXTENDS MegaVMHandlers

Holding(s, what) == held' = [held EXCEPT ![s] = @ \cup what]
Released(s, what) == held' = [held EXCEPT ![s] = @ \ what]

\* megaVM_setup_qp and setup_pd_and_qp: PD, CQ (armed at once) and QP.
QpSetUp(s) ==
  /\ Holding(s, {"pd", "cq", "qp"})
  /\ qp' = [qp EXCEPT ![s] = "init"]
  /\ armed' = armed \cup {s}
  /\ Goto(s, "setup_buffers")

\* The buffers a side allocates in its setup_buffers; only the client has start_buf.
BufferResources(s) ==
  {"recv_map", "send_map", "rdma_map", "dma_mr", "rdma_buf"}
  \cup (IF s = "client" THEN {"start_map", "start_buf"} ELSE {})

\* What is left when setup_buffers fails: the bail label gives back the memory
\* and the memory region but unmaps nothing.
LeftByBail(s) ==
  {{"recv_map", "send_map"}}
  \cup (IF s = "client" THEN {{"recv_map", "send_map", "rdma_map"}} ELSE {})

\* ib_get_dma_mr reports failure with an error pointer, which the check for NULL
\* lets through: setup_wr dereferences it.
SetupBuffers(s) ==
  /\ pc[s] = "setup_buffers"
  /\ \/ /\ Holding(s, BufferResources(s))
        /\ Goto(s, "post_recv")
     \/ /\ <<s, "setup">> \in Faults
        /\ \E left \in LeftByBail(s) : Holding(s, left)
        /\ Goto(s, "free_qp")
     \/ /\ <<s, "setup">> \in Faults
        /\ Holding(s, BufferResources(s) \ {"dma_mr"})
        /\ Goto(s, "oops")
  /\ UNCHANGED <<asleep, signalled, round, state, advert, child, bufferVars, cmVars, cqVars,
                 qpVars, misuse>>

\* The first ib_post_recv, before the connection exists.
PostFirstRecv(s, next) ==
  /\ pc[s] = "post_recv"
  /\ \/ /\ PostRecv(s)
        /\ Goto(s, next)
     \/ /\ <<s, "recv">> \in Faults
        /\ Goto(s, "free_buffers")
        /\ UNCHANGED <<rq, cqe, armed, cqevent>>
  /\ UNCHANGED <<asleep, signalled, round, contextVars, bufferVars, cmVars, cqh, qp, sq, misuse>>

\* rdma_disconnect
Disconnect(s) ==
  /\ pc[s] = "disconnect"
  /\ DisconnectConnection(s)
  /\ Goto(s, "free_buffers")
  /\ UNCHANGED <<asleep, signalled, round, contextVars, bufferVars, cmh, cqh, misuse>>

\* megaVM_free_buffers: the memory region, the mappings and the memory.
FreeBuffers(s) ==
  /\ pc[s] = "free_buffers"
  /\ Released(s, {"dma_mr"} \cup Mapping \cup Memory)
  /\ Goto(s, "free_qp")
  /\ UNCHANGED <<asleep, signalled, round, state, advert, child, bufferVars, cmVars, cqVars,
                 qpVars, misuse>>

\* megaVM_free_qp: ib_destroy_qp drops what the queues hold and takes the
\* completions of the queue pair off the completion queue ...
FreeQp(s) ==
  /\ pc[s] = "free_qp"
  /\ Released(s, {"qp"})
  /\ qp' = [qp EXCEPT ![s] = "gone"]
  /\ sq' = [sq EXCEPT ![s] = <<>>]
  /\ rq' = [rq EXCEPT ![s] = 0]
  /\ cqe' = [cqe EXCEPT ![s] = <<>>]
  /\ Goto(s, "free_cq")
  /\ UNCHANGED <<asleep, signalled, round, state, advert, child, bufferVars, cmVars, cqh, armed,
                 cqevent, misuse>>

\* ... and ib_destroy_cq waits for a running callback and lets no other start.
FreeCq(s, next) ==
  /\ pc[s] = "free_cq"
  /\ cqh[s] = "idle"
  /\ Released(s, {"cq", "pd"})
  /\ armed' = armed \ {s}
  /\ cqevent' = cqevent \ {s}
  /\ Goto(s, next)
  /\ UNCHANGED <<asleep, signalled, round, state, advert, child, bufferVars, cmVars, cqh, cqe,
                 qpVars, misuse>>
=============================================================================
