------------------------------ MODULE PingPong ------------------------------
(***************************************************************************)
(* What a session promises, without threads, queues or connections: the    *)
(* client opens its buffer to the server, the server fetches what is in it *)
(* and writes what it fetched back, Rounds times, and the client gets the  *)
(* go-ahead when the last of it is there.  After that, and after the       *)
(* client withdrew the buffer, the server touches it no more.              *)
(***************************************************************************)
EXTENDS Naturals

CONSTANT Rounds

VARIABLES
  window,   \* whether the server may touch the client's buffer
  buffer,   \* what is in it
  reply,    \* what was read from it and is on its way to the server
  copy,     \* what is in the server's own buffer
  echoes    \* how often the server wrote it back

vars == <<window, buffer, reply, copy, echoes>>

Init ==
  /\ window = "private"
  /\ buffer = "junk"
  /\ reply = "none"
  /\ copy = "junk"
  /\ echoes = 0

\* The client fills the buffer and lets the server know of it.
Publish ==
  /\ window = "private"
  /\ window' = "open"
  /\ buffer' = "ping"
  /\ UNCHANGED <<reply, copy, echoes>>

\* The server reads the buffer ...
Fetch ==
  /\ window = "open"
  /\ reply = "none"
  /\ reply' = buffer
  /\ UNCHANGED <<window, buffer, copy, echoes>>

\* ... and the data arrives, or the server stopped waiting for it.
Arrive ==
  /\ reply # "none"
  /\ reply' = "none"
  /\ copy' = reply
  /\ UNCHANGED <<window, buffer, echoes>>

Lose ==
  /\ reply # "none"
  /\ reply' = "none"
  /\ UNCHANGED <<window, buffer, copy, echoes>>

\* The server writes back what it fetched, so the buffer keeps its contents.
Echo ==
  /\ window = "open"
  /\ copy = buffer
  /\ echoes < Rounds
  /\ echoes' = echoes + 1
  /\ UNCHANGED <<window, buffer, reply, copy>>

\* All rounds are through.
GoAhead ==
  /\ window = "open"
  /\ echoes = Rounds
  /\ window' = "done"
  /\ UNCHANGED <<buffer, reply, copy, echoes>>

\* The client takes the buffer back, or never offered it.
Withdraw ==
  /\ window # "closed"
  /\ window' = "closed"
  /\ UNCHANGED <<buffer, reply, copy, echoes>>

Next == Publish \/ Fetch \/ Arrive \/ Lose \/ Echo \/ GoAhead \/ Withdraw

Spec == Init /\ [][Next]_vars
=============================================================================
