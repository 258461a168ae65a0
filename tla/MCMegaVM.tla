------------------------------ MODULE MCMegaVM ------------------------------
(***************************************************************************)
(* The sets of faults the runs of MegaVM allow.                            *)
(***************************************************************************)
EXTENDS MegaVM

\* Device removals and late TIMEWAIT_EXIT events on the side with two ids.
StrayEvents == {<<"server", "stray">>}

\* Failures that both programs report and clean up after.
SetupFaults == Side \X {"setup", "connect", "timeout"}

\* The failures of the RDMA stack, and a signal to the server's insmod.  The server's
\* sends are refused only where its queue is full, which the signal brings about.
FaultsAndSignal ==
  (Side \X {"setup", "recv", "resolve", "connect", "timeout"})
    \cup {<<"client", "post">>, <<"server", "signal">>}
=============================================================================
