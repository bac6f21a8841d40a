----------------------------- MODULE MCPlayoutPacer -----------------------------
(***************************************************************************)
(* PlayoutPacer for TLC: an adaptive node and one with a fixed budget.     *)
(***************************************************************************)
EXTENDS PlayoutPacer

MCConfig ==
    {[adaptive |-> TRUE,  target |-> 2, min |-> 1, max |-> 3, percentile |-> 60, margin |-> 0],
     [adaptive |-> FALSE, target |-> 2, min |-> 1, max |-> 3, percentile |-> 60, margin |-> 0]}

\* The receiver's clock may be a tick behind the sender's.
MCMinDelay == -1
=================================================================================
