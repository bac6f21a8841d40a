----------------------------- MODULE LatestValue -----------------------------
(***************************************************************************)
(* What a forwarded state topic promises: the receiver shows values of the *)
(* sender in the order they were current, may skip some, never returns to  *)
(* an older one, and shows the latest once it stays.                       *)
(***************************************************************************)
EXTENDS Naturals

VARIABLES
    current,    \* how many values the sending application has published
    shown       \* the one the receiving application saw last, 0 before any

vars == <<current, shown>>

Init == current = 0 /\ shown = 0

Change == current' = current + 1 /\ UNCHANGED shown

Show == shown' \in (shown + 1)..current /\ UNCHANGED current

ShowLatest == Show /\ shown' = current

Safety == Init /\ [][Change \/ Show]_vars

Spec == Safety /\ WF_vars(ShowLatest)
===============================================================================
