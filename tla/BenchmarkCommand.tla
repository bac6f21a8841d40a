--------------------------- MODULE BenchmarkCommand ---------------------------
(***************************************************************************)
(* One benchmark command that searches for a limit: of the network a stream *)
(* needs (the requirements and the loss-boundary driver) or of the load a   *)
(* network carries (the capacity driver), over the same probes.  Or else    *)
(* one that searches for nothing: it measures a list of cases, or it is of  *)
(* the commands of the regression gate.                                     *)
(***************************************************************************)
EXTENDS ProfileSearch, LossBoundaries, Capacity, BandGate, PointCommands

vars == <<probing, search, boundary, capacity, gate, pointing>>

\* A link that carries nothing; where no search runs, any would do.
DeadLink == [clean |-> {}, usable |-> {}]

Init ==
    /\ link \in Link
    /\ phase \in {"ideal", "rate_high", "capacity_low", "no_search"}
    /\ phase = "no_search" => link = DeadLink
    /\ probed = Ideal
    /\ sample = NoRuns
    /\ SearchInit /\ (phase # "ideal" => guarded = {})
    /\ BoundaryInit
    /\ CapacityInit
    /\ GateInit
    /\ PointsInit /\ (phase # "no_search" => genre = "none")
    /\ phase # "no_search" \/ genre # "none" => row = CHOOSE r \in Rows : TRUE

Searching ==
    \/ SearchNext /\ UNCHANGED <<boundary, capacity, gate, pointing>>
    \/ BoundaryNext /\ UNCHANGED <<search, capacity, gate, pointing>>
    \/ CapacityNext /\ UNCHANGED <<search, boundary, gate, pointing>>

Pointing ==
    /\ phase = "no_search" /\ genre # "none"
    /\ PointsNext
    /\ UNCHANGED <<probing, search, boundary, capacity, gate>>

Gating ==
    /\ phase = "no_search" /\ genre = "none"
    /\ GateNext
    /\ UNCHANGED <<probing, search, boundary, capacity, pointing>>

Next == Searching \/ Pointing \/ Gating

\* The driver is one sequential program and each of its runs lasts a given time.
\* When, and whether, somebody gates or moves a band is left open.
Spec == Init /\ [][Next]_vars /\ WF_vars(Searching)

(***************************************************************************)
(* Properties                                                              *)
(***************************************************************************)
Ended == {"ideal_failed", "done", "printed", "raised", "unjudged", "capacity_found", "no_search"}

TypeOK ==
    /\ link \in Link
    /\ phase \in SearchPhase \union BoundaryPhase \union CapacityPhase \union Ended
    /\ probed \in Candidate
    /\ sample \in [runs : 0..Repeats, passed : 0..Repeats, lossy : 0..Repeats]
    /\ SearchTypeOK
    /\ BoundaryTypeOK
    /\ CapacityTypeOK
    /\ GateTypeOK

\* Stopping the runs of a probe early is a saving only: neither verdict of its
\* row that the driver reads could have come out otherwise.
EarlyStopKeepsVerdict ==
    /\ phase \in SearchPhase => KeepsVerdict("both")
    /\ phase \in BoundaryPhase => KeepsVerdict(Mode)

\* What a bisection of either kind reports is the edge it looked for: the last
\* clean value of an axis, the highest load that passes.
EdgesAreFound == BoundaryIsTheEdge /\ CapacityIsTheEdge

\* Every search ends, whatever the link answers.
SearchEnds == <>(phase \in Ended)

\* benchmark.py: a topic no receiving peer accounted for is "not zero loss; it is
\* no evidence", the worst case for an oracle.  A run over a dead link is judged
\* as one that failed.
EverySampleIsJudged == phase # "unjudged"
================================================================================
