----------------------------- MODULE ProfileSearch -----------------------------
(***************************************************************************)
(* benchmark requirements: from the ideal network the driver worsens one   *)
(* axis after the other, each as far as the stream still passes, in rounds *)
(* and a final refinement between the last passing and the last failing    *)
(* value, and probes the profile it ends on.                               *)
(***************************************************************************)
EXTENDS Probing, Sequences

CONSTANTS
    AxisOrder,          \* the order in which the axes are searched
    Rounds,
    Iterations,         \* bisection steps of a search
    RefineIterations,   \* bisection steps of the refinement, 0 for none
    Resets,             \* axes whose search returns to the far end: bandwidth
    Guardable           \* axes whose boundary may get a guard: bandwidth, jitter

ASSUME ProfileSearchAssumption ==
    /\ AxisOrder \in Seq(Axis)
    /\ Rounds \in Nat \ {0} /\ Iterations \in Nat \ {0} /\ RefineIterations \in Nat
    /\ Resets \subseteq Axis /\ Guardable \subseteq Axis

VARIABLES
    guarded,    \* axes with a guard ratio
    current,    \* the candidate the search has arrived at
    turn,       \* the number of the axis search
    low, high,  \* the bracket: a candidate that passed and one that failed
    left,       \* bisection steps left
    bounds      \* per axis: is it tight, and the last failing row

search == <<guarded, current, turn, low, high, left, bounds>>

Turns == Len(AxisOrder) * (IF RefineIterations = 0 THEN Rounds ELSE Rounds + 1)

AxisOf(t) == AxisOrder[((t - 1) % Len(AxisOrder)) + 1]
Refining(t) == t > Len(AxisOrder) * Rounds
StepsOf(t) == IF Refining(t) THEN RefineIterations ELSE Iterations

axis == AxisOf(turn)

SearchPhase == {"ideal", "limit", "reset", "bisect", "final"}

\* Where the search of an axis starts to look: the far end, or in the
\* refinement the value that failed last.
Limit(t, known) ==
    IF Refining(t) /\ known[AxisOf(t)].failed # {}
    THEN (CHOOSE c \in known[AxisOf(t)].failed : TRUE)[AxisOf(t)]
    ELSE Worst

SearchInit ==
    /\ guarded \in SUBSET Guardable
    /\ current = Ideal
    /\ turn = 0
    /\ low = Ideal /\ high = Ideal
    /\ left = 0
    /\ bounds = [a \in Axis |-> [tight |-> FALSE, failed |-> {}]]

\* From candidate c and the bounds known, the next axis search, or the end.
Continue(c, known) ==
    /\ current' = c
    /\ turn' = turn + 1
    /\ IF turn < Turns
       THEN Probe("limit", At(c, AxisOf(turn + 1), Limit(turn + 1, known)))
       ELSE Probe("final", c)

\* A guard steps back from the boundary found: more bandwidth, less jitter.
Guard(a, c) == IF a \in guarded /\ c[a] > 0 THEN At(c, a, c[a] - 1) ELSE c

\* The search of the axis ends on c; its bracket was local to it.
Select(c, tight, failed) ==
    /\ bounds' = [bounds EXCEPT ![axis] = [tight |-> tight, failed |-> failed]]
    /\ Continue(Guard(axis, c), bounds')
    /\ low' = Ideal /\ high' = Ideal /\ left' = 0
    /\ UNCHANGED guarded

\* Bisection between a passing and a failing candidate.
Bisect(pass, fail, steps) ==
    /\ low' = pass /\ high' = fail
    /\ left' = steps
    /\ \E mid \in pass[axis]..fail[axis] : Probe("bisect", At(current, axis, mid))
    /\ UNCHANGED <<guarded, current, turn, bounds>>

Baseline ==
    /\ phase = "ideal" /\ Decided("both")
    /\ IF Good
       THEN Continue(Ideal, bounds) /\ UNCHANGED <<guarded, low, high, left, bounds>>
       ELSE phase' = "ideal_failed" /\ UNCHANGED <<link, probed, sample, search>>

\* The far end still passes.  A refined bandwidth looks once more at the floor.
LimitPasses ==
    /\ phase = "limit" /\ Decided("both") /\ Good
    /\ IF axis \in Resets /\ probed[axis] < Worst
       THEN Probe("reset", At(current, axis, Worst)) /\ UNCHANGED search
       ELSE Select(probed, FALSE, {})

LimitFails ==
    /\ phase = "limit" /\ Decided("both") /\ ~Good
    /\ Bisect(current, probed, StepsOf(turn))

ResetPasses ==
    /\ phase = "reset" /\ Decided("both") /\ Good
    /\ Select(probed, FALSE, {})

ResetFails ==
    /\ phase = "reset" /\ Decided("both") /\ ~Good
    /\ Bisect(At(current, axis, Limit(turn, bounds)), probed, StepsOf(turn))

\* Mutant: the bracket moves the wrong way.
SwappedBracket ==
    /\ phase = "bisect" /\ Decided("both")
    /\ LET pass == IF Good THEN low ELSE probed
           fail == IF Good THEN probed ELSE high
       IN  IF left > 1
           THEN Bisect(pass, fail, left - 1)
           ELSE Select(pass, TRUE, {fail})

Bisected ==
    /\ phase = "bisect" /\ Decided("both")
    /\ LET pass == IF Good THEN probed ELSE low
           fail == IF Good THEN high ELSE probed
       IN  IF left > 1
           THEN Bisect(pass, fail, left - 1)
           ELSE Select(pass, TRUE, {fail})

Final ==
    /\ phase = "final" /\ Decided("both")
    /\ phase' = "done"
    /\ UNCHANGED <<link, probed, sample, search>>

SearchNext ==
    \/ phase \in SearchPhase /\ Run("both") /\ UNCHANGED search
    \/ phase \in SearchPhase /\ NothingArrives("both") /\ UNCHANGED search
    \/ Baseline
    \/ LimitPasses \/ LimitFails
    \/ ResetPasses \/ ResetFails
    \/ Bisected
    \/ Final

(***************************************************************************)
(* Properties                                                              *)
(***************************************************************************)
SearchTypeOK ==
    /\ guarded \subseteq Guardable
    /\ current \in Candidate
    /\ turn \in 0..(Turns + 1)
    /\ phase \in {"limit", "reset", "bisect"} => turn \in 1..Turns
    /\ low \in Candidate /\ high \in Candidate
    /\ left \in Nat
    /\ bounds \in [Axis -> [tight : BOOLEAN, failed : SUBSET Candidate]]

\* Whatever the noise, the rounds and the guards, the candidate that is carried
\* from axis to axis can pass: it passed a probe, or is easier than one that did.
NeverHopeless ==
    /\ phase \in {"limit", "reset", "bisect", "final", "done"} => current \in link.usable
    /\ phase = "bisect" => low \in link.usable

\* Without guards an axis called tight has a failing neighbour at or beyond the
\* chosen value that fails under the other values finally chosen too, however
\* much later they were chosen; and an axis left open stands at the far end,
\* unless noise let a failing value pass.
BoundsMeanWhatTheySay ==
    guarded = {} /\ phase \in {"final", "done"} =>
        \A a \in {AxisOf(t) : t \in 1..Turns} :
            /\ bounds[a].tight =>
                \E f \in bounds[a].failed :
                    f[a] >= current[a] /\ At(current, a, f[a]) \notin link.clean
            /\ ~bounds[a].tight /\ link.clean = link.usable => current[a] = Worst
================================================================================
