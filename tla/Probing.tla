-------------------------------- MODULE Probing --------------------------------
(***************************************************************************)
(* One probe of a benchmark search: a candidate network is measured several *)
(* times and judged by how many runs pass and how many lose messages.  The  *)
(* measuring stops as soon as the counts that matter cannot change.         *)
(*                                                                          *)
(* A candidate has one severity per axis, 0 the ideal value (highest rate,  *)
(* no jitter) and Worst the far end of the search.  A link answers          *)
(* monotonically: what carries the load keeps carrying it when an axis is   *)
(* relaxed.  Between the networks that always pass and those that never do  *)
(* lie the noisy ones.                                                      *)
(***************************************************************************)
EXTENDS Integers

CONSTANTS
    Axis,       \* the axes searched
    Worst,      \* severity of the floor of the bandwidth, the ceiling of the rest
    Repeats,    \* runs per probe
    Required,   \* passing (good) runs that make a candidate pass
    BadCount    \* lossy runs that make it a bad case

ASSUME ProbingAssumption ==
    /\ Worst \in Nat \ {0}
    /\ Repeats \in Nat
    /\ Required \in 1..Repeats /\ BadCount \in 1..Repeats

Severity == 0..Worst
None == -1
Unit == Severity \union {None}
Candidate == [Axis -> Severity]
Ideal == [a \in Axis |-> 0]

At(c, axis, value) == [c EXCEPT ![axis] = value]

NoHarder(c, d) == \A a \in Axis : c[a] <= d[a]

DownClosed(S) == \A d \in S, c \in Candidate : NoHarder(c, d) => c \in S

VARIABLES
    link,       \* the candidates that always pass, and those that can
    phase,      \* which probe of the search this is
    probed,     \* its candidate
    sample      \* its runs so far: how many, how many passed, how many lost

probing == <<link, phase, probed, sample>>

NoRuns == [runs |-> 0, passed |-> 0, lossy |-> 0]

Link == {l \in [clean : SUBSET Candidate, usable : SUBSET Candidate] :
            l.clean \subseteq l.usable /\ DownClosed(l.clean) /\ DownClosed(l.usable)}

Remaining == Repeats - sample.runs

Good == sample.passed >= Required
Bad  == sample.lossy >= BadCount

NoLongerGood == sample.passed + Remaining < Required
NoLongerBad  == sample.lossy + Remaining < BadCount

\* Mutant: a probe that cannot pass stops, bad case or not.
StopOnFailure(mode) == Remaining = 0 \/ NoLongerGood

\* When the runs of a probe stop.  The requirements driver wants both verdicts
\* of a row, the loss-boundary driver only the one it asked for, and the capacity
\* driver makes all its runs.
Decided(mode) ==
    \/ Remaining = 0
    \/ mode = "both" /\ NoLongerGood /\ (Bad \/ NoLongerBad)
    \/ mode = "good" /\ NoLongerGood
    \/ mode = "bad" /\ NoLongerBad

\* One run under the candidate's profile, judged by the oracle.  The
\* requirements may allow some loss; the loss-boundary driver allows none.
Run(mode) ==
    /\ ~Decided(mode)
    /\ \E passes, lossy \in {0, 1} :
        /\ mode # "both" => passes + lossy <= 1
        /\ passes = 1 => probed \in link.usable
        /\ passes = 0 \/ lossy = 1 => probed \notin link.clean
        /\ sample' = [runs |-> sample.runs + 1,
                      passed |-> sample.passed + passes,
                      lossy |-> sample.lossy + lossy]
    /\ UNCHANGED <<link, phase, probed>>

\* A run in which the receiver accounts for no message at all: the summary has
\* no loss to tell (None), and the verdict of the run asks for it as a number.
NothingArrives(mode) ==
    /\ ~Decided(mode)
    /\ probed \notin link.usable
    /\ phase' = "unjudged"
    /\ UNCHANGED <<link, probed, sample>>

\* The next probe of the search.
Probe(name, c) ==
    /\ phase' = name
    /\ probed' = c
    /\ sample' = NoRuns
    /\ UNCHANGED link

\* The verdicts that a probe stopped early reports are those of all its runs,
\* whatever the runs it saved would have shown.
KeepsVerdict(mode) ==
    Decided(mode) =>
        /\ mode \in {"both", "good"} =>
            \A p \in 0..Remaining : (sample.passed + p >= Required) = Good
        /\ mode \in {"both", "bad"} =>
            \A l \in 0..Remaining : (sample.lossy + l >= BadCount) = Bad
================================================================================
