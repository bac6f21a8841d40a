------------------------ MODULE BenchmarkCommand_proofs ------------------------
(***************************************************************************)
(* The searches of a benchmark command, for any number of axes, severities, *)
(* runs, rounds and bisection steps: the state stays well formed, a probe   *)
(* that stops early keeps its verdicts, the requirements search never       *)
(* carries on with a network that cannot pass, and a capacity that is       *)
(* reported is the edge of what passes.  The lists of cases, for any axes   *)
(* and values: a row varies its axis only, and a verdict of ab is fair to a *)
(* drifting host.  And the regression gate, for any metrics, rows, levels   *)
(* and widths: what was banked is kept, what is offered can be banked, and  *)
(* what the lane says is what the jobs said.                                *)
(***************************************************************************)
EXTENDS BenchmarkCommand, FiniteSetTheorems, WellFoundedInduction, TLAPS

\* The runs of a probe are counted right.
Counted ==
    /\ sample.passed <= sample.runs
    /\ sample.lossy <= sample.runs

\* A probe that has passed a run probes a candidate that can pass.
PassedCanPass == sample.passed > 0 => probed \in link.usable

\* A probe with a failed run probes a candidate that does not always pass.
FailedIsNotClean == sample.passed < sample.runs => probed \notin link.clean

\* What each phase of the search stands on.
Footing ==
    /\ phase = "ideal" => turn = 0 /\ probed = Ideal
    /\ phase = "limit" => probed = At(current, axis, Limit(turn, bounds))
    /\ phase = "reset" => At(current, axis, Limit(turn, bounds)) \in link.usable

AnyPhase == SearchPhase \union BoundaryPhase \union CapacityPhase \union Ended
Known == [Axis -> [tight : BOOLEAN, failed : SUBSET Candidate]]

ProbeInv ==
    /\ link \in Link
    /\ phase \in AnyPhase
    /\ probed \in Candidate
    /\ sample \in [runs : 0..Repeats, passed : 0..Repeats, lossy : 0..Repeats]
    /\ Counted
    /\ PassedCanPass
    /\ FailedIsNotClean

SearchInv == SearchTypeOK /\ Footing /\ NeverHopeless

\* While the capacity is searched, the values below lo have an answer that can
\* be trusted at lo - 1, those above hi one at hi + 1.
CapacityInv ==
    /\ CapacityTypeOK
    /\ phase = "capacity_low" => lo = 0 /\ hi = Worst /\ best = None /\ probed = Loaded(0)
    /\ phase = "capacity" =>
        /\ lo <= hi /\ best = lo - 1 /\ best >= 0
        /\ Loaded(best) \in link.usable
        /\ hi < Worst => Loaded(hi + 1) \notin link.clean
        /\ \E mid \in lo..hi : probed = Loaded(mid)
    /\ CapacityIsTheEdge

Inv == ProbeInv /\ SearchInv /\ BoundaryTypeOK /\ CapacityInv

(***************************************************************************)
(* The operators                                                           *)
(***************************************************************************)
LEMMA AtIsCandidate ==
    ASSUME NEW c \in Candidate, NEW a, NEW v \in Severity
    PROVE  At(c, a, v) \in Candidate
  BY DEF At, Candidate

LEMMA IdealIsCandidate == Ideal \in Candidate
  BY ProbingAssumption DEF Ideal, Candidate, Severity

LEMMA EndsAreSeverities == 0 \in Severity /\ Worst \in Severity
  BY ProbingAssumption DEF Severity

LEMMA TurnsNat == Turns \in Nat /\ (Turns > 0 => Len(AxisOrder) \in Nat \ {0})
<1>1. Len(AxisOrder) \in Nat
  BY ProfileSearchAssumption
<1>2. Turns \in Nat
  BY <1>1, ProfileSearchAssumption DEF Turns
<1>3. Len(AxisOrder) = 0 => Turns = 0
  BY <1>1, ProfileSearchAssumption DEF Turns
<1> QED
  BY <1>1, <1>2, <1>3

\* A turn of the search belongs to one of the axes.
LEMMA AxisOfTurn ==
    ASSUME NEW t \in 1..Turns
    PROVE  AxisOf(t) \in Axis
<1> DEFINE n == Len(AxisOrder)
<1>1. n \in Nat \ {0} /\ t \in Nat \ {0}
  BY TurnsNat
<1>2. (t - 1) % n \in 0..(n - 1)
  BY <1>1
<1>3. ((t - 1) % n) + 1 \in 1..n
  BY <1>1, <1>2
<1> QED
  BY <1>3, ProfileSearchAssumption DEF AxisOf

LEMMA LimitIsSeverity ==
    ASSUME NEW t \in 1..Turns, NEW known \in [Axis -> [tight : BOOLEAN, failed : SUBSET Candidate]]
    PROVE  Limit(t, known) \in Severity
<1>1. AxisOf(t) \in Axis
  BY AxisOfTurn
<1>2. CASE known[AxisOf(t)].failed # {}
  <2>1. (CHOOSE c \in known[AxisOf(t)].failed : TRUE) \in known[AxisOf(t)].failed
    BY <1>2
  <2>2. (CHOOSE c \in known[AxisOf(t)].failed : TRUE) \in Candidate
    BY <1>1, <2>1
  <2> QED
    BY <1>1, <2>2, EndsAreSeverities DEF Limit, Candidate
<1>3. CASE known[AxisOf(t)].failed = {}
  BY <1>3, EndsAreSeverities DEF Limit
<1> QED
  BY <1>2, <1>3

LEMMA GuardIsEasier ==
    ASSUME NEW a \in Axis, NEW c \in Candidate
    PROVE  Guard(a, c) \in Candidate /\ NoHarder(Guard(a, c), c)
<1>1. c[a] \in Severity
  BY DEF Candidate
<1>2. c[a] > 0 => c[a] - 1 \in Severity
  BY <1>1, ProbingAssumption DEF Severity
<1>3. NoHarder(c, c)
  BY ProbingAssumption DEF NoHarder, Candidate, Severity
<1>4. ASSUME c[a] > 0
      PROVE  NoHarder(At(c, a, c[a] - 1), c)
  BY <1>1, ProbingAssumption DEF NoHarder, At, Candidate, Severity
<1> QED
  BY <1>1, <1>2, <1>3, <1>4, AtIsCandidate DEF Guard

LEMMA UsableIsDownClosed ==
    ASSUME link \in Link, NEW c \in Candidate, NEW d \in link.usable, NoHarder(c, d)
    PROVE  c \in link.usable
  BY DEF Link, DownClosed

(***************************************************************************)
(* A new probe, and the next turn of the search                            *)
(***************************************************************************)
LEMMA NewProbe ==
    ASSUME ProbeInv, NEW name \in AnyPhase, NEW c \in Candidate, Probe(name, c)
    PROVE  ProbeInv'
  BY ProbingAssumption DEF ProbeInv, Probe, NoRuns, Counted, PassedCanPass, FailedIsNotClean

\* A probe with good runs enough probes a candidate that can pass.
LEMMA GoodCanPass ==
    ASSUME ProbeInv, Good
    PROVE  probed \in link.usable
  BY ProbingAssumption DEF ProbeInv, Good, PassedCanPass

LEMMA NextTurn ==
    ASSUME ProbeInv, NEW known \in Known, NEW c \in Candidate, c \in link.usable,
           turn \in 0..Turns, guarded \subseteq Guardable,
           Continue(c, known), bounds' = known, guarded' = guarded,
           low' \in Candidate, high' \in Candidate, left' \in Nat
    PROVE  ProbeInv' /\ SearchInv'
<1>1. current' = c /\ turn' = turn + 1 /\ link' = link
  BY DEF Continue, Probe
<1>2. CASE turn < Turns
  <2>1. turn + 1 \in 1..Turns
    BY <1>2, TurnsNat
  <2>2. At(c, AxisOf(turn + 1), Limit(turn + 1, known)) \in Candidate
    BY <2>1, LimitIsSeverity, AtIsCandidate DEF Known
  <2>3. Probe("limit", At(c, AxisOf(turn + 1), Limit(turn + 1, known)))
    BY <1>2 DEF Continue
  <2>4. phase' = "limit" /\ probed' = At(c, AxisOf(turn + 1), Limit(turn + 1, known))
    BY <2>3 DEF Probe
  <2>5. ProbeInv'
    BY <2>2, <2>3, NewProbe DEF AnyPhase, SearchPhase
  <2>6. Footing'
    BY <1>1, <2>4 DEF Footing, axis
  <2> QED
    BY <1>1, <2>1, <2>4, <2>5, <2>6, TurnsNat DEF SearchInv, SearchTypeOK, NeverHopeless, Known
<1>3. CASE ~(turn < Turns)
  <2>1. turn + 1 \in 0..(Turns + 1)
    BY TurnsNat
  <2>2. Probe("final", c)
    BY <1>3 DEF Continue
  <2>3. ProbeInv'
    BY <2>2, NewProbe DEF AnyPhase, SearchPhase
  <2>4. phase' = "final"
    BY <2>2 DEF Probe
  <2> QED
    BY <1>1, <2>1, <2>3, <2>4 DEF SearchInv, SearchTypeOK, NeverHopeless, Known, Footing
<1> QED
  BY <1>2, <1>3

LEMMA SelectKeeps ==
    ASSUME ProbeInv, SearchInv, turn \in 1..Turns, NEW c \in Candidate, c \in link.usable,
           NEW tight \in BOOLEAN, NEW failed \in SUBSET Candidate, Select(c, tight, failed)
    PROVE  ProbeInv' /\ SearchInv'
<1> DEFINE known == [bounds EXCEPT ![axis] = [tight |-> tight, failed |-> failed]]
<1>1. axis \in Axis
  BY AxisOfTurn DEF axis
<1>2. known \in Known
  BY DEF SearchInv, SearchTypeOK, Known
<1>3. Guard(axis, c) \in Candidate /\ Guard(axis, c) \in link.usable
  BY <1>1, GuardIsEasier, UsableIsDownClosed DEF ProbeInv
<1>4. bounds' = known /\ Continue(Guard(axis, c), known)
  BY DEF Select
<1>5. low' \in Candidate /\ high' \in Candidate /\ left' \in Nat /\ guarded' = guarded
  BY IdealIsCandidate DEF Select
<1>6. turn \in 0..Turns /\ guarded \subseteq Guardable
  BY TurnsNat DEF SearchInv, SearchTypeOK
<1> HIDE DEF known
<1> QED
  BY <1>2, <1>3, <1>4, <1>5, <1>6, NextTurn

LEMMA BisectKeeps ==
    ASSUME ProbeInv, SearchInv, turn \in 1..Turns, current \in link.usable,
           NEW pass \in Candidate, pass \in link.usable, NEW fail \in Candidate,
           NEW steps \in Nat, Bisect(pass, fail, steps)
    PROVE  ProbeInv' /\ SearchInv'
<1>1. axis \in Axis
  BY AxisOfTurn DEF axis
<1>2. PICK mid \in pass[axis]..fail[axis] : Probe("bisect", At(current, axis, mid))
  BY DEF Bisect
<1>3. pass[axis] \in Severity /\ fail[axis] \in Severity
  BY <1>1 DEF Candidate
<1>4. mid \in Severity
  BY <1>2, <1>3, ProbingAssumption DEF Severity
<1>5. At(current, axis, mid) \in Candidate
  BY <1>4, AtIsCandidate DEF SearchInv, SearchTypeOK
<1>6. ProbeInv'
  BY <1>2, <1>5, NewProbe DEF AnyPhase, SearchPhase
<1>7. phase' = "bisect" /\ link' = link
  BY <1>2 DEF Probe
<1> QED
  BY <1>6, <1>7 DEF Bisect, SearchInv, SearchTypeOK, NeverHopeless, Footing

(***************************************************************************)
(* The actions of the requirements search                                  *)
(***************************************************************************)
\* A run of either driver leaves its search where it is.
LEMMA RunKeeps ==
    ASSUME ProbeInv, SearchInv, NEW mode \in {"both", "good", "bad", "all"}, Run(mode), UNCHANGED search
    PROVE  ProbeInv' /\ SearchInv'
<1>1. PICK passes \in {0, 1}, lossy \in {0, 1} :
        /\ passes = 1 => probed \in link.usable
        /\ passes = 0 => probed \notin link.clean
        /\ sample' = [runs |-> sample.runs + 1, passed |-> sample.passed + passes,
                      lossy |-> sample.lossy + lossy]
  BY DEF Run
<1>2. link' = link /\ phase' = phase /\ probed' = probed
  BY DEF Run
<1>3. sample.runs + 1 <= Repeats
  BY ProbingAssumption DEF Run, Decided, Remaining, ProbeInv
<1>4. sample' \in [runs : 0..Repeats, passed : 0..Repeats, lossy : 0..Repeats]
  BY <1>1, <1>3, ProbingAssumption DEF ProbeInv, Counted
<1>5. Counted' /\ PassedCanPass' /\ FailedIsNotClean'
  BY <1>1, <1>2, ProbingAssumption DEF ProbeInv, Counted, PassedCanPass, FailedIsNotClean
<1>6. ProbeInv'
  BY <1>2, <1>4, <1>5 DEF ProbeInv
<1>7. SearchInv'
  BY <1>2 DEF SearchInv, SearchTypeOK, Footing, NeverHopeless, search, axis
<1> QED
  BY <1>6, <1>7

LEMMA BaselineKeeps ==
    ASSUME ProbeInv, SearchInv, Baseline
    PROVE  ProbeInv' /\ SearchInv'
<1>1. phase = "ideal" /\ turn = 0 /\ probed = Ideal
  BY DEF Baseline, SearchInv, Footing
<1>2. CASE Good
  <2>1. Ideal \in link.usable
    BY <1>1, <1>2, GoodCanPass
  <2>2. Continue(Ideal, bounds) /\ UNCHANGED <<guarded, low, high, left, bounds>>
    BY <1>2 DEF Baseline
  <2> QED
    BY <1>1, <2>1, <2>2, NextTurn, IdealIsCandidate, TurnsNat DEF SearchInv, SearchTypeOK, Known
<1>3. CASE ~Good
  <2>1. phase' = "ideal_failed" /\ UNCHANGED <<link, probed, sample, search>>
    BY <1>3 DEF Baseline
  <2> QED
    BY <2>1 DEF ProbeInv, AnyPhase, Ended, Counted, PassedCanPass, FailedIsNotClean,
                SearchInv, SearchTypeOK, Footing, NeverHopeless, search
<1> QED
  BY <1>2, <1>3

LEMMA LimitPassesKeeps ==
    ASSUME ProbeInv, SearchInv, LimitPasses
    PROVE  ProbeInv' /\ SearchInv'
<1>1. phase = "limit" /\ turn \in 1..Turns /\ probed = At(current, axis, Limit(turn, bounds))
  BY DEF LimitPasses, SearchInv, SearchTypeOK, Footing
<1>2. probed \in Candidate /\ probed \in link.usable
  BY GoodCanPass DEF LimitPasses, ProbeInv
<1>3. CASE axis \in Resets /\ probed[axis] < Worst
  <2>1. Probe("reset", At(current, axis, Worst)) /\ UNCHANGED search
    BY <1>3 DEF LimitPasses
  <2>2. ProbeInv'
    BY <2>1, NewProbe, AtIsCandidate, EndsAreSeverities
    DEF AnyPhase, SearchPhase, SearchInv, SearchTypeOK
  <2>3. phase' = "reset" /\ link' = link
    BY <2>1 DEF Probe
  <2> QED
    BY <1>1, <1>2, <2>1, <2>2, <2>3
    DEF SearchInv, SearchTypeOK, Footing, NeverHopeless, search, axis
<1>4. CASE ~(axis \in Resets /\ probed[axis] < Worst)
  BY <1>1, <1>2, <1>4, SelectKeeps DEF LimitPasses
<1> QED
  BY <1>3, <1>4

LEMMA LimitFailsKeeps ==
    ASSUME ProbeInv, SearchInv, LimitFails
    PROVE  ProbeInv' /\ SearchInv'
<1>1. turn \in 1..Turns /\ current \in Candidate /\ current \in link.usable
  BY DEF LimitFails, SearchInv, SearchTypeOK, NeverHopeless
<1>2. probed \in Candidate /\ StepsOf(turn) \in Nat
  BY ProfileSearchAssumption DEF ProbeInv, StepsOf
<1> QED
  BY <1>1, <1>2, BisectKeeps DEF LimitFails

LEMMA ResetPassesKeeps ==
    ASSUME ProbeInv, SearchInv, ResetPasses
    PROVE  ProbeInv' /\ SearchInv'
<1>1. turn \in 1..Turns
  BY DEF ResetPasses, SearchInv, SearchTypeOK
<1>2. probed \in Candidate /\ probed \in link.usable
  BY GoodCanPass DEF ResetPasses, ProbeInv
<1> QED
  BY <1>1, <1>2, SelectKeeps DEF ResetPasses

LEMMA ResetFailsKeeps ==
    ASSUME ProbeInv, SearchInv, ResetFails
    PROVE  ProbeInv' /\ SearchInv'
<1> DEFINE pass == At(current, axis, Limit(turn, bounds))
<1>1. turn \in 1..Turns /\ current \in Candidate /\ current \in link.usable
  BY DEF ResetFails, SearchInv, SearchTypeOK, NeverHopeless
<1>2. pass \in link.usable
  BY DEF ResetFails, SearchInv, Footing
<1>3. pass \in Candidate
  BY <1>1, LimitIsSeverity, AtIsCandidate DEF SearchInv, SearchTypeOK
<1>4. probed \in Candidate /\ StepsOf(turn) \in Nat
  BY ProfileSearchAssumption DEF ProbeInv, StepsOf
<1>5. Bisect(pass, probed, StepsOf(turn))
  BY DEF ResetFails
<1> HIDE DEF pass
<1> QED
  BY <1>1, <1>2, <1>3, <1>4, <1>5, BisectKeeps

LEMMA BisectedKeeps ==
    ASSUME ProbeInv, SearchInv, Bisected
    PROVE  ProbeInv' /\ SearchInv'
<1> DEFINE pass == IF Good THEN probed ELSE low
           fail == IF Good THEN high ELSE probed
<1>1. turn \in 1..Turns /\ current \in link.usable /\ low \in link.usable
  BY DEF Bisected, SearchInv, SearchTypeOK, NeverHopeless
<1>2. pass \in Candidate /\ pass \in link.usable /\ fail \in Candidate
  BY <1>1, GoodCanPass DEF ProbeInv, SearchInv, SearchTypeOK
<1>3. left > 1 => left - 1 \in Nat
  BY DEF SearchInv, SearchTypeOK
<1>4. IF left > 1 THEN Bisect(pass, fail, left - 1) ELSE Select(pass, TRUE, {fail})
  BY DEF Bisected
<1> HIDE DEF pass, fail
<1> QED
  BY <1>1, <1>2, <1>3, <1>4, BisectKeeps, SelectKeeps

LEMMA FinalKeeps ==
    ASSUME ProbeInv, SearchInv, Final
    PROVE  ProbeInv' /\ SearchInv'
  BY DEF Final, ProbeInv, AnyPhase, Ended, Counted, PassedCanPass, FailedIsNotClean,
         SearchInv, SearchTypeOK, Footing, NeverHopeless, search

\* A run that cannot be judged ends the command and changes nothing else.
LEMMA UnjudgedKeeps ==
    ASSUME ProbeInv, SearchInv, NEW mode, NothingArrives(mode), UNCHANGED search
    PROVE  /\ ProbeInv' /\ SearchInv'
           /\ phase' \notin CapacityPhase \union {"capacity_found"}
<1>1. phase' = "unjudged" /\ UNCHANGED <<link, probed, sample>>
  BY DEF NothingArrives
<1>2. ProbeInv'
  BY <1>1 DEF ProbeInv, AnyPhase, Ended, Counted, PassedCanPass, FailedIsNotClean
<1>3. SearchInv'
  BY <1>1 DEF SearchInv, SearchTypeOK, Footing, NeverHopeless, search
<1> QED
  BY <1>1, <1>2, <1>3 DEF CapacityPhase

LEMMA SearchNextKeeps ==
    ASSUME ProbeInv, SearchInv, SearchNext
    PROVE  ProbeInv' /\ SearchInv'
  BY RunKeeps, UnjudgedKeeps, BaselineKeeps, LimitPassesKeeps, LimitFailsKeeps, ResetPassesKeeps,
     ResetFailsKeeps, BisectedKeeps, FinalKeeps DEF SearchNext

(***************************************************************************)
(* The actions of the loss-boundary search                                 *)
(***************************************************************************)
LEMMA OnAxisIsCandidate ==
    ASSUME NEW a, NEW u \in Severity
    PROVE  OnAxis(a, u) \in Candidate
  BY AtIsCandidate, IdealIsCandidate DEF OnAxis

LEMMA NothingSeen == <<>> \in Seq(BOOLEAN)
  OBVIOUS

LEMMA RecordsAreBoundaries == Nothing \in Boundary /\ OpenEnd \in Boundary
  BY EndsAreSeverities DEF Nothing, OpenEnd, Boundary, Unit

\* A step to a probe of the loss-boundary driver, and none of the other's state.
LEMMA NewBoundaryProbe ==
    ASSUME ProbeInv, NEW name \in BoundaryPhase, NEW c \in Candidate, Probe(name, c)
    PROVE  ProbeInv' /\ phase' \in BoundaryPhase
  BY NewProbe DEF AnyPhase, Probe

LEMMA ConcludeKeeps ==
    ASSUME BoundaryTypeOK, NEW a \in {"bandwidth", "jitter"}, NEW r \in Boundary, Conclude(a, r)
    PROVE  BoundaryTypeOK'
<1>1. report' \in [Axis -> Boundary] /\ seen' \in Seq(BOOLEAN)
  BY NothingSeen DEF BoundaryTypeOK, Conclude
<1> QED
  BY <1>1, EndsAreSeverities DEF BoundaryTypeOK, Conclude, Bracket, Unit

LEMMA BracketKeeps ==
    ASSUME BoundaryTypeOK, NEW p \in Severity, NEW f \in Severity, NEW nb \in Severity,
           NEW b \in Unit, Bracket(p, f, nb, b), report' = report, seen' \in Seq(BOOLEAN)
    PROVE  BoundaryTypeOK'
  BY DEF BoundaryTypeOK, Bracket

LEMMA ReportRateKeeps ==
    ASSUME ProbeInv, BoundaryTypeOK, NEW r \in Boundary, ReportRate(r)
    PROVE  ProbeInv' /\ BoundaryTypeOK' /\ phase' \in BoundaryPhase
<1>1. BoundaryTypeOK'
  BY ConcludeKeeps DEF ReportRate
<1>2. ProbeInv' /\ phase' \in BoundaryPhase
  BY NewBoundaryProbe, OnAxisIsCandidate, EndsAreSeverities DEF ReportRate, BoundaryPhase
<1> QED
  BY <1>1, <1>2

LEMMA ReportJitterKeeps ==
    ASSUME ProbeInv, BoundaryTypeOK, NEW r \in Boundary, ReportJitter(r)
    PROVE  ProbeInv' /\ BoundaryTypeOK' /\ phase' \in BoundaryPhase
<1>1. BoundaryTypeOK'
  BY ConcludeKeeps DEF ReportJitter
<1>2. report' \in [Axis -> Boundary]
  BY <1>1 DEF BoundaryTypeOK
<1>3. Combined(report') \in Candidate
  BY <1>2, EndsAreSeverities DEF Combined, Candidate, Boundary, Unit
<1>4. ProbeInv' /\ phase' \in BoundaryPhase
  BY <1>3, NewBoundaryProbe DEF ReportJitter, BoundaryPhase
<1> QED
  BY <1>1, <1>4

LEMMA NextRateKeeps ==
    ASSUME ProbeInv, BoundaryTypeOK, NEW p \in Severity, NEW f \in Severity, NextRate(p, f)
    PROVE  ProbeInv' /\ BoundaryTypeOK' /\ phase' \in BoundaryPhase
<1>1. BoundaryTypeOK'
  BY BracketKeeps DEF NextRate, BoundaryTypeOK
<1>2. f - p > 1 => MidRate(p, f) \in Severity
  BY ProbingAssumption DEF MidRate, Severity
<1>3. ProbeInv' /\ phase' \in BoundaryPhase
  BY <1>2, NewBoundaryProbe, OnAxisIsCandidate DEF NextRate, BoundaryPhase
<1> QED
  BY <1>1, <1>3

LEMMA JitterEndKeeps ==
    ASSUME ProbeInv, BoundaryTypeOK, NEW next \in BoundaryPhase, NEW c \in Candidate,
           JitterEnd(next, c)
    PROVE  ProbeInv' /\ BoundaryTypeOK' /\ phase' \in BoundaryPhase
<1>1. Good \in BOOLEAN
  BY DEF Good
<1>2. BoundaryTypeOK'
  BY <1>1 DEF JitterEnd, BoundaryTypeOK, bracket
<1> QED
  BY <1>2, NewBoundaryProbe DEF JitterEnd

LEMMA NextLossyKeeps ==
    ASSUME ProbeInv, BoundaryTypeOK, NEW p \in Severity, NEW f \in Severity,
           NEW nb \in Severity, NEW b \in Unit, NextLossy(p, f, nb, b),
           seen' = <<>>
    PROVE  ProbeInv' /\ BoundaryTypeOK' /\ phase' \in BoundaryPhase
<1>1. CASE nb # p /\ b - nb = 1
  <2>1. [good |-> p, notGood |-> f, bad |-> b, tight |-> TRUE] \in Boundary
    BY DEF Boundary, Unit
  <2> QED
    BY <1>1, <2>1, ReportJitterKeeps DEF NextLossy
<1>2. CASE ~(nb # p /\ b - nb = 1)
  <2>1. BoundaryTypeOK'
    BY <1>2, BracketKeeps, NothingSeen DEF NextLossy
  <2>2. b - nb > 1 => MidJitter(nb, b) \in Severity
    BY ProbingAssumption DEF MidJitter, Severity, Unit, None
  <2>3. ProbeInv' /\ phase' \in BoundaryPhase
    BY <1>2, <2>2, NewBoundaryProbe, OnAxisIsCandidate DEF NextLossy, BoundaryPhase
  <2> QED
    BY <2>1, <2>3
<1> QED
  BY <1>1, <1>2

LEMMA NextCleanKeeps ==
    ASSUME ProbeInv, BoundaryTypeOK, NEW p \in Severity, NEW f \in Severity,
           NEW lossy \in BOOLEAN, NextClean(p, f, lossy), seen' = <<>>
    PROVE  ProbeInv' /\ BoundaryTypeOK' /\ phase' \in BoundaryPhase
<1>1. CASE f - p > 1
  <2>1. BoundaryTypeOK'
    BY <1>1, BracketKeeps, NothingSeen, EndsAreSeverities DEF NextClean, BoundaryTypeOK, Unit
  <2>2. MidJitter(p, f) \in Severity
    BY <1>1, ProbingAssumption DEF MidJitter, Severity
  <2>3. ProbeInv' /\ phase' \in BoundaryPhase
    BY <1>1, <2>2, NewBoundaryProbe, OnAxisIsCandidate DEF NextClean, BoundaryPhase
  <2> QED
    BY <2>1, <2>3
<1>2. CASE ~(f - p > 1) /\ lossy
  <2>1. NextLossy(p, f, p, Worst)
    BY <1>2 DEF NextClean
  <2>2. Worst \in Unit
    BY EndsAreSeverities DEF Unit
  <2> QED
    BY <2>1, <2>2, NextLossyKeeps
<1>3. CASE ~(f - p > 1) /\ ~lossy
  <2>1. [good |-> p, notGood |-> f, bad |-> None, tight |-> FALSE] \in Boundary
    BY DEF Boundary, Unit
  <2> QED
    BY <1>3, <2>1, ReportJitterKeeps DEF NextClean
<1> QED
  BY <1>1, <1>2, <1>3

LEMMA BoundarySteps ==
    ASSUME ProbeInv, BoundaryTypeOK,
           \/ RateHigh \/ RateLow \/ RateBisect \/ RateBad
           \/ JitterLow \/ JitterHigh \/ JitterLost
           \/ JitterBisect \/ JitterBad \/ JitterNotBad
    PROVE  ProbeInv' /\ BoundaryTypeOK' /\ phase' \in BoundaryPhase
<1> USE NothingSeen
<1>1. probed["bandwidth"] \in Severity /\ probed["jitter"] \in Severity
  BY LossBoundariesAssumption DEF ProbeInv, Candidate
<1>2. good \in Severity /\ notGood \in Severity /\ notBad \in Severity /\ bad \in Unit
  BY DEF BoundaryTypeOK
<1>3. Good \in BOOLEAN /\ Bad \in BOOLEAN
  BY DEF Good, Bad
<1>4. CASE RateHigh
  <2>1. BoundaryTypeOK'
    BY <1>3, <1>4 DEF RateHigh, BoundaryTypeOK, bracket
  <2> QED
    BY <1>4, <2>1, NewBoundaryProbe, OnAxisIsCandidate, EndsAreSeverities DEF RateHigh, BoundaryPhase
<1>5. CASE RateLow
  BY <1>5, ReportRateKeeps, NextRateKeeps, RecordsAreBoundaries, EndsAreSeverities DEF RateLow
<1>6. CASE RateBisect
  BY <1>1, <1>2, <1>6, NextRateKeeps DEF RateBisect
<1>7. CASE RateBad
  <2> DEFINE u == probed["bandwidth"]
             Found(b) == [good |-> good, notGood |-> notGood, bad |-> b, tight |-> b = good + 1]
  <2>1. \A b \in Unit : Found(b) \in Boundary
    BY <1>2 DEF Boundary, Unit
  <2>2. CASE Bad
    <3>1. ReportRate(Found(u))
      BY <1>7, <2>2 DEF RateBad
    <3>2. u \in Unit
      BY <1>1 DEF Unit
    <3> HIDE DEF Found, u
    <3> QED
      BY <2>1, <3>1, <3>2, ReportRateKeeps
  <2>3. CASE ~Bad /\ u = Worst
    <3>1. ReportRate(Found(None))
      BY <1>7, <2>3 DEF RateBad
    <3> HIDE DEF Found
    <3> QED
      BY <2>1, <3>1, ReportRateKeeps DEF Unit
  <2>4. CASE ~Bad /\ u # Worst
    <3>1. Probe("rate_bad", OnAxis("bandwidth", u + 1)) /\ UNCHANGED boundary
      BY <1>7, <2>4 DEF RateBad
    <3>2. u + 1 \in Severity
      BY <1>1, <2>4, ProbingAssumption DEF Severity
    <3>3. BoundaryTypeOK'
      BY <3>1 DEF BoundaryTypeOK, boundary, bracket
    <3> QED
      BY <3>1, <3>2, <3>3, NewBoundaryProbe, OnAxisIsCandidate DEF BoundaryPhase
  <2> QED
    BY <2>2, <2>3, <2>4
<1>8. CASE JitterLow
  BY <1>8, JitterEndKeeps, OnAxisIsCandidate, EndsAreSeverities DEF JitterLow, BoundaryPhase
<1>9. CASE JitterHigh
  BY <1>9, JitterEndKeeps, OnAxisIsCandidate, EndsAreSeverities DEF JitterHigh, BoundaryPhase
<1>10. CASE JitterLost
  BY <1>3, <1>10, ReportJitterKeeps, NextCleanKeeps, RecordsAreBoundaries, EndsAreSeverities
  DEF JitterLost
<1>11. CASE JitterBisect
  <2>1. (bad # None) \in BOOLEAN
    OBVIOUS
  <2> QED
    BY <1>1, <1>2, <1>11, <2>1, NextCleanKeeps DEF JitterBisect
<1>12. CASE JitterBad
  <2>1. probed["jitter"] \in Unit
    BY <1>1 DEF Unit
  <2> QED
    BY <1>1, <1>2, <1>12, <2>1, NextLossyKeeps DEF JitterBad
<1>13. CASE JitterNotBad
  <2>1. [good |-> good, notGood |-> notGood, bad |-> bad, tight |-> TRUE] \in Boundary
    BY <1>2 DEF Boundary, Unit
  <2> QED
    BY <1>13, <2>1, ReportJitterKeeps DEF JitterNotBad
<1> QED
  BY <1>4, <1>5, <1>6, <1>7, <1>8, <1>9, <1>10, <1>11, <1>12, <1>13

LEMMA BoundaryNextKeeps ==
    ASSUME ProbeInv, SearchInv, BoundaryTypeOK, BoundaryNext, UNCHANGED search
    PROVE  ProbeInv' /\ SearchInv' /\ BoundaryTypeOK'
<1>1. CASE phase \in BoundaryPhase /\ Run(Mode) /\ UNCHANGED boundary
  <2>1. Mode \in {"both", "good", "bad", "all"}
    BY DEF Mode
  <2>2. ProbeInv' /\ SearchInv'
    BY <1>1, <2>1, RunKeeps
  <2>3. BoundaryTypeOK'
    BY <1>1 DEF BoundaryTypeOK, boundary, bracket
  <2> QED
    BY <2>2, <2>3
<1>2. CASE Report
  <2>1. phase' \in {"raised", "printed"} /\ UNCHANGED <<link, probed, sample, boundary>>
    BY <1>2 DEF Report
  <2>2. ProbeInv'
    BY <2>1 DEF ProbeInv, AnyPhase, Ended, Counted, PassedCanPass, FailedIsNotClean
  <2>3. SearchInv'
    BY <2>1 DEF SearchInv, SearchTypeOK, Footing, NeverHopeless, search
  <2>4. BoundaryTypeOK'
    BY <2>1 DEF BoundaryTypeOK, boundary, bracket
  <2> QED
    BY <2>2, <2>3, <2>4
<1>3. CASE phase \in BoundaryPhase /\ NothingArrives(Mode) /\ UNCHANGED boundary
  <2>1. ProbeInv' /\ SearchInv'
    BY <1>3, UnjudgedKeeps
  <2>2. BoundaryTypeOK'
    BY <1>3 DEF BoundaryTypeOK, boundary, bracket
  <2> QED
    BY <2>1, <2>2
<1>4. CASE \/ RateHigh \/ RateLow \/ RateBisect \/ RateBad
           \/ JitterLow \/ JitterHigh \/ JitterLost
           \/ JitterBisect \/ JitterBad \/ JitterNotBad
  <2>1. ProbeInv' /\ BoundaryTypeOK' /\ phase' \in BoundaryPhase
    BY <1>4, BoundarySteps
  <2>2. SearchInv'
    BY <2>1 DEF SearchInv, SearchTypeOK, Footing, NeverHopeless, search, BoundaryPhase
  <2> QED
    BY <2>1, <2>2
<1> QED
  BY <1>1, <1>2, <1>3, <1>4 DEF BoundaryNext

\* Neither of the other drivers enters a phase of this one, so what it knows
\* of its search stays.
LEMMA OtherDriverKeeps ==
    ASSUME CapacityInv, UNCHANGED capacity, link' = link,
           phase' \notin CapacityPhase \union {"capacity_found"}
    PROVE  CapacityInv'
  BY DEF CapacityInv, CapacityTypeOK, CapacityIsTheEdge, CapacityPhase, capacity

LEMMA SearchLeavesCapacity ==
    ASSUME ProbeInv, SearchNext
    PROVE  link' = link /\ phase' \notin CapacityPhase \union {"capacity_found"}
<1> USE DEF CapacityPhase, Probe
<1>1. CASE phase \in SearchPhase /\ Run("both") /\ UNCHANGED search
  BY <1>1 DEF Run, SearchPhase
<1>2. CASE Baseline
  BY <1>2 DEF Baseline, Continue
<1>3. CASE LimitPasses
  BY <1>3 DEF LimitPasses, Select, Continue
<1>4. CASE LimitFails
  BY <1>4 DEF LimitFails, Bisect
<1>5. CASE ResetPasses
  BY <1>5 DEF ResetPasses, Select, Continue
<1>6. CASE ResetFails
  BY <1>6 DEF ResetFails, Bisect
<1>7. CASE Bisected
  BY <1>7 DEF Bisected, Select, Continue, Bisect
<1>8. CASE Final
  BY <1>8 DEF Final
<1>9. CASE phase \in SearchPhase /\ NothingArrives("both") /\ UNCHANGED search
  BY <1>9 DEF NothingArrives
<1> QED
  BY <1>1, <1>2, <1>3, <1>4, <1>5, <1>6, <1>7, <1>8, <1>9 DEF SearchNext

LEMMA BoundaryLeavesCapacity ==
    ASSUME ProbeInv, BoundaryTypeOK, BoundaryNext
    PROVE  link' = link /\ phase' \notin CapacityPhase \union {"capacity_found"}
<1> USE DEF CapacityPhase, Probe
<1>1. CASE phase \in BoundaryPhase /\ Run(Mode) /\ UNCHANGED boundary
  BY <1>1 DEF Run, BoundaryPhase
<1>2. CASE RateHigh \/ RateLow \/ RateBisect \/ RateBad
  BY <1>2 DEF RateHigh, RateLow, RateBisect, RateBad, ReportRate, NextRate
<1>3. CASE JitterLow \/ JitterHigh \/ JitterLost
  BY <1>3 DEF JitterLow, JitterHigh, JitterLost, JitterEnd, ReportJitter, NextClean, NextLossy
<1>4. CASE JitterBisect \/ JitterBad \/ JitterNotBad
  BY <1>4 DEF JitterBisect, JitterBad, JitterNotBad, ReportJitter, NextClean, NextLossy
<1>5. CASE Report
  BY <1>5 DEF Report
<1>6. CASE phase \in BoundaryPhase /\ NothingArrives(Mode) /\ UNCHANGED boundary
  BY <1>6 DEF NothingArrives
<1> QED
  BY <1>1, <1>2, <1>3, <1>4, <1>5, <1>6 DEF BoundaryNext

(***************************************************************************)
(* The actions of the capacity search                                      *)
(***************************************************************************)
LEMMA LoadedIsCandidate ==
    ASSUME NEW v \in Severity
    PROVE  Loaded(v) \in Candidate /\ Loaded(v)[Load] = v
  BY AtIsCandidate, IdealIsCandidate, CapacityAssumption DEF Loaded, At, Ideal

\* A full probe: the vote follows what the link can do.
LEMMA VoteIsRight ==
    ASSUME ProbeInv, Decided("all")
    PROVE  /\ Majority => probed \in link.usable
           /\ ~Majority => probed \notin link.clean
<1>1. sample.runs = Repeats /\ Repeats \in Nat \ {0}
  BY ProbingAssumption DEF Decided, Remaining, ProbeInv
<1> QED
  BY <1>1, ProbingAssumption DEF ProbeInv, Majority, PassedCanPass, FailedIsNotClean, Counted

LEMMA NarrowKeeps ==
    ASSUME ProbeInv, NEW l \in 0..(Worst + 1), NEW h \in -1..Worst, NEW b \in 0..Worst,
           b = l - 1, l <= h + 1, Loaded(b) \in link.usable,
           h < Worst => Loaded(h + 1) \notin link.clean,
           Narrow(l, h, b)
    PROVE  ProbeInv' /\ CapacityInv' /\ phase' \in CapacityPhase \union {"capacity_found"}
<1> USE ProbingAssumption
<1>1. CapacityTypeOK'
  BY DEF Narrow, CapacityTypeOK, Unit, Severity
<1>2. CASE l <= h
  <2> DEFINE mid == (l + h) \div 2
  <2>1. mid \in l..h /\ mid \in Severity
    BY <1>2 DEF Severity
  <2>2. Probe("capacity", Loaded(mid))
    BY <1>2 DEF Narrow
  <2> HIDE DEF mid
  <2>3. ProbeInv'
    BY <2>1, <2>2, NewProbe, LoadedIsCandidate DEF AnyPhase, CapacityPhase
  <2>4. phase' = "capacity" /\ probed' = Loaded(mid) /\ link' = link
    BY <2>2 DEF Probe
  <2>5. lo' = l /\ hi' = h /\ best' = b
    BY DEF Narrow
  <2> QED
    BY <1>1, <1>2, <2>1, <2>3, <2>4, <2>5 DEF CapacityInv, CapacityIsTheEdge, CapacityPhase
<1>3. CASE ~(l <= h)
  <2>1. phase' = "capacity_found" /\ UNCHANGED <<link, probed, sample>>
    BY <1>3 DEF Narrow
  <2>2. ProbeInv'
    BY <2>1 DEF ProbeInv, AnyPhase, Ended, Counted, PassedCanPass, FailedIsNotClean
  <2>3. best' = b /\ h = b
    BY <1>3 DEF Narrow
  <2>4. CapacityIsTheEdge'
    BY <2>1, <2>3 DEF CapacityIsTheEdge
  <2> QED
    BY <1>1, <2>1, <2>2, <2>4 DEF CapacityInv
<1> QED
  BY <1>2, <1>3

LEMMA LowestProbedKeeps ==
    ASSUME ProbeInv, CapacityInv, LowestProbed
    PROVE  ProbeInv' /\ CapacityInv' /\ phase' \in CapacityPhase \union {"capacity_found"}
<1>1. lo = 0 /\ hi = Worst /\ best = None /\ probed = Loaded(0)
  BY DEF LowestProbed, CapacityInv
<1>2. CASE Majority
  <2>1. Loaded(0) \in link.usable
    BY <1>1, <1>2, VoteIsRight DEF LowestProbed
  <2>2. Narrow(1, Worst, 0)
    BY <1>1, <1>2 DEF LowestProbed
  <2> QED
    BY <2>1, <2>2, NarrowKeeps, ProbingAssumption
<1>3. CASE ~Majority
  <2>1. Loaded(0) \notin link.clean
    BY <1>1, <1>3, VoteIsRight DEF LowestProbed
  <2>2. phase' = "capacity_found" /\ UNCHANGED <<link, probed, sample, capacity>>
    BY <1>3 DEF LowestProbed
  <2>3. ProbeInv'
    BY <2>2 DEF ProbeInv, AnyPhase, Ended, Counted, PassedCanPass, FailedIsNotClean
  <2>4. best' + 1 = 0 /\ best' = None
    BY <1>1, <2>2 DEF capacity, None
  <2>5. CapacityIsTheEdge'
    BY <2>1, <2>2, <2>4 DEF CapacityIsTheEdge
  <2> QED
    BY <2>2, <2>3, <2>5 DEF CapacityInv, CapacityTypeOK, capacity
<1> QED
  BY <1>2, <1>3

LEMMA MiddleProbedKeeps ==
    ASSUME ProbeInv, CapacityInv, MiddleProbed
    PROVE  ProbeInv' /\ CapacityInv' /\ phase' \in CapacityPhase \union {"capacity_found"}
<1> USE ProbingAssumption
<1>1. /\ lo <= hi /\ best = lo - 1 /\ best >= 0
      /\ Loaded(best) \in link.usable
      /\ hi < Worst => Loaded(hi + 1) \notin link.clean
      /\ lo \in 0..(Worst + 1) /\ hi \in -1..Worst
  BY DEF MiddleProbed, CapacityInv, CapacityTypeOK
<1>2. PICK mid \in lo..hi : probed = Loaded(mid)
  BY DEF MiddleProbed, CapacityInv
<1>3. mid \in Severity /\ probed[Load] = mid
  BY <1>1, <1>2, LoadedIsCandidate DEF Severity
<1>4. CASE Majority
  <2>1. Loaded(mid) \in link.usable
    BY <1>2, <1>4, VoteIsRight DEF MiddleProbed
  <2>2. Narrow(mid + 1, hi, mid)
    BY <1>3, <1>4 DEF MiddleProbed
  <2>3. mid + 1 \in 0..(Worst + 1) /\ mid + 1 <= hi + 1 /\ mid = (mid + 1) - 1 /\ mid \in 0..Worst
    BY <1>1, <1>2, <1>3 DEF Severity
  <2> QED
    BY <1>1, <2>1, <2>2, <2>3, NarrowKeeps
<1>5. CASE ~Majority
  <2>1. Loaded(mid) \notin link.clean
    BY <1>2, <1>5, VoteIsRight DEF MiddleProbed
  <2>2. Narrow(lo, mid - 1, best)
    BY <1>3, <1>5 DEF MiddleProbed
  <2>3. mid - 1 \in -1..Worst /\ lo <= (mid - 1) + 1 /\ (mid - 1) + 1 = mid /\ best \in 0..Worst
    BY <1>1, <1>2, <1>3 DEF Severity
  <2> QED
    BY <1>1, <2>1, <2>2, <2>3, NarrowKeeps
<1> QED
  BY <1>4, <1>5

LEMMA CapacityNextKeeps ==
    ASSUME Inv, CapacityNext, UNCHANGED <<search, boundary>>
    PROVE  Inv'
<1>1. BoundaryTypeOK'
  BY DEF Inv, BoundaryTypeOK, boundary, bracket
<1>2. CASE phase \in CapacityPhase /\ Run("all") /\ UNCHANGED capacity
  <2>1. ProbeInv' /\ SearchInv'
    BY <1>2, RunKeeps DEF Inv
  <2>2. CapacityInv'
    BY <1>2 DEF Inv, CapacityInv, CapacityTypeOK, CapacityIsTheEdge, CapacityPhase, Run, capacity
  <2> QED
    BY <1>1, <2>1, <2>2 DEF Inv
<1>3. CASE LowestProbed \/ MiddleProbed
  <2>1. ProbeInv' /\ CapacityInv' /\ phase' \in CapacityPhase \union {"capacity_found"}
    BY <1>3, LowestProbedKeeps, MiddleProbedKeeps DEF Inv
  <2>2. SearchInv'
    BY <2>1 DEF Inv, SearchInv, SearchTypeOK, Footing, NeverHopeless, search, CapacityPhase
  <2> QED
    BY <1>1, <2>1, <2>2 DEF Inv
<1> QED
  BY <1>2, <1>3 DEF CapacityNext

(***************************************************************************)
(* The regression gate                                                     *)
(***************************************************************************)
\* The batch of a command that is printed improves on the bands as they are.
OfferImproves == offer # NoBatch => ~Refused(offer, {}) /\ Improvement(offer)

GateInv == GateTypeOK /\ OldLevelsStayRed /\ OfferImproves /\ SummaryMatchesTheLane

LEMMA BatchFields ==
    ASSUME NEW batch \in Batch
    PROVE  /\ batch.runner \in Runner /\ batch.spread \in Nat
           /\ DOMAIN batch.at \subseteq Metric
           /\ \A m \in DOMAIN batch.at : batch.at[m] \in Level
<1>1. PICK M \in SUBSET Metric : batch \in [runner : Runner, at : [M -> Level], spread : Spread]
  BY DEF Batch
<1> QED
  BY <1>1, BandGateAssumption

\* A verdict says within exactly when its command exits with zero.
Straight(judged) ==
    /\ judged.verdict \in {"WITHIN", "REGRESSED", "IMPROVED", "REFUSED", "EXPECT_FAILED", "BOUNDARY_WIDENED"}
    /\ judged.code \in 0..2
    /\ judged.verdict = "WITHIN" <=> judged.code = 0

LEMMA BandingIsStraight ==
    ASSUME NEW batch, NEW required
    PROVE  /\ Straight(Banding(batch, required))
           /\ Banding(batch, required).verdict \in {"WITHIN", "REGRESSED", "IMPROVED", "REFUSED"}
           /\ Banding(batch, required).verdict = "IMPROVED" => ~Refused(batch, {}) /\ Improvement(batch)
<1>1. ~Refused(batch, required) => ~Refused(batch, {})
  BY DEF Refused
<1>2. CASE Refused(batch, required)
  BY <1>2 DEF Banding, Judged, Straight
<1>3. CASE ~Refused(batch, required) /\ \E m \in Banded : Regressed(m, batch.at[m])
  <2>1. ~Improvement(batch)
    BY <1>3 DEF Improvement
  <2> QED
    BY <1>3, <2>1 DEF Banding, Judged, Straight
<1>4. CASE ~Refused(batch, required) /\ Improvement(batch)
  <2>1. ~\E m \in Banded : Regressed(m, batch.at[m])
    BY <1>4 DEF Improvement
  <2> QED
    BY <1>1, <1>4, <2>1 DEF Banding, Judged, Straight
<1>5. CASE /\ ~Refused(batch, required) /\ ~Improvement(batch)
           /\ ~\E m \in Banded : Regressed(m, batch.at[m])
  BY <1>5 DEF Banding, Judged, Straight
<1> QED
  BY <1>2, <1>3, <1>4, <1>5

\* What a row's kind asks besides its bands keeps the verdict straight, and makes
\* nothing an improvement that its bands did not.
LEMMA VerdictIsStraight ==
    ASSUME GateTypeOK, NEW batch, NEW outcome \in Outcome(row.kind)
    PROVE  /\ Straight(Verdict(batch, outcome))
           /\ Verdict(batch, outcome).verdict = "IMPROVED" => ~Refused(batch, {}) /\ Improvement(batch)
<1> DEFINE judged == Banding(batch, GatedBy(row))
<1>1. row \in RowType /\ (row.kind # "replay" => row.gates # <<>>)
  BY BandGateAssumption DEF GateTypeOK
<1>2. /\ Straight(judged)
      /\ judged.verdict \in {"WITHIN", "REGRESSED", "IMPROVED", "REFUSED"}
      /\ judged.verdict = "IMPROVED" => ~Refused(batch, {}) /\ Improvement(batch)
  BY BandingIsStraight
<1> HIDE DEF judged
<1>3. CASE row.kind = "performance"
  <2>1. Verdict(batch, outcome) = judged
    BY <1>1, <1>3 DEF Verdict, judged
  <2> QED
    BY <1>2, <2>1
<1>4. CASE row.kind = "boundary"
  <2>1. Verdict(batch, outcome) = BoundaryVerdict(judged, outcome)
    BY <1>1, <1>4 DEF Verdict, judged
  <2>2. CASE judged.verdict # "WITHIN" \/ outcome = "as_documented"
    BY <1>2, <2>1, <2>2 DEF BoundaryVerdict
  <2>3. CASE judged.verdict = "WITHIN" /\ outcome = "bad_is_good"
    BY <2>1, <2>3 DEF BoundaryVerdict, Judged, Straight
  <2>4. CASE judged.verdict = "WITHIN" /\ outcome \notin {"as_documented", "bad_is_good"}
    BY <2>1, <2>4 DEF BoundaryVerdict, Judged, Straight
  <2> QED
    BY <2>2, <2>3, <2>4
<1>5. CASE row.kind = "replay"
  <2>1. outcome \in {"arrived", "incomplete"}
    BY <1>5 DEF Outcome
  <2>2. CASE row.gates = <<>>
    <3>1. Verdict(batch, outcome) = BagVerdict(Judged("RAN", 0), outcome)
      BY <1>5, <2>2 DEF Verdict
    <3> QED
      BY <2>1, <3>1 DEF BagVerdict, Judged, Straight
  <2>3. CASE row.gates # <<>>
    <3>1. Verdict(batch, outcome) = BagVerdict(judged, outcome)
      BY <1>5, <2>3 DEF Verdict, judged
    <3>2. CASE outcome = "incomplete" /\ judged.code = 0
      <4>1. judged.verdict = "WITHIN"
        BY <1>2, <3>2 DEF Straight
      <4>2. BagVerdict(judged, outcome) = Judged("EXPECT_FAILED", 1)
        BY <3>2, <4>1 DEF BagVerdict
      <4> QED
        BY <3>1, <4>2 DEF Judged, Straight
    <3>3. CASE ~(outcome = "incomplete" /\ judged.code = 0)
      <4>1. BagVerdict(judged, outcome) = judged
        BY <1>2, <3>3 DEF BagVerdict
      <4> QED
        BY <1>2, <3>1, <4>1
    <3> QED
      BY <3>2, <3>3
  <2> QED
    BY <2>2, <2>3
<1> QED
  BY <1>1, <1>3, <1>4, <1>5 DEF RowType

\* What is written of a straight verdict is red exactly when the command fails.
LEMMA WriteKeeps ==
    ASSUME NEW judged, NEW mode \in {"gate", "monitor", "no_compare"}, Write(judged, mode),
           judged.verdict \in {"RAN", "WITHIN", "REGRESSED", "IMPROVED", "REFUSED", "EXPECT_FAILED", "BOUNDARY_WIDENED"},
           judged.code \in 0..2,
           mode = "gate" => Straight(judged)
    PROVE  doc' \in Doc /\ SummaryMatchesTheLane'
<1>1. doc' = [verdict |-> judged.verdict, code |-> judged.code, gates |-> mode = "gate",
              exit |-> IF mode = "monitor" THEN 0 ELSE judged.code]
  BY DEF Write
<1>2. doc' \in Doc
  BY <1>1 DEF Doc
<1>3. doc'.gates => Straight(judged) /\ doc'.exit = judged.code
  BY <1>1
<1>4. doc'.verdict = judged.verdict /\ doc'.code = judged.code
  BY <1>1
<1>5. CASE doc' = NoDoc
  BY <1>2, <1>5 DEF SummaryMatchesTheLane
<1>6. CASE doc' # NoDoc /\ doc'.gates
  <2>1. (doc'.verdict # "WITHIN" \/ doc'.code # 0) <=> doc'.exit # 0
    BY <1>3, <1>4, <1>6 DEF Straight
  <2> QED
    BY <1>2, <1>6, <2>1 DEF SummaryMatchesTheLane, Red
<1>7. CASE ~doc'.gates
  BY <1>2, <1>7 DEF SummaryMatchesTheLane
<1> QED
  BY <1>5, <1>6, <1>7

\* A band that was moved is better at both edges, and its old centre is worse than
\* the new one by more than its half-width where the level was an improvement.
LEMMA RatchetKeeps ==
    ASSUME GateInv, NEW batch \in Batch, NEW selected \in SUBSET DOMAIN batch.at, Ratchet(batch, selected)
    PROVE  GateInv'
<1> DEFINE moved == selected \cap Banded
<1>1. /\ bands' = [m \in Metric |-> IF m \in moved THEN Recentred(m, batch) ELSE bands[m]]
      /\ past' = [m \in Metric |->
             IF m \in moved /\ Improved(m, batch.at[m]) THEN past[m] \union {bands[m].center} ELSE past[m]]
      /\ offer' = NoBatch /\ row' = row /\ doc' = doc
      /\ \A m \in moved : MayMove(m, batch)
  BY DEF Ratchet
<1>2. ASSUME NEW m \in moved
      PROVE  /\ m \in Metric /\ batch.at[m] \in Int /\ bands[m].center \in Int /\ bands[m].half \in Nat \ {0}
             /\ bands[m].center \in Level
             /\ Recentred(m, batch) \in Band
             /\ Recentred(m, batch).center = batch.at[m] /\ Recentred(m, batch).half = bands[m].half
  <2>1. bands[m] \in Band /\ m \in Metric
    BY DEF GateInv, GateTypeOK, Banded
  <2>2. batch.at[m] \in Level
    BY BatchFields
  <2> QED
    BY <2>1, <2>2, BandGateAssumption DEF Band, Level, Recentred
<1> HIDE DEF moved
<1>3. GateTypeOK'
  <2>1. bands' \in [Metric -> Band \union {NoBand}]
    BY <1>1, <1>2 DEF GateInv, GateTypeOK
  <2>2. past' \in [Metric -> SUBSET Level]
    BY <1>1, <1>2 DEF GateInv, GateTypeOK
  <2> QED
    BY <1>1, <2>1, <2>2 DEF GateInv, GateTypeOK
<1>4. OldLevelsStayRed'
  <2> SUFFICES ASSUME NEW m \in Banded', NEW v \in past'[m]
               PROVE  Worse(m, v, WorseEdge(m, bands'[m]))
    BY DEF OldLevelsStayRed, Regressed
  <2>1. m \in Metric
    BY DEF Banded
  <2>2. CASE m \notin moved
    <3>1. m \in Banded /\ v \in past[m] /\ bands'[m] = bands[m]
      BY <1>1, <2>1, <2>2 DEF Banded
    <3> QED
      BY <3>1 DEF GateInv, OldLevelsStayRed, Regressed
  <2>3. CASE m \in moved
    <3> DEFINE c == bands[m].center
               h == bands[m].half
               w == batch.at[m]
    <3>1. bands'[m] = Recentred(m, batch) /\ m \in Banded
      BY <1>1, <2>1, <2>3 DEF moved
    <3>2. c \in Int /\ h \in Nat \ {0} /\ w \in Int /\ bands'[m].center = w /\ bands'[m].half = h
      BY <1>2, <2>3, <3>1
    <3>3. ~Worse(m, WorseEdge(m, bands'[m]), WorseEdge(m, bands[m]))
      BY <1>1, <2>3, <3>1 DEF MayMove, Recentred
    <3>4. CASE v \in past[m]
      <4>1. Worse(m, v, WorseEdge(m, bands[m])) /\ v \in Int
        BY <2>1, <3>1, <3>4, BandGateAssumption DEF GateInv, OldLevelsStayRed, Regressed, GateTypeOK, Level
      <4> HIDE DEF c, h, w
      <4>2. bands[m].center = c /\ bands[m].half = h
        BY DEF c, h
      <4> QED
        BY <3>2, <3>3, <4>1, <4>2 DEF Worse, WorseEdge
    <3>5. CASE v = c /\ Improved(m, w)
      <4>1. Worse(m, BetterEdge(m, bands[m]), w)
        BY <3>5 DEF Improved
      <4>2. bands[m].center = c /\ bands[m].half = h
        OBVIOUS
      <4> HIDE DEF c, h, w
      <4> QED
        BY <3>2, <3>5, <4>1, <4>2 DEF Worse, WorseEdge, BetterEdge
    <3>6. v \in past[m] \/ (v = c /\ Improved(m, w))
      BY <1>1, <2>1, <2>3
    <3> QED
      BY <3>4, <3>5, <3>6
  <2> QED
    BY <2>2, <2>3
<1>5. OfferImproves' /\ SummaryMatchesTheLane'
  BY <1>1 DEF GateInv, OfferImproves, SummaryMatchesTheLane, Red
<1> QED
  BY <1>3, <1>4, <1>5 DEF GateInv

\* A calibration starts the metrics it writes afresh.
LEMMA MintKeeps ==
    ASSUME GateInv, NEW batch \in Batch, NEW written \in SUBSET DOMAIN batch.at,
           NEW floor \in [Metric -> Nat],
           \A m \in written : Width(m, batch, floor[m]) > 0,
           Mint(written, batch, floor)
    PROVE  GateInv'
<1>1. /\ bands' = [m \in Metric |->
             IF m \in written
             THEN [center |-> batch.at[m], half |-> Width(m, batch, floor[m]), runner |-> batch.runner]
             ELSE bands[m]]
      /\ past' = [m \in Metric |-> IF m \in written THEN {} ELSE past[m]]
      /\ offer' = NoBatch /\ row' = row /\ doc' = doc
  BY DEF Mint
<1>2. ASSUME NEW m \in written
      PROVE  [center |-> batch.at[m], half |-> Width(m, batch, floor[m]), runner |-> batch.runner] \in Band
  <2>1. m \in Metric /\ batch.at[m] \in Level /\ batch.runner \in Runner /\ batch.spread \in Nat
    BY BatchFields
  <2>2. WidthFactor * batch.spread \in Nat /\ floor[m] \in Nat /\ FloorFraction(batch.at[m]) \in Nat
    BY <2>1, BandGateAssumption DEF FloorFraction
  <2>3. Width(m, batch, floor[m]) \in Nat
    BY <2>2 DEF Width, Larger
  <2> QED
    BY <2>1, <2>3 DEF Band
<1>3. GateTypeOK'
  <2>1. bands' \in [Metric -> Band \union {NoBand}]
    BY <1>1, <1>2 DEF GateInv, GateTypeOK
  <2>2. past' \in [Metric -> SUBSET Level]
    BY <1>1 DEF GateInv, GateTypeOK
  <2> QED
    BY <1>1, <2>1, <2>2 DEF GateInv, GateTypeOK
<1>4. OldLevelsStayRed'
  <2> SUFFICES ASSUME NEW m \in Banded', NEW v \in past'[m]
               PROVE  Worse(m, v, WorseEdge(m, bands'[m]))
    BY DEF OldLevelsStayRed, Regressed
  <2>1. m \in Metric
    BY DEF Banded
  <2>2. m \notin written
    BY <1>1, <2>1
  <2>3. m \in Banded /\ v \in past[m] /\ bands'[m] = bands[m]
    BY <1>1, <2>1, <2>2 DEF Banded
  <2> QED
    BY <2>3 DEF GateInv, OldLevelsStayRed, Regressed
<1>5. OfferImproves' /\ SummaryMatchesTheLane'
  BY <1>1 DEF GateInv, OfferImproves, SummaryMatchesTheLane, Red
<1> QED
  BY <1>3, <1>4, <1>5 DEF GateInv

LEMMA RecalibrateKeeps ==
    ASSUME GateInv, NEW batch \in Batch, NEW selected \in SUBSET DOMAIN batch.at, Recalibrate(batch, selected)
    PROVE  GateInv'
<1>1. NoFloor \in [Metric -> Nat] /\ \A m \in Metric : NoFloor[m] = 0
  BY DEF NoFloor
<1>2. \A m \in selected : Width(m, batch, NoFloor[m]) > 0
  BY <1>1, BatchFields DEF Recalibrate
<1>3. Mint(selected, batch, NoFloor)
  BY DEF Recalibrate
<1> QED
  BY <1>1, <1>2, <1>3, MintKeeps

LEMMA CalibrateKeeps ==
    ASSUME GateInv, NEW batch \in Batch, Calibrate(batch)
    PROVE  GateInv'
<1> DEFINE mints(m) == m \in DOMAIN batch.at /\ Width(m, batch, row.floor[m]) > 0
           written == {row.gates[i] : i \in {j \in 1..Len(row.gates) : \A k \in 1..j : mints(row.gates[k])}}
<1>1. Mint(written, batch, row.floor)
  BY DEF Calibrate
<1>2. row \in RowType
  BY BandGateAssumption DEF GateInv, GateTypeOK
<1>3. row.gates \in Seq(Metric) /\ row.floor \in [Metric -> Nat]
  BY <1>2 DEF RowType
<1>4. \A m \in written : mints(m)
  <2> SUFFICES ASSUME NEW i \in 1..Len(row.gates), \A k \in 1..i : mints(row.gates[k])
               PROVE  mints(row.gates[i])
    OBVIOUS
  <2>1. i \in 1..i
    BY <1>3
  <2> QED
    BY <2>1
<1>5. written \in SUBSET DOMAIN batch.at /\ \A m \in written : Width(m, batch, row.floor[m]) > 0
  BY <1>4
<1> HIDE DEF written
<1> QED
  BY <1>1, <1>3, <1>5, MintKeeps

LEMMA NothingOffered ==
    ASSUME GateInv, row' = row, bands' = bands, past' = past, offer' = NoBatch,
           doc' \in Doc \union {NoDoc}, SummaryMatchesTheLane'
    PROVE  GateInv'
<1>1. GateTypeOK' /\ OldLevelsStayRed'
  BY DEF GateInv, GateTypeOK, OldLevelsStayRed, Banded, Regressed
<1> QED
  BY <1>1 DEF GateInv, OfferImproves

LEMMA Offered ==
    ASSUME GateInv, NEW batch \in Batch, row' = row, bands' = bands, past' = past, offer' = batch,
           ~Refused(batch, {}), Improvement(batch),
           doc' \in Doc \union {NoDoc}, SummaryMatchesTheLane'
    PROVE  GateInv'
<1>1. GateTypeOK' /\ OldLevelsStayRed'
  BY DEF GateInv, GateTypeOK, OldLevelsStayRed, Banded, Regressed
<1>2. OfferImproves'
  BY DEF OfferImproves, Refused, Improvement, Banded, Regressed, Improved
<1> QED
  BY <1>1, <1>2 DEF GateInv

LEMMA GateNextKeeps ==
    ASSUME GateInv, GateNext
    PROVE  GateInv'
<1> USE DEF Single
<1>1. CASE Summarize
  <2>1. doc' = NoDoc /\ UNCHANGED <<row, bands, offer, past>>
    BY <1>1 DEF Summarize
  <2> QED
    BY <2>1 DEF GateInv, GateTypeOK, OldLevelsStayRed, OfferImproves, SummaryMatchesTheLane,
        Banded, Regressed, Refused, Improvement, Improved
<1>2. ASSUME NEW batch \in Batch, Compare(batch)
      PROVE  GateInv'
  <2>1. doc' \in Doc \union {NoDoc} /\ SummaryMatchesTheLane'
    BY <1>2 DEF Compare, GateInv, GateTypeOK, SummaryMatchesTheLane, Red
  <2>2. CASE Banding(batch, {}).verdict = "IMPROVED"
    BY <1>2, <2>1, <2>2, BandingIsStraight, Offered DEF Compare
  <2>3. CASE Banding(batch, {}).verdict # "IMPROVED"
    BY <1>2, <2>1, <2>3, NothingOffered DEF Compare
  <2> QED
    BY <2>2, <2>3
<1>3. ASSUME NEW batch \in Batch, NEW mode \in {"gate", "monitor"}, NEW outcome \in Outcome(row.kind),
             RunRow(batch, mode, outcome)
      PROVE  GateInv'
  <2> DEFINE judged == Verdict(batch, outcome)
  <2>1. Straight(judged) /\ (judged.verdict = "IMPROVED" => ~Refused(batch, {}) /\ Improvement(batch))
    BY VerdictIsStraight DEF GateInv
  <2>2. /\ Write(judged, mode)
        /\ offer' = IF judged.verdict = "IMPROVED" THEN batch ELSE NoBatch
        /\ UNCHANGED <<row, bands, past>>
    BY <1>3 DEF RunRow
  <2> HIDE DEF judged
  <2>3. doc' \in Doc /\ SummaryMatchesTheLane'
    BY <2>1, <2>2, WriteKeeps DEF Straight
  <2>4. CASE judged.verdict = "IMPROVED"
    BY <2>1, <2>2, <2>3, <2>4, Offered
  <2>5. CASE judged.verdict # "IMPROVED"
    BY <2>2, <2>3, <2>5, NothingOffered
  <2> QED
    BY <2>4, <2>5
<1>4. ASSUME NEW verdict \in {"RAN", "REFUSED"}, NEW code \in {0, 1},
             NEW mode \in {"gate", "monitor", "no_compare"},
             mode = "gate" => verdict = "REFUSED" /\ code = 1,
             RunUnjudged(verdict, code, mode)
      PROVE  GateInv'
  <2> DEFINE judged == Judged(verdict, code)
  <2>1. judged.verdict = verdict /\ judged.code = code
    BY DEF Judged
  <2>2. Write(judged, mode) /\ offer' = NoBatch /\ UNCHANGED <<row, bands, past>>
    BY <1>4 DEF RunUnjudged
  <2> HIDE DEF judged
  <2>3. mode = "gate" => Straight(judged)
    BY <1>4, <2>1 DEF Straight
  <2>4. doc' \in Doc /\ SummaryMatchesTheLane'
    BY <2>1, <2>2, <2>3, WriteKeeps
  <2> QED
    BY <2>2, <2>4, NothingOffered
<1>5. CASE RunUnjudged("RAN", 0, "no_compare")
  BY <1>4, <1>5
<1>6. CASE \E mode \in {"gate", "monitor", "no_compare"} : RunUnjudged("REFUSED", 1, mode)
  BY <1>4, <1>6
<1> QED
  BY <1>1, <1>2, <1>3, <1>5, <1>6, RatchetKeeps, RecalibrateKeeps, CalibrateKeeps DEF GateNext

(***************************************************************************)
(* The theorems                                                            *)
(***************************************************************************)
LEMMA InitInv == Init => Inv
<1> SUFFICES ASSUME Init PROVE Inv
  OBVIOUS
<1>1. NoRuns \in [runs : 0..Repeats, passed : 0..Repeats, lossy : 0..Repeats]
  BY ProbingAssumption DEF NoRuns
<1>2. ProbeInv
  BY <1>1, IdealIsCandidate, ProbingAssumption
  DEF Init, ProbeInv, AnyPhase, SearchPhase, BoundaryPhase, CapacityPhase, Ended, Counted,
      PassedCanPass, FailedIsNotClean, NoRuns
<1>3. SearchInv
  BY IdealIsCandidate, TurnsNat
  DEF Init, SearchInit, SearchInv, SearchTypeOK, Footing, NeverHopeless
<1>4. BoundaryTypeOK
  BY EndsAreSeverities, NothingSeen, RecordsAreBoundaries
  DEF Init, BoundaryInit, BoundaryTypeOK, Unit
<1>5. Ideal = Loaded(0)
  BY DEF Loaded, At, Ideal
<1>6. CapacityInv
  BY <1>5, ProbingAssumption
  DEF Init, CapacityInit, CapacityInv, CapacityTypeOK, CapacityIsTheEdge, Unit, Severity, None
<1> QED
  BY <1>2, <1>3, <1>4, <1>6 DEF Inv

LEMMA NextInv == Inv /\ [Next]_vars => Inv'
<1> SUFFICES ASSUME Inv, [Next]_vars PROVE Inv'
  OBVIOUS
<1>1. CASE SearchNext /\ UNCHANGED <<boundary, capacity, gate, pointing>>
  <2>1. ProbeInv' /\ SearchInv'
    BY <1>1, SearchNextKeeps DEF Inv
  <2>2. BoundaryTypeOK'
    BY <1>1 DEF Inv, BoundaryTypeOK, boundary, bracket
  <2>3. CapacityInv'
    BY <1>1, SearchLeavesCapacity, OtherDriverKeeps DEF Inv
  <2> QED
    BY <2>1, <2>2, <2>3 DEF Inv
<1>2. CASE BoundaryNext /\ UNCHANGED <<search, capacity, gate, pointing>>
  <2>1. ProbeInv' /\ SearchInv' /\ BoundaryTypeOK'
    BY <1>2, BoundaryNextKeeps DEF Inv
  <2>2. CapacityInv'
    BY <1>2, BoundaryLeavesCapacity, OtherDriverKeeps DEF Inv
  <2> QED
    BY <2>1, <2>2 DEF Inv
<1>3. CASE CapacityNext /\ UNCHANGED <<search, boundary, gate, pointing>>
  BY <1>3, CapacityNextKeeps
<1>4. CASE UNCHANGED <<probing, search, boundary, capacity>>
  <2>1. ProbeInv' /\ SearchInv' /\ BoundaryTypeOK'
    BY <1>4 DEF Inv, probing, search, boundary, bracket, ProbeInv, Counted, PassedCanPass,
       FailedIsNotClean, SearchInv, SearchTypeOK, Footing, NeverHopeless, BoundaryTypeOK, axis
  <2>2. CapacityInv'
    BY <1>4 DEF Inv, probing, capacity, CapacityInv, CapacityTypeOK, CapacityIsTheEdge
  <2> QED
    BY <2>1, <2>2 DEF Inv
<1>5. CASE Gating \/ Pointing
  BY <1>4, <1>5 DEF Gating, Pointing
<1>6. CASE UNCHANGED vars
  BY <1>4, <1>6 DEF vars
<1> QED
  BY <1>1, <1>2, <1>3, <1>5, <1>6 DEF Next, Searching

LEMMA GateInitInv == GateInit => GateInv
  BY BandGateAssumption
  DEF GateInit, GateInv, GateTypeOK, OldLevelsStayRed, Banded, OfferImproves, SummaryMatchesTheLane

LEMMA GateNextInv == GateInv /\ [Next]_vars => GateInv'
<1> SUFFICES ASSUME GateInv, [Next]_vars PROVE GateInv'
  OBVIOUS
<1>1. CASE UNCHANGED gate
  BY <1>1 DEF gate, GateInv, GateTypeOK, OldLevelsStayRed, OfferImproves, SummaryMatchesTheLane,
     Banded, Regressed, Refused, Improvement, Improved, Red
<1>2. CASE Gating
  BY <1>2, GateNextKeeps DEF Gating
<1> QED
  BY <1>1, <1>2 DEF Next, Searching, Pointing, vars

\* The inductive invariant of the gate (benchmark compare, row, ratchet and
\* calibrate).
THEOREM GateInvariance == Spec => []GateInv
<1>1. Init => GateInv
  BY GateInitInv DEF Init
<1> QED
  BY <1>1, GateNextInv, PTL DEF Spec

\* The inductive invariant of the searches (drive_requirements,
\* drive_loss_boundaries and drive_capacity).
THEOREM Invariance == Spec => []Inv
  BY InitInv, NextInv, PTL DEF Spec

\* Every variable of both drivers keeps its type: no bracket, guard or
\* bisection of drive_requirements, drive_loss_boundaries or drive_capacity
\* leaves the range that is searched.
THEOREM TypeCorrect == Spec => []TypeOK
<1>1. Inv /\ GateInv => TypeOK
  BY DEF Inv, GateInv, ProbeInv, SearchInv, CapacityInv, TypeOK, AnyPhase
<1> QED
  BY <1>1, Invariance, GateInvariance, PTL

\* The candidate that drive_requirements carries from axis to axis can pass,
\* for any link that answers monotonically, however noisy, and for any guards,
\* rounds and refinement.
THEOREM CarriesWhatCanPass == Spec => []NeverHopeless
<1>1. Inv => NeverHopeless
  BY DEF Inv, SearchInv
<1> QED
  BY <1>1, Invariance, PTL

\* The early ends of the loops over the runs of a probe, in probe and in
\* classify, change no verdict of the row, for any number of runs and any
\* thresholds.
THEOREM EarlyStopIsASavingOnly == Spec => []EarlyStopKeepsVerdict
<1>1. ASSUME Inv, NEW mode
      PROVE  KeepsVerdict(mode)
  BY <1>1, ProbingAssumption
  DEF Inv, ProbeInv, Counted, KeepsVerdict, Decided, Good, Bad, NoLongerGood, NoLongerBad, Remaining
<1>2. Inv => EarlyStopKeepsVerdict
  BY <1>1 DEF EarlyStopKeepsVerdict
<1> QED
  BY <1>2, Invariance, PTL

\* capacity_binary_search, over probes that are noisy and judged by median vote,
\* reports a load that can pass whose next higher one can fail, for any range
\* and any number of runs.
THEOREM CapacityIsExact == Spec => []CapacityIsTheEdge
<1>1. Inv => CapacityIsTheEdge
  BY DEF Inv, CapacityInv
<1> QED
  BY <1>1, Invariance, PTL

\* ratchet_band: however often a row is ratcheted, a level that an improvement
\* was banked from stays a regression until the metric is calibrated anew.
THEOREM ImprovementsAreKept == Spec => []OldLevelsStayRed
<1>1. GateInv => OldLevelsStayRed
  BY DEF GateInv
<1> QED
  BY <1>1, GateInvariance, PTL

\* The ratchet that benchmark compare and benchmark row print for an improvement
\* is not refused as a widening, of a row with a single band.
THEOREM ThePrintedCommandBanks == Spec => []TheCommandBanks
<1>1. ASSUME GateInv, offer # NoBatch, \A m, n \in Banded : m = n, NEW m \in Banded
      PROVE  MayMove(m, offer)
  <2> DEFINE c == bands[m].center
             h == bands[m].half
             w == offer.at[m]
  <2>1. ~Refused(offer, {}) /\ Improvement(offer)
    BY <1>1 DEF GateInv, OfferImproves
  <2>2. m \in DOMAIN offer.at /\ bands[m].runner = offer.runner
    BY <2>1 DEF Refused
  <2>3. Worse(m, BetterEdge(m, bands[m]), w)
    BY <1>1, <2>1 DEF Improvement, Improved
  <2>4. offer \in Batch /\ bands[m] \in Band
    BY <1>1 DEF GateInv, GateTypeOK, Banded
  <2>5. c \in Int /\ h \in Nat \ {0} /\ w \in Int
    BY <2>2, <2>4, BatchFields, BandGateAssumption DEF Band, Level
  <2> DEFINE new == [bands[m] EXCEPT !.center = w]
  <2>6. new.center = w /\ new.half = h
    BY <2>4 DEF Band
  <2>7. bands[m].center = c /\ bands[m].half = h
    OBVIOUS
  <2>8. ~Worse(m, WorseEdge(m, new), WorseEdge(m, bands[m]))
    <3> HIDE DEF c, h, w, new
    <3> QED
      BY <2>3, <2>5, <2>6, <2>7 DEF Worse, WorseEdge, BetterEdge
  <2> QED
    BY <2>2, <2>8 DEF MayMove
<1>2. GateInv => TheCommandBanks
  BY <1>1 DEF TheCommandBanks
<1> QED
  BY <1>2, GateInvariance, PTL

\* benchmark row and gate-summary, which decide separately: a row that gates is
\* red in the summary of its lane exactly when its command failed, whatever its
\* kind, its bands and its bag.
THEOREM TheSummaryAgrees == Spec => []SummaryMatchesTheLane
<1>1. GateInv => SummaryMatchesTheLane
  BY DEF GateInv
<1> QED
  BY <1>1, GateInvariance, PTL


(***************************************************************************)
(* What the bounds of the requirements search stand on                     *)
(***************************************************************************)
\* A failing value of an axis lies at or beyond the present one and fails under
\* the present values of the others; an axis that was searched and left open
\* stands at the far end, unless the link is noisy.
BoundHolds(a) ==
    /\ bounds[a].tight <=> bounds[a].failed # {}
    /\ \A f \in bounds[a].failed :
          f[a] >= current[a] /\ At(current, a, f[a]) \notin link.clean
    /\ ~bounds[a].tight /\ link.clean = link.usable
       /\ (\E t \in 1..Turns : t < turn /\ AxisOf(t) = a) => current[a] = Worst

\* Both ends of the bracket and the middle differ from the present candidate on
\* the axis of the turn alone, in this order.
BracketHolds ==
    /\ current[axis] <= low[axis] /\ low[axis] <= probed[axis] /\ probed[axis] <= high[axis]
    /\ \A c \in {low, probed, high} : c = At(current, axis, c[axis])
    /\ high \notin link.clean

BoundsInv ==
    guarded = {} =>
        /\ \A a \in Axis : BoundHolds(a)
        /\ phase = "ideal" => current = Ideal
        /\ phase = "reset" => probed = At(current, axis, Worst)
        /\ phase = "bisect" => BracketHolds
        /\ phase \in {"final", "done"} => turn > Turns

LEMMA AtFacts ==
    ASSUME NEW c \in Candidate, NEW a \in Axis, NEW v \in Severity
    PROVE  /\ At(c, a, v) \in Candidate /\ At(c, a, v)[a] = v
           /\ \A b \in Axis : b # a => At(c, a, v)[b] = c[b]
           /\ \A u \in Severity : At(At(c, a, v), a, u) = At(c, a, u)
           /\ At(c, a, c[a]) = c
  BY DEF At, Candidate

\* What fails under a candidate fails under a harder one.
LEMMA StaysUnclean ==
    ASSUME link \in Link, NEW c \in Candidate, NEW d \in Candidate, NoHarder(c, d),
           NEW a \in Axis, NEW v \in Severity, At(c, a, v) \notin link.clean
    PROVE  At(d, a, v) \notin link.clean
<1>1. NoHarder(At(c, a, v), At(d, a, v))
  BY DEF NoHarder, At, Candidate, Severity
<1>2. At(c, a, v) \in Candidate
  BY AtIsCandidate
<1> QED
  BY <1>1, <1>2 DEF Link, DownClosed

\* A probe that was decided otherwise had a run that failed.
LEMMA NotGoodIsNotClean ==
    ASSUME ProbeInv, Decided("both"), ~Good
    PROVE  probed \notin link.clean
<1>1. sample.passed < sample.runs
  BY ProbingAssumption DEF ProbeInv, Counted, Decided, Good, NoLongerGood, Remaining
<1> QED
  BY <1>1 DEF ProbeInv, FailedIsNotClean

LEMMA ContinueSteps ==
    ASSUME NEW c, NEW known, Continue(c, known)
    PROVE  /\ link' = link /\ current' = c /\ turn' = turn + 1
           /\ phase' \in {"limit", "final"}
           /\ phase' = "final" => ~(turn < Turns)
  BY DEF Continue, Probe

\* The search of an axis ends on a value no easier than the present one: what
\* was found on the axes before it still holds.
LEMMA SelectBounds ==
    ASSUME ProbeInv, SearchInv, BoundsInv, guarded = {}, turn \in 1..Turns,
           NEW c \in Candidate, c = At(current, axis, c[axis]), c[axis] >= current[axis],
           NEW tight \in BOOLEAN, NEW failed \in SUBSET Candidate, tight <=> failed # {},
           \A f \in failed : /\ f = At(current, axis, f[axis])
                             /\ f[axis] >= c[axis] /\ f \notin link.clean,
           ~tight /\ link.clean = link.usable => c[axis] = Worst,
           Select(c, tight, failed)
    PROVE  BoundsInv'
<1>0. PICK x : x = axis
  OBVIOUS
<1>1. x \in Axis /\ turn \in Nat /\ Turns \in Nat
  BY <1>0, AxisOfTurn, TurnsNat DEF axis
<1>2. current \in Candidate
  BY DEF SearchInv, SearchTypeOK
<1>3. /\ bounds' = [bounds EXCEPT ![x] = [tight |-> tight, failed |-> failed]]
      /\ Continue(c, bounds') /\ guarded' = guarded
  BY <1>0 DEF Select, Guard
<1>4. /\ link' = link /\ current' = c /\ turn' = turn + 1 /\ phase' \in {"limit", "final"}
      /\ phase' = "final" => ~(turn < Turns)
  BY <1>3, ContinueSteps
<1>5. c[x] \in Severity /\ current[x] \in Severity
  BY <1>1, <1>2 DEF Candidate
<1>6. \A b \in Axis : b # x => c[b] = current[b]
  BY <1>0, <1>1, <1>2, <1>5, AtFacts
<1>7. NoHarder(current, c)
  <2>1. \A b \in Axis : b # x => current[b] <= c[b]
    BY <1>2, <1>6, ProbingAssumption DEF Candidate, Severity
  <2> QED
    BY <1>0, <2>1 DEF NoHarder
<1>8. ASSUME NEW a \in Axis PROVE BoundHolds(a)'
  <2>1. CASE a = x
    <3>1. bounds'[a].tight = tight /\ bounds'[a].failed = failed
      BY <1>3, <2>1 DEF SearchInv, SearchTypeOK
    <3>2. ASSUME NEW f \in failed PROVE f[a] >= c[a] /\ At(c, a, f[a]) \notin link.clean
      <4>1. f[a] \in Severity
        BY DEF Candidate
      <4>2. At(c, a, f[a]) = At(At(current, x, c[x]), x, f[x])
        BY <1>0, <2>1
      <4>3. At(c, a, f[a]) = At(current, x, f[x])
        BY <1>1, <1>2, <1>5, <2>1, <4>1, <4>2, AtFacts
      <4> QED
        BY <1>0, <2>1, <3>2, <4>3
    <3>3. ~tight /\ link.clean = link.usable => c[a] = Worst
      BY <1>0, <2>1
    <3> QED
      BY <1>4, <3>1, <3>2, <3>3 DEF BoundHolds
  <2>2. CASE a # x
    <3>1. bounds'[a] = bounds[a] /\ c[a] = current[a]
      BY <1>3, <1>6, <2>2 DEF SearchInv, SearchTypeOK
    <3>2. BoundHolds(a)
      BY DEF BoundsInv
    <3>3. ASSUME NEW f \in bounds[a].failed PROVE f[a] >= c[a] /\ At(c, a, f[a]) \notin link.clean
      <4>1. f[a] \in Severity
        BY DEF SearchInv, SearchTypeOK, Candidate
      <4>2. f[a] >= current[a] /\ At(current, a, f[a]) \notin link.clean
        BY <3>2 DEF BoundHolds
      <4> QED
        BY <1>2, <1>7, <3>1, <4>1, <4>2, StaysUnclean DEF ProbeInv
    <3>4. ASSUME NEW t \in 1..Turns, t < turn + 1, AxisOf(t) = a PROVE t < turn
      <4>1. t # turn
        BY <1>0, <2>2, <3>4 DEF axis
      <4> QED
        BY <1>1, <3>4, <4>1
    <3>5. ~bounds[a].tight /\ link.clean = link.usable
             /\ (\E t \in 1..Turns : t < turn + 1 /\ AxisOf(t) = a) => c[a] = Worst
      BY <3>1, <3>2, <3>4 DEF BoundHolds
    <3> QED
      BY <1>4, <3>1, <3>2, <3>3, <3>5 DEF BoundHolds
  <2> QED
    BY <2>1, <2>2
<1>9. phase' = "final" => turn' > Turns
  BY <1>1, <1>4
<1> QED
  BY <1>3, <1>4, <1>8, <1>9 DEF BoundsInv

\* The bracket of the next bisection is one on the axis of the turn.
LEMMA BisectBounds ==
    ASSUME ProbeInv, SearchInv, BoundsInv, guarded = {}, turn \in 1..Turns,
           NEW pass \in Candidate, pass = At(current, axis, pass[axis]), pass[axis] >= current[axis],
           NEW fail \in Candidate, fail = At(current, axis, fail[axis]), fail \notin link.clean,
           NEW steps, Bisect(pass, fail, steps)
    PROVE  BoundsInv'
<1>0. PICK x : x = axis
  OBVIOUS
<1>1. x \in Axis /\ axis' = x
  BY <1>0, AxisOfTurn DEF axis, Bisect
<1>2. PICK mid \in pass[x]..fail[x] : Probe("bisect", At(current, x, mid))
  BY <1>0 DEF Bisect
<1>3. /\ low' = pass /\ high' = fail /\ UNCHANGED <<guarded, current, turn, bounds>>
      /\ link' = link /\ phase' = "bisect" /\ probed' = At(current, x, mid)
  BY <1>2 DEF Bisect, Probe
<1>4. current \in Candidate /\ pass[x] \in Severity /\ fail[x] \in Severity /\ mid \in Severity
  BY <1>1, <1>2, ProbingAssumption DEF SearchInv, SearchTypeOK, Candidate, Severity
<1>5. probed'[x] = mid /\ pass[x] <= mid /\ mid <= fail[x]
  BY <1>1, <1>2, <1>3, <1>4, AtFacts DEF Severity
<1>6. BracketHolds'
  BY <1>0, <1>1, <1>3, <1>5 DEF BracketHolds
<1>7. \A a \in Axis : BoundHolds(a)'
  BY <1>3 DEF BoundsInv, BoundHolds
<1> QED
  BY <1>3, <1>6, <1>7 DEF BoundsInv

LEMMA BoundaryLeavesSearch ==
    ASSUME ProbeInv, BoundaryNext
    PROVE  link' = link /\ phase' \notin SearchPhase \union {"done"}
<1> USE DEF SearchPhase, Probe
<1>1. CASE phase \in BoundaryPhase /\ Run(Mode) /\ UNCHANGED boundary
  BY <1>1 DEF Run, BoundaryPhase
<1>2. CASE RateHigh \/ RateLow \/ RateBisect \/ RateBad
  BY <1>2 DEF RateHigh, RateLow, RateBisect, RateBad, ReportRate, NextRate
<1>3. CASE JitterLow \/ JitterHigh \/ JitterLost
  BY <1>3 DEF JitterLow, JitterHigh, JitterLost, JitterEnd, ReportJitter, NextClean, NextLossy
<1>4. CASE JitterBisect \/ JitterBad \/ JitterNotBad
  BY <1>4 DEF JitterBisect, JitterBad, JitterNotBad, ReportJitter, NextClean, NextLossy
<1>5. CASE Report
  BY <1>5 DEF Report
<1>6. CASE phase \in BoundaryPhase /\ NothingArrives(Mode) /\ UNCHANGED boundary
  BY <1>6 DEF NothingArrives
<1> QED
  BY <1>1, <1>2, <1>3, <1>4, <1>5, <1>6 DEF BoundaryNext

LEMMA CapacityLeavesSearch ==
    ASSUME CapacityNext
    PROVE  link' = link /\ phase' \notin SearchPhase \union {"done"}
BY DEF CapacityNext, CapacityPhase, Run, LowestProbed, MiddleProbed, Narrow, Probe, SearchPhase

\* So it does where the axis is left open.
LEMMA SelectOpen ==
    ASSUME ProbeInv, SearchInv, BoundsInv, guarded = {}, turn \in 1..Turns,
           NEW c \in Candidate, c = At(current, axis, c[axis]), c[axis] >= current[axis],
           link.clean = link.usable => c[axis] = Worst, Select(c, FALSE, {})
    PROVE  BoundsInv'
<1>1. {} \in SUBSET Candidate /\ (FALSE <=> {} # {})
  OBVIOUS
<1>2. \A f \in {} : /\ f = At(current, axis, f[axis])
                    /\ f[axis] >= c[axis] /\ f \notin link.clean
  OBVIOUS
<1> HIDE DEF BoundsInv
<1> QED
  BY <1>1, <1>2, SelectBounds

\* The value a search starts to look at is no easier than the present one.
LEMMA LimitIsNoEasier ==
    ASSUME SearchInv, BoundsInv, guarded = {}, turn \in 1..Turns
    PROVE  /\ axis \in Axis /\ current \in Candidate /\ current[axis] \in Severity
           /\ Limit(turn, bounds) \in Severity /\ Limit(turn, bounds) >= current[axis]
           /\ At(current, axis, Limit(turn, bounds)) \in link.clean => Limit(turn, bounds) = Worst
<1>1. /\ axis \in Axis /\ current \in Candidate /\ current[axis] \in Severity
      /\ Limit(turn, bounds) \in Severity
  BY AxisOfTurn, LimitIsSeverity DEF axis, SearchInv, SearchTypeOK, Candidate
<1>2. CASE Refining(turn) /\ bounds[axis].failed # {}
  <2>1. PICK f \in bounds[axis].failed : Limit(turn, bounds) = f[axis]
    BY <1>2 DEF Limit, axis
  <2>2. f[axis] >= current[axis] /\ At(current, axis, f[axis]) \notin link.clean
    BY <1>1 DEF BoundsInv, BoundHolds
  <2> QED
    BY <1>1, <2>1, <2>2
<1>3. CASE ~(Refining(turn) /\ bounds[axis].failed # {})
  <2>1. Limit(turn, bounds) = Worst
    BY <1>3 DEF Limit, axis
  <2> QED
    BY <1>1, <2>1, ProbingAssumption DEF Severity
<1> QED
  BY <1>2, <1>3

LEMMA WorstIsWorst ==
    ASSUME NEW c \in Candidate, NEW a \in Axis
    PROVE  /\ At(c, a, Worst) \in Candidate /\ At(c, a, Worst)[a] = Worst
           /\ c[a] \in Severity /\ Worst >= c[a]
  BY EndsAreSeverities, AtFacts, ProbingAssumption DEF Candidate, Severity

LEMMA SearchKeepsBounds ==
    ASSUME ProbeInv, SearchInv, BoundsInv, SearchNext
    PROVE  BoundsInv'
<1>0. guarded' = guarded
  BY DEF SearchNext, search, Baseline, LimitPasses, LimitFails, ResetPasses, ResetFails, Bisected,
         Final, Select, Bisect
<1> SUFFICES ASSUME guarded = {} PROVE BoundsInv'
  BY <1>0 DEF BoundsInv
<1>1. ASSUME phase \in SearchPhase, Run("both"), UNCHANGED search PROVE BoundsInv'
  BY <1>1 DEF Run, search, BoundsInv, BoundHolds, BracketHolds, axis
<1>2. ASSUME NothingArrives("both"), UNCHANGED search PROVE BoundsInv'
  BY <1>2 DEF NothingArrives, search, BoundsInv, BoundHolds
<1>3. CASE Baseline
  <2>0. phase = "ideal" /\ turn = 0 /\ Turns \in Nat
    BY <1>3, TurnsNat DEF Baseline, SearchInv, Footing
  <2>1. CASE Good
    <3>1. Continue(Ideal, bounds) /\ UNCHANGED <<guarded, bounds>> /\ current = Ideal
      BY <1>3, <2>0, <2>1 DEF Baseline, BoundsInv
    <3>2. /\ link' = link /\ current' = current /\ turn' = 1 /\ phase' \in {"limit", "final"}
          /\ phase' = "final" => ~(turn < Turns)
      BY <2>0, <3>1, ContinueSteps
    <3>3. \A t \in 1..Turns : ~(t < 1)
      BY <2>0
    <3>4. \A a \in Axis : BoundHolds(a)'
      BY <3>1, <3>2, <3>3 DEF BoundsInv, BoundHolds
    <3>5. phase' = "final" => turn' > Turns
      BY <2>0, <3>2
    <3> QED
      BY <3>1, <3>2, <3>4, <3>5 DEF BoundsInv
  <2>2. CASE ~Good
    BY <1>3, <2>2 DEF Baseline, search, BoundsInv, BoundHolds
  <2> QED
    BY <2>1, <2>2
<1>4. CASE LimitPasses
  <2>0. /\ phase = "limit" /\ turn \in 1..Turns /\ Good
        /\ probed = At(current, axis, Limit(turn, bounds))
    BY <1>4 DEF LimitPasses, SearchInv, SearchTypeOK, Footing
  <2>1. /\ axis \in Axis /\ current \in Candidate /\ Limit(turn, bounds) \in Severity
        /\ Limit(turn, bounds) >= current[axis]
        /\ At(current, axis, Limit(turn, bounds)) \in link.clean => Limit(turn, bounds) = Worst
    BY <2>0, LimitIsNoEasier
  <2>2. probed[axis] = Limit(turn, bounds) /\ probed \in Candidate /\ probed \in link.usable
    BY <2>0, <2>1, AtFacts, GoodCanPass
  <2>3. CASE axis \in Resets /\ probed[axis] < Worst
    <3>1. Probe("reset", At(current, axis, Worst)) /\ UNCHANGED search
      BY <1>4, <2>3 DEF LimitPasses
    <3> QED
      BY <3>1 DEF Probe, search, BoundsInv, BoundHolds, axis
  <2>4. CASE ~(axis \in Resets /\ probed[axis] < Worst)
    <3>1. Select(probed, FALSE, {})
      BY <1>4, <2>4 DEF LimitPasses
    <3>2. /\ link.clean = link.usable => probed[axis] = Worst
          /\ probed = At(current, axis, probed[axis]) /\ probed[axis] >= current[axis]
      BY <2>0, <2>1, <2>2
    <3> QED
      BY <2>0, <2>1, <2>2, <3>1, <3>2, SelectOpen
  <2> QED
    BY <2>3, <2>4
<1>5. CASE LimitFails
  <2>0. /\ turn \in 1..Turns /\ ~Good /\ Decided("both")
        /\ probed = At(current, axis, Limit(turn, bounds))
        /\ Bisect(current, probed, StepsOf(turn))
    BY <1>5 DEF LimitFails, SearchInv, SearchTypeOK, Footing
  <2>1. /\ axis \in Axis /\ current \in Candidate /\ current[axis] \in Severity
        /\ Limit(turn, bounds) \in Severity
    BY <2>0, LimitIsNoEasier
  <2>2. probed[axis] = Limit(turn, bounds) /\ probed \in Candidate /\ probed \notin link.clean
    BY <2>0, <2>1, AtFacts, NotGoodIsNotClean
  <2>3. current = At(current, axis, current[axis]) /\ current[axis] >= current[axis]
    BY <2>1, AtFacts DEF Severity
  <2> QED
    BY <2>0, <2>1, <2>2, <2>3, BisectBounds
<1>6. CASE ResetPasses
  <2>0. turn \in 1..Turns /\ probed = At(current, axis, Worst) /\ Select(probed, FALSE, {})
    BY <1>6 DEF ResetPasses, SearchInv, SearchTypeOK, BoundsInv
  <2>1. axis \in Axis /\ current \in Candidate
    BY <2>0, LimitIsNoEasier
  <2>2. /\ probed[axis] = Worst /\ probed \in Candidate /\ probed[axis] >= current[axis]
        /\ probed = At(current, axis, probed[axis])
    BY <2>0, <2>1, WorstIsWorst
  <2> QED
    BY <2>0, <2>1, <2>2, SelectOpen
<1>7. CASE ResetFails
  <2> DEFINE pass == At(current, axis, Limit(turn, bounds))
  <2>0. /\ turn \in 1..Turns /\ ~Good /\ Decided("both") /\ probed = At(current, axis, Worst)
        /\ Bisect(pass, probed, StepsOf(turn))
    BY <1>7 DEF ResetFails, SearchInv, SearchTypeOK, BoundsInv
  <2>1. /\ axis \in Axis /\ current \in Candidate /\ Limit(turn, bounds) \in Severity
        /\ Limit(turn, bounds) >= current[axis]
    BY <2>0, LimitIsNoEasier
  <2>2. pass[axis] = Limit(turn, bounds) /\ pass \in Candidate
    BY <2>1, AtFacts
  <2>3. probed[axis] = Worst /\ probed \in Candidate /\ probed \notin link.clean
    BY <2>0, <2>1, WorstIsWorst, NotGoodIsNotClean
  <2>4. pass = At(current, axis, pass[axis])
    BY <2>2
  <2> HIDE DEF pass
  <2> QED
    BY <2>0, <2>1, <2>2, <2>3, <2>4, BisectBounds
<1>8. CASE Bisected
  <2> DEFINE pass == IF Good THEN probed ELSE low
             fail == IF Good THEN high ELSE probed
  <2>0. turn \in 1..Turns /\ phase = "bisect" /\ BracketHolds /\ Decided("both")
    BY <1>8 DEF Bisected, SearchInv, SearchTypeOK, BoundsInv
  <2>1. IF left > 1 THEN Bisect(pass, fail, left - 1) ELSE Select(pass, TRUE, {fail})
    BY <1>8 DEF Bisected
  <2>2. /\ axis \in Axis /\ current \in Candidate
        /\ low \in Candidate /\ high \in Candidate /\ probed \in Candidate
    BY <2>0, LimitIsNoEasier DEF SearchInv, SearchTypeOK, ProbeInv
  <2>3. /\ current[axis] \in Int /\ low[axis] \in Int /\ high[axis] \in Int /\ probed[axis] \in Int
    BY <2>2 DEF Candidate, Severity
  <2>4. pass \in Candidate /\ fail \in Candidate /\ fail \notin link.clean
    BY <2>0, <2>2, NotGoodIsNotClean DEF BracketHolds
  <2>5. pass[axis] >= current[axis] /\ fail[axis] >= pass[axis]
    BY <2>0, <2>3 DEF BracketHolds
  <2>6. pass = At(current, axis, pass[axis]) /\ fail = At(current, axis, fail[axis])
    BY <2>0 DEF BracketHolds
  <2> HIDE DEF pass, fail
  <2>7. CASE left > 1
    BY <2>0, <2>1, <2>4, <2>5, <2>6, <2>7, BisectBounds
  <2>8. CASE ~(left > 1)
    <3>1. Select(pass, TRUE, {fail})
      BY <2>1, <2>8
    <3>2. {fail} \in SUBSET Candidate /\ {fail} # {}
      BY <2>4
    <3>3. \A f \in {fail} : /\ f = At(current, axis, f[axis])
                            /\ f[axis] >= pass[axis] /\ f \notin link.clean
      BY <2>4, <2>5, <2>6
    <3> QED
      BY <2>0, <2>4, <2>5, <2>6, <3>1, <3>2, <3>3, SelectBounds
  <2> QED
    BY <2>7, <2>8
<1>9. CASE Final
  BY <1>9 DEF Final, search, BoundsInv, BoundHolds
<1> QED
  BY <1>1, <1>2, <1>3, <1>4, <1>5, <1>6, <1>7, <1>8, <1>9 DEF SearchNext

\* The requirements search says of an axis only what holds of the network it
\* ends on, for any link, rounds and refinement (drive_requirements).
THEOREM BoundsAreMeant == Spec => []BoundsMeanWhatTheySay
<1>1. Init => BoundsInv
  <2> SUFFICES ASSUME Init PROVE BoundsInv
    OBVIOUS
  <2>1. current = Ideal /\ turn = 0 /\ phase \in {"ideal", "rate_high", "capacity_low", "no_search"}
    BY DEF Init, SearchInit
  <2>2. \A t \in 1..Turns : ~(t < 0)
    BY TurnsNat
  <2>3. \A a \in Axis : ~bounds[a].tight /\ bounds[a].failed = {}
    BY DEF Init, SearchInit
  <2> QED
    BY <2>1, <2>2, <2>3 DEF BoundsInv, BoundHolds
<1>2. Inv /\ BoundsInv /\ [Next]_vars => BoundsInv'
  <2> SUFFICES ASSUME Inv, BoundsInv, [Next]_vars PROVE BoundsInv'
    OBVIOUS
  <2>1. CASE SearchNext
    BY <2>1, SearchKeepsBounds DEF Inv
  <2>2. ASSUME BoundaryNext, UNCHANGED search PROVE BoundsInv'
    <3>1. link' = link /\ phase' \notin SearchPhase \union {"done"}
      BY <2>2, BoundaryLeavesSearch DEF Inv
    <3> QED
      BY <2>2, <3>1 DEF search, SearchPhase, BoundsInv, BoundHolds
  <2>3. ASSUME CapacityNext, UNCHANGED search PROVE BoundsInv'
    <3>1. link' = link /\ phase' \notin SearchPhase \union {"done"}
      BY <2>3, CapacityLeavesSearch DEF Inv
    <3> QED
      BY <2>3, <3>1 DEF search, SearchPhase, BoundsInv, BoundHolds
  <2>4. ASSUME UNCHANGED <<probing, search>> PROVE BoundsInv'
    BY <2>4 DEF probing, search, BoundsInv, BoundHolds, BracketHolds, axis
  <2> QED
    BY <2>1, <2>2, <2>3, <2>4 DEF Next, Searching, Gating, Pointing, vars
<1>3. Inv /\ BoundsInv => BoundsMeanWhatTheySay
  <2> SUFFICES ASSUME Inv, BoundsInv, guarded = {}, phase \in {"final", "done"},
                      NEW t \in 1..Turns
               PROVE  /\ bounds[AxisOf(t)].tight =>
                            \E f \in bounds[AxisOf(t)].failed :
                               /\ f[AxisOf(t)] >= current[AxisOf(t)]
                               /\ At(current, AxisOf(t), f[AxisOf(t)]) \notin link.clean
                      /\ ~bounds[AxisOf(t)].tight /\ link.clean = link.usable =>
                            current[AxisOf(t)] = Worst
    BY DEF BoundsMeanWhatTheySay
  <2>1. AxisOf(t) \in Axis
    BY AxisOfTurn
  <2>2. BoundHolds(AxisOf(t)) /\ turn > Turns
    BY <2>1 DEF BoundsInv
  <2>3. t < turn
    BY <2>2, TurnsNat DEF Inv, SearchInv, SearchTypeOK
  <2> QED
    BY <2>2, <2>3 DEF BoundHolds
<1> QED
  BY <1>1, <1>2, <1>3, Invariance, PTL DEF Spec


(***************************************************************************)
(* What the brackets of the loss-boundary search stand on                  *)
(***************************************************************************)
\* The last clean value of axis a and the first that is not, still apart.
CleanBracket(a) ==
    /\ good < notGood
    /\ OnAxis(a, good) \in link.usable /\ OnAxis(a, notGood) \notin link.clean

Neighbours(a) == CleanBracket(a) /\ notGood = good + 1

ProbedIn(a, S) == \E u \in S : probed = OnAxis(a, u)

\* The ends of an axis as the two probes of them answered.
EndsInv ==
    /\ phase = "rate_high" => probed = Ideal
    /\ phase \in {"rate_low", "jitter_high", "jitter_lost"} =>
          Len(seen) >= 1 /\ (seen[1] => Ideal \in link.usable)
    /\ phase = "rate_low" => probed = OnAxis("bandwidth", Worst)
    /\ phase = "jitter_low" => seen = <<>> /\ probed = Ideal
    /\ phase = "jitter_high" => Len(seen) = 1 /\ probed = OnAxis("jitter", Worst)
    /\ phase = "jitter_lost" =>
          /\ Len(seen) = 2
          /\ IF seen[2] THEN OnAxis("jitter", Worst) \in link.usable
                        ELSE OnAxis("jitter", Worst) \notin link.clean

\* The clean bracket closes first; the lossy one lies at or beyond it.
BracketInv ==
    /\ phase = "rate_bisect" =>
          CleanBracket("bandwidth") /\ ProbedIn("bandwidth", (good + 1)..(notGood - 1))
    /\ phase = "rate_bad" => Neighbours("bandwidth") /\ ProbedIn("bandwidth", notGood..Worst)
    /\ phase = "jitter_bisect" =>
          CleanBracket("jitter") /\ ProbedIn("jitter", (good + 1)..(notGood - 1))
    /\ phase \in {"jitter_bad", "jitter_not_bad"} =>
          Neighbours("jitter") /\ good <= notBad /\ notBad < bad
    /\ phase = "jitter_bad" => ProbedIn("jitter", (notBad + 1)..(bad - 1))

\* A record of an axis names the two neighbours, or the far end.
EdgeRecord(a, r) ==
    \/ r = Nothing
    \/ r = OpenEnd /\ OnAxis(a, Worst) \in link.usable
    \/ /\ r.good \in Severity /\ r.notGood = r.good + 1 /\ r.notGood \in Severity
       /\ OnAxis(a, r.good) \in link.usable /\ OnAxis(a, r.notGood) \notin link.clean
       /\ r.bad # None => r.bad \in Severity /\ r.bad > r.good

BoundaryInv == EndsInv /\ BracketInv /\ \A a \in Axis : EdgeRecord(a, report[a])

LEMMA OnAxisFacts ==
    ASSUME NEW a \in Axis, NEW u \in Severity
    PROVE  OnAxis(a, u) \in Candidate /\ OnAxis(a, u)[a] = u
  BY OnAxisIsCandidate, IdealIsCandidate DEF OnAxis, At, Ideal

LEMMA IdealOnAxis == \A a : OnAxis(a, 0) = Ideal
  BY DEF OnAxis, At, Ideal

\* On one axis, too, the link answers monotonically.
LEMMA EasierOnAxis ==
    ASSUME NEW a \in Axis, NEW u \in Severity, NEW v \in Severity, u <= v
    PROVE  NoHarder(OnAxis(a, u), OnAxis(a, v))
<1>1. \A b \in Axis : /\ OnAxis(a, u)[b] = (IF b = a THEN u ELSE 0)
                      /\ OnAxis(a, v)[b] = (IF b = a THEN v ELSE 0)
  BY DEF OnAxis, At, Ideal
<1> QED
  BY <1>1 DEF NoHarder

LEMMA AnsweredGood ==
    ASSUME ProbeInv, Decided("good")
    PROVE  /\ Good => probed \in link.usable
           /\ ~Good => probed \notin link.clean
<1>1. ~Good => sample.passed < sample.runs
  BY ProbingAssumption DEF ProbeInv, Counted, Decided, Good, NoLongerGood, Remaining
<1> QED
  BY <1>1, GoodCanPass DEF ProbeInv, FailedIsNotClean

LEMMA AxesAre == "bandwidth" \in Axis /\ "jitter" \in Axis
  BY LossBoundariesAssumption

\* While the loss-boundary driver takes a run, its search stays as it is.
LEMMA SameBoundary ==
    ASSUME BoundaryInv, UNCHANGED <<link, probed, boundary>>,
           phase' = phase \/ phase' \notin BoundaryPhase
    PROVE  BoundaryInv'
<1>1. UNCHANGED <<good, notGood, bad, notBad, seen, report>>
  BY DEF boundary, bracket
<1>2. EndsInv'
  BY <1>1 DEF BoundaryInv, EndsInv, BoundaryPhase
<1>3. BracketInv'
  BY <1>1 DEF BoundaryInv, BracketInv, CleanBracket, Neighbours, ProbedIn, BoundaryPhase
<1>4. \A a \in Axis : EdgeRecord(a, report[a])'
  BY <1>1 DEF BoundaryInv, EdgeRecord
<1> QED
  BY <1>2, <1>3, <1>4 DEF BoundaryInv

\* A record that holds is reported, and the next probe is one without a bracket.
LEMMA ReportedHolds ==
    ASSUME BoundaryTypeOK, BoundaryInv, NEW a \in Axis, NEW r, EdgeRecord(a, r),
           Conclude(a, r), link' = link
    PROVE  \A b \in Axis : EdgeRecord(b, report[b])'
<1>1. report' = [report EXCEPT ![a] = r] /\ report \in [Axis -> Boundary]
  BY DEF Conclude, BoundaryTypeOK
<1>2. \A b \in Axis : report'[b] = IF b = a THEN r ELSE report[b]
  BY <1>1
<1> QED
  BY <1>2 DEF BoundaryInv, EdgeRecord

LEMMA ReportRateHolds ==
    ASSUME BoundaryTypeOK, BoundaryInv, NEW r, EdgeRecord("bandwidth", r), ReportRate(r)
    PROVE  BoundaryInv'
<1>1. Conclude("bandwidth", r) /\ Probe("jitter_low", OnAxis("jitter", 0))
  BY DEF ReportRate
<1>2. link' = link /\ phase' = "jitter_low" /\ probed' = Ideal /\ seen' = <<>>
  BY <1>1, IdealOnAxis DEF Probe, Conclude
<1>3. \A b \in Axis : EdgeRecord(b, report[b])'
  BY <1>1, <1>2, AxesAre, ReportedHolds
<1>4. EndsInv' /\ BracketInv'
  BY <1>2 DEF EndsInv, BracketInv
<1> QED
  BY <1>3, <1>4 DEF BoundaryInv

LEMMA ReportJitterHolds ==
    ASSUME BoundaryTypeOK, BoundaryInv, NEW r, EdgeRecord("jitter", r), ReportJitter(r)
    PROVE  BoundaryInv'
<1>1. Conclude("jitter", r) /\ link' = link /\ phase' = "combined"
  BY DEF ReportJitter, Probe
<1>2. \A b \in Axis : EdgeRecord(b, report[b])'
  BY <1>1, AxesAre, ReportedHolds
<1>3. EndsInv' /\ BracketInv'
  BY <1>1 DEF EndsInv, BracketInv
<1> QED
  BY <1>2, <1>3 DEF BoundaryInv

\* The bracket of the bandwidth is closed, or its middle is probed.
LEMMA NextRateHolds ==
    ASSUME BoundaryTypeOK, BoundaryInv, NEW p \in Severity, NEW f \in Severity, p < f,
           OnAxis("bandwidth", p) \in link.usable, OnAxis("bandwidth", f) \notin link.clean,
           NextRate(p, f)
    PROVE  BoundaryInv'
<1>1. good' = p /\ notGood' = f /\ UNCHANGED report
  BY DEF NextRate, Bracket
<1>2. p \in Nat /\ f \in Nat /\ f <= Worst /\ Worst \in Nat
  BY ProbingAssumption DEF Severity
<1>3. CASE f - p > 1
  <2>1. Probe("rate_bisect", OnAxis("bandwidth", MidRate(p, f)))
    BY <1>3 DEF NextRate
  <2>2. MidRate(p, f) \in (p + 1)..(f - 1)
    BY <1>2, <1>3 DEF MidRate
  <2>3. phase' = "rate_bisect" /\ probed' = OnAxis("bandwidth", MidRate(p, f)) /\ link' = link
    BY <2>1 DEF Probe
  <2>4. CleanBracket("bandwidth")'
    BY <1>1, <2>3 DEF CleanBracket
  <2>5. ProbedIn("bandwidth", (good + 1)..(notGood - 1))'
    BY <1>1, <2>2, <2>3 DEF ProbedIn
  <2> QED
    BY <1>1, <2>3, <2>4, <2>5 DEF BoundaryInv, EndsInv, BracketInv, EdgeRecord
<1>4. CASE ~(f - p > 1)
  <2>1. Probe("rate_bad", OnAxis("bandwidth", f))
    BY <1>4 DEF NextRate
  <2>2. f = p + 1 /\ f \in f..Worst
    BY <1>2, <1>4
  <2>3. phase' = "rate_bad" /\ probed' = OnAxis("bandwidth", f) /\ link' = link
    BY <2>1 DEF Probe
  <2>4. Neighbours("bandwidth")'
    BY <1>1, <2>2, <2>3 DEF Neighbours, CleanBracket
  <2>5. ProbedIn("bandwidth", notGood..Worst)'
    BY <1>1, <2>2, <2>3 DEF ProbedIn
  <2> QED
    BY <1>1, <2>3, <2>4, <2>5 DEF BoundaryInv, EndsInv, BracketInv, EdgeRecord
<1> QED
  BY <1>3, <1>4

\* The lossy bracket is closed and its ends were measured, or one is probed.
LEMMA NextLossyHolds ==
    ASSUME BoundaryTypeOK, BoundaryInv,
           NEW p \in Severity, NEW f \in Severity, f = p + 1,
           OnAxis("jitter", p) \in link.usable, OnAxis("jitter", f) \notin link.clean,
           NEW nb \in Severity, NEW b \in Severity, p <= nb, nb < b,
           NextLossy(p, f, nb, b)
    PROVE  BoundaryInv'
<1>0. p \in Nat /\ f \in Nat /\ nb \in Nat /\ b \in Nat
  BY DEF Severity
<1>1. CASE nb # p /\ b - nb = 1
  <2> DEFINE r == [good |-> p, notGood |-> f, bad |-> b, tight |-> TRUE]
  <2>1. ReportJitter(r)
    BY <1>1 DEF NextLossy
  <2>2. EdgeRecord("jitter", r)
    BY <1>0 DEF EdgeRecord
  <2> HIDE DEF r
  <2> QED
    BY <2>1, <2>2, ReportJitterHolds
<1>2. CASE ~(nb # p /\ b - nb = 1)
  <2>1. /\ good' = p /\ notGood' = f /\ notBad' = nb /\ bad' = b /\ UNCHANGED report
    BY <1>2 DEF NextLossy, Bracket
  <2>2. CASE b - nb > 1
    <3>1. Probe("jitter_bad", OnAxis("jitter", MidJitter(nb, b)))
      BY <1>2, <2>2 DEF NextLossy
    <3>2. MidJitter(nb, b) \in (nb + 1)..(b - 1)
      BY <1>0, <2>2 DEF MidJitter
    <3>3. phase' = "jitter_bad" /\ probed' = OnAxis("jitter", MidJitter(nb, b)) /\ link' = link
      BY <3>1 DEF Probe
    <3>4. Neighbours("jitter")' /\ good' <= notBad' /\ notBad' < bad'
      BY <1>0, <2>1, <3>3 DEF Neighbours, CleanBracket
    <3>5. ProbedIn("jitter", (notBad + 1)..(bad - 1))'
      BY <2>1, <3>2, <3>3 DEF ProbedIn
    <3> QED
      BY <2>1, <3>3, <3>4, <3>5 DEF BoundaryInv, EndsInv, BracketInv, EdgeRecord
  <2>3. CASE ~(b - nb > 1)
    <3>1. Probe("jitter_not_bad", OnAxis("jitter", nb))
      BY <1>2, <2>3 DEF NextLossy
    <3>2. phase' = "jitter_not_bad" /\ link' = link
      BY <3>1 DEF Probe
    <3>3. Neighbours("jitter")' /\ good' <= notBad' /\ notBad' < bad'
      BY <1>0, <2>1, <3>2 DEF Neighbours, CleanBracket
    <3> QED
      BY <2>1, <3>2, <3>3 DEF BoundaryInv, EndsInv, BracketInv, EdgeRecord
  <2> QED
    BY <2>2, <2>3
<1> QED
  BY <1>1, <1>2

LEMMA NextCleanHolds ==
    ASSUME BoundaryTypeOK, BoundaryInv, NEW p \in Severity, NEW f \in Severity, p < f,
           OnAxis("jitter", p) \in link.usable, OnAxis("jitter", f) \notin link.clean,
           NEW lossy \in BOOLEAN, NextClean(p, f, lossy)
    PROVE  BoundaryInv'
<1>0. p \in Nat /\ f \in Nat /\ Worst \in Nat /\ f <= Worst /\ Worst \in Severity
  BY ProbingAssumption DEF Severity
<1>1. CASE f - p > 1
  <2>1. /\ good' = p /\ notGood' = f /\ UNCHANGED report
        /\ Probe("jitter_bisect", OnAxis("jitter", MidJitter(p, f)))
    BY <1>1 DEF NextClean, Bracket
  <2>2. MidJitter(p, f) \in (p + 1)..(f - 1)
    BY <1>0, <1>1 DEF MidJitter
  <2>3. phase' = "jitter_bisect" /\ probed' = OnAxis("jitter", MidJitter(p, f)) /\ link' = link
    BY <2>1 DEF Probe
  <2>4. CleanBracket("jitter")'
    BY <2>1, <2>3 DEF CleanBracket
  <2>5. ProbedIn("jitter", (good + 1)..(notGood - 1))'
    BY <2>1, <2>2, <2>3 DEF ProbedIn
  <2> QED
    BY <2>1, <2>3, <2>4, <2>5 DEF BoundaryInv, EndsInv, BracketInv, EdgeRecord
<1>2. CASE ~(f - p > 1) /\ lossy
  <2>1. NextLossy(p, f, p, Worst) /\ f = p + 1 /\ p <= p /\ p < Worst
    BY <1>0, <1>2 DEF NextClean
  <2> QED
    BY <1>0, <2>1, NextLossyHolds
<1>3. CASE ~(f - p > 1) /\ ~lossy
  <2> DEFINE r == [good |-> p, notGood |-> f, bad |-> None, tight |-> FALSE]
  <2>1. ReportJitter(r)
    BY <1>3 DEF NextClean
  <2>2. f = p + 1
    BY <1>0, <1>3
  <2>3. EdgeRecord("jitter", r)
    BY <2>2 DEF EdgeRecord
  <2> HIDE DEF r
  <2> QED
    BY <2>1, <2>3, ReportJitterHolds
<1> QED
  BY <1>1, <1>2, <1>3

\* Where the loss-boundary search is not at work its brackets say nothing.
LEMMA ElsewhereHolds ==
    ASSUME BoundaryInv, link' = link, UNCHANGED boundary, phase' \notin BoundaryPhase
    PROVE  BoundaryInv'
BY DEF BoundaryInv, EndsInv, BracketInv, EdgeRecord, boundary, BoundaryPhase

LEMMA SearchStaysHere ==
    ASSUME ProbeInv, SearchNext
    PROVE  link' = link /\ phase' \in SearchPhase \union {"ideal_failed", "done", "unjudged"}
<1> USE DEF SearchPhase, Probe
<1>1. CASE phase \in SearchPhase /\ Run("both") /\ UNCHANGED search
  BY <1>1 DEF Run
<1>2. CASE Baseline
  BY <1>2 DEF Baseline, Continue
<1>3. CASE LimitPasses \/ LimitFails
  BY <1>3 DEF LimitPasses, LimitFails, Select, Continue, Bisect
<1>4. CASE ResetPasses \/ ResetFails
  BY <1>4 DEF ResetPasses, ResetFails, Select, Continue, Bisect
<1>5. CASE Bisected
  BY <1>5 DEF Bisected, Select, Continue, Bisect
<1>6. CASE Final
  BY <1>6 DEF Final
<1>7. CASE phase \in SearchPhase /\ NothingArrives("both") /\ UNCHANGED search
  BY <1>7 DEF NothingArrives
<1> QED
  BY <1>1, <1>2, <1>3, <1>4, <1>5, <1>6, <1>7 DEF SearchNext

LEMMA SecondSeen ==
    ASSUME NEW s \in Seq(BOOLEAN), Len(s) = 1, NEW x \in BOOLEAN
    PROVE  LET t == Append(s, x) IN Len(t) = 2 /\ t[1] = s[1] /\ (t[2] <=> x)
<1>1. /\ Len(Append(s, x)) = 2 /\ Append(s, x)[2] = x /\ Append(s, x)[1] = s[1]
  OBVIOUS
<1> QED
  BY <1>1

LEMMA RateStepsHold ==
    ASSUME ProbeInv, BoundaryTypeOK, BoundaryInv, RateHigh \/ RateLow \/ RateBisect \/ RateBad
    PROVE  BoundaryInv'
<1>0. /\ 0 \in Severity /\ Worst \in Severity /\ 0 < Worst /\ Worst \in Nat
      /\ OnAxis("bandwidth", 0) = Ideal
  BY EndsAreSeverities, IdealOnAxis, ProbingAssumption
<1>1. CASE RateHigh
  <2>1. /\ phase = "rate_high" /\ Decided("good") /\ seen' = <<Good>>
        /\ Probe("rate_low", OnAxis("bandwidth", Worst)) /\ UNCHANGED <<bracket, report>>
    BY <1>1 DEF RateHigh, Answered, Mode
  <2>2. Good => Ideal \in link.usable
    BY <2>1, AnsweredGood DEF BoundaryInv, EndsInv
  <2>3. /\ phase' = "rate_low" /\ probed' = OnAxis("bandwidth", Worst) /\ link' = link
        /\ Len(seen') = 1 /\ (seen'[1] <=> Good)
    BY <2>1 DEF Probe
  <2>4. EndsInv' /\ BracketInv'
    BY <2>2, <2>3 DEF EndsInv, BracketInv
  <2> QED
    BY <2>1, <2>3, <2>4 DEF BoundaryInv, EdgeRecord
<1>2. CASE RateLow
  <2>1. /\ phase = "rate_low" /\ Decided("good") /\ probed = OnAxis("bandwidth", Worst)
        /\ seen[1] => Ideal \in link.usable
    BY <1>2 DEF RateLow, Answered, Mode, BoundaryInv, EndsInv
  <2>2. CASE ~seen[1]
    BY <1>2, <2>2, ReportRateHolds DEF RateLow, EdgeRecord
  <2>3. CASE seen[1] /\ Good
    <3>1. OnAxis("bandwidth", Worst) \in link.usable
      BY <2>1, <2>3, AnsweredGood
    <3> QED
      BY <1>2, <2>3, <3>1, ReportRateHolds DEF RateLow, EdgeRecord
  <2>4. CASE seen[1] /\ ~Good
    <3>1. OnAxis("bandwidth", Worst) \notin link.clean /\ NextRate(0, Worst)
      BY <1>2, <2>1, <2>4, AnsweredGood DEF RateLow
    <3> QED
      BY <1>0, <2>1, <2>4, <3>1, NextRateHolds
  <2> QED
    BY <2>2, <2>3, <2>4
<1>3. CASE RateBisect
  <2>1. /\ phase = "rate_bisect" /\ Decided("good") /\ CleanBracket("bandwidth")
        /\ ProbedIn("bandwidth", (good + 1)..(notGood - 1))
    BY <1>3 DEF RateBisect, Answered, Mode, BoundaryInv, BracketInv
  <2>2. PICK u \in (good + 1)..(notGood - 1) : probed = OnAxis("bandwidth", u)
    BY <2>1 DEF ProbedIn
  <2>3. /\ good \in Severity /\ notGood \in Severity /\ u \in Severity /\ good < u /\ u < notGood
    BY <2>2, ProbingAssumption DEF BoundaryTypeOK, Severity
  <2>4. probed["bandwidth"] = u
    BY <2>2, <2>3, AxesAre, OnAxisFacts
  <2>5. IF Good THEN NextRate(u, notGood) ELSE NextRate(good, u)
    BY <1>3, <2>4 DEF RateBisect
  <2>6. /\ Good => OnAxis("bandwidth", u) \in link.usable
        /\ ~Good => OnAxis("bandwidth", u) \notin link.clean
    BY <2>1, <2>2, AnsweredGood
  <2> QED
    BY <2>1, <2>3, <2>5, <2>6, NextRateHolds DEF CleanBracket
<1>4. CASE RateBad
  <2>1. Neighbours("bandwidth") /\ ProbedIn("bandwidth", notGood..Worst)
    BY <1>4 DEF RateBad, Answered, BoundaryInv, BracketInv
  <2>2. PICK u \in notGood..Worst : probed = OnAxis("bandwidth", u)
    BY <2>1 DEF ProbedIn
  <2>3. /\ good \in Severity /\ notGood \in Severity /\ u \in Severity /\ good \in Nat
        /\ notGood = good + 1 /\ good < u /\ u \in Nat /\ u <= Worst /\ notGood <= u
    BY <2>1, <2>2, ProbingAssumption DEF BoundaryTypeOK, Severity, Neighbours
  <2>4. probed["bandwidth"] = u
    BY <2>2, <2>3, AxesAre, OnAxisFacts
  <2> DEFINE Found(b) == [good |-> good, notGood |-> notGood, bad |-> b, tight |-> b = good + 1]
  <2>5. /\ Bad => ReportRate(Found(u))
        /\ ~Bad /\ u = Worst => ReportRate(Found(None))
        /\ ~Bad /\ u # Worst =>
              Probe("rate_bad", OnAxis("bandwidth", u + 1)) /\ UNCHANGED boundary
    BY <1>4, <2>4 DEF RateBad
  <2>6. EdgeRecord("bandwidth", Found(u)) /\ EdgeRecord("bandwidth", Found(None))
    BY <2>1, <2>3 DEF EdgeRecord, Neighbours, CleanBracket
  <2>7. ASSUME Probe("rate_bad", OnAxis("bandwidth", u + 1)), UNCHANGED boundary, u # Worst
        PROVE  BoundaryInv'
    <3>1. /\ phase' = "rate_bad" /\ link' = link /\ probed' = OnAxis("bandwidth", u + 1)
          /\ UNCHANGED <<good, notGood, report>>
      BY <2>7 DEF Probe, boundary, bracket
    <3>2. u + 1 \in notGood..Worst
      BY <1>0, <2>3, <2>7
    <3>3. Neighbours("bandwidth")' /\ ProbedIn("bandwidth", notGood..Worst)'
      BY <2>1, <3>1, <3>2 DEF Neighbours, CleanBracket, ProbedIn
    <3> QED
      BY <3>1, <3>3 DEF BoundaryInv, EndsInv, BracketInv, EdgeRecord
  <2> HIDE DEF Found
  <2> QED
    BY <2>5, <2>6, <2>7, ReportRateHolds
<1> QED
  BY <1>1, <1>2, <1>3, <1>4

LEMMA JitterEndsHold ==
    ASSUME ProbeInv, BoundaryTypeOK, BoundaryInv, JitterLow \/ JitterHigh \/ JitterLost
    PROVE  BoundaryInv'
<1>0. /\ 0 \in Severity /\ Worst \in Severity /\ 0 < Worst /\ OnAxis("jitter", 0) = Ideal
  BY EndsAreSeverities, IdealOnAxis, ProbingAssumption
<1>1. CASE JitterLow
  <2>1. /\ phase = "jitter_low" /\ Decided("good") /\ seen = <<>> /\ probed = Ideal
        /\ seen' = Append(seen, Good) /\ UNCHANGED report
        /\ Probe("jitter_high", OnAxis("jitter", Worst))
    BY <1>1 DEF JitterLow, JitterEnd, Answered, Mode, BoundaryInv, EndsInv
  <2>2. Good => Ideal \in link.usable
    BY <2>1, AnsweredGood
  <2>3. Len(seen') = 1 /\ (seen'[1] <=> Good)
    BY <2>1
  <2>4. phase' = "jitter_high" /\ probed' = OnAxis("jitter", Worst) /\ link' = link
    BY <2>1 DEF Probe
  <2> QED
    BY <2>1, <2>2, <2>3, <2>4 DEF BoundaryInv, EndsInv, BracketInv, EdgeRecord
<1>2. CASE JitterHigh
  <2>1. /\ phase = "jitter_high" /\ Decided("good") /\ Len(seen) = 1
        /\ seen[1] => Ideal \in link.usable
        /\ probed = OnAxis("jitter", Worst) /\ seen' = Append(seen, Good) /\ UNCHANGED report
        /\ Probe("jitter_lost", OnAxis("jitter", Worst))
    BY <1>2 DEF JitterHigh, JitterEnd, Answered, Mode, BoundaryInv, EndsInv
  <2>2. /\ Good => OnAxis("jitter", Worst) \in link.usable
        /\ ~Good => OnAxis("jitter", Worst) \notin link.clean
    BY <2>1, AnsweredGood
  <2>3. Len(seen') = 2 /\ seen'[1] = seen[1] /\ (seen'[2] <=> Good)
    <3>1. seen \in Seq(BOOLEAN) /\ Good \in BOOLEAN
      BY DEF BoundaryTypeOK, Good
    <3> HIDE DEF Good
    <3> QED
      BY <2>1, <3>1, SecondSeen
  <2>4. phase' = "jitter_lost" /\ link' = link
    BY <2>1 DEF Probe
  <2> QED
    BY <2>1, <2>2, <2>3, <2>4 DEF BoundaryInv, EndsInv, BracketInv, EdgeRecord
<1>3. CASE JitterLost
  <2>1. /\ phase = "jitter_lost" /\ (seen[1] => Ideal \in link.usable)
        /\ IF seen[2] THEN OnAxis("jitter", Worst) \in link.usable
                      ELSE OnAxis("jitter", Worst) \notin link.clean
    BY <1>3 DEF JitterLost, Answered, BoundaryInv, EndsInv
  <2>2. CASE ~seen[1]
    BY <1>3, <2>2, ReportJitterHolds DEF JitterLost, EdgeRecord
  <2>3. CASE seen[1] /\ seen[2]
    BY <1>3, <2>1, <2>3, ReportJitterHolds DEF JitterLost, EdgeRecord
  <2>4. CASE seen[1] /\ ~seen[2]
    <3>1. NextClean(0, Worst, Bad) /\ Bad \in BOOLEAN
      BY <1>3, <2>4 DEF JitterLost, Bad
    <3> QED
      BY <1>0, <2>1, <2>4, <3>1, NextCleanHolds
  <2> QED
    BY <2>2, <2>3, <2>4
<1> QED
  BY <1>1, <1>2, <1>3

LEMMA JitterStepsHold ==
    ASSUME ProbeInv, BoundaryTypeOK, BoundaryInv, JitterBisect \/ JitterBad \/ JitterNotBad
    PROVE  BoundaryInv'
<1>1. CASE JitterBisect
  <2>1. /\ phase = "jitter_bisect" /\ Decided("good") /\ CleanBracket("jitter")
        /\ ProbedIn("jitter", (good + 1)..(notGood - 1))
    BY <1>1 DEF JitterBisect, Answered, Mode, BoundaryInv, BracketInv
  <2>2. PICK u \in (good + 1)..(notGood - 1) : probed = OnAxis("jitter", u)
    BY <2>1 DEF ProbedIn
  <2>3. /\ good \in Severity /\ notGood \in Severity /\ u \in Severity /\ good < u /\ u < notGood
    BY <2>2, ProbingAssumption DEF BoundaryTypeOK, Severity
  <2>4. probed["jitter"] = u
    BY <2>2, <2>3, AxesAre, OnAxisFacts
  <2>5. IF Good THEN NextClean(u, notGood, bad # None) ELSE NextClean(good, u, bad # None)
    BY <1>1, <2>4 DEF JitterBisect
  <2>6. /\ Good => OnAxis("jitter", u) \in link.usable
        /\ ~Good => OnAxis("jitter", u) \notin link.clean
    BY <2>1, <2>2, AnsweredGood
  <2>7. (bad # None) \in BOOLEAN
    OBVIOUS
  <2> QED
    BY <2>1, <2>3, <2>5, <2>6, <2>7, NextCleanHolds DEF CleanBracket
<1>2. CASE JitterBad
  <2>1. /\ phase = "jitter_bad" /\ Neighbours("jitter") /\ good <= notBad /\ notBad < bad
        /\ ProbedIn("jitter", (notBad + 1)..(bad - 1))
    BY <1>2 DEF JitterBad, Answered, BoundaryInv, BracketInv
  <2>2. PICK u \in (notBad + 1)..(bad - 1) : probed = OnAxis("jitter", u)
    BY <2>1 DEF ProbedIn
  <2>3. /\ good \in Severity /\ notGood \in Severity /\ notBad \in Severity /\ bad \in Severity
        /\ u \in Severity /\ good <= u /\ notBad < u /\ u < bad
    BY <2>1, <2>2, ProbingAssumption DEF BoundaryTypeOK, Severity, Unit, None
  <2>4. probed["jitter"] = u
    BY <2>2, <2>3, AxesAre, OnAxisFacts
  <2>5. IF Bad THEN NextLossy(good, notGood, notBad, u) ELSE NextLossy(good, notGood, u, bad)
    BY <1>2, <2>4 DEF JitterBad
  <2> QED
    BY <2>1, <2>3, <2>5, NextLossyHolds DEF Neighbours, CleanBracket
<1>3. CASE JitterNotBad
  <2> DEFINE r == [good |-> good, notGood |-> notGood, bad |-> bad, tight |-> TRUE]
  <2>1. Neighbours("jitter") /\ good <= notBad /\ notBad < bad /\ ReportJitter(r)
    BY <1>3 DEF JitterNotBad, Answered, BoundaryInv, BracketInv
  <2>2. good \in Severity /\ notGood \in Severity /\ bad \in Severity /\ bad > good
    BY <2>1 DEF BoundaryTypeOK, Severity, Unit, None
  <2>3. EdgeRecord("jitter", r)
    BY <2>1, <2>2 DEF EdgeRecord, Neighbours, CleanBracket
  <2> HIDE DEF r
  <2> QED
    BY <2>1, <2>3, ReportJitterHolds
<1> QED
  BY <1>1, <1>2, <1>3

LEMMA BoundaryKeepsEdges ==
    ASSUME ProbeInv, BoundaryTypeOK, BoundaryInv, BoundaryNext
    PROVE  BoundaryInv'
<1>1. CASE phase \in BoundaryPhase /\ Run(Mode) /\ UNCHANGED boundary
  BY <1>1, SameBoundary DEF Run
<1>2. CASE phase \in BoundaryPhase /\ NothingArrives(Mode) /\ UNCHANGED boundary
  BY <1>2, SameBoundary DEF NothingArrives, BoundaryPhase
<1>3. CASE Report
  BY <1>3, SameBoundary DEF Report, BoundaryPhase
<1> QED
  BY <1>1, <1>2, <1>3, RateStepsHold, JitterEndsHold, JitterStepsHold DEF BoundaryNext

\* What is recorded of an axis is its edge.
LEMMA RecordsAreEdges ==
    ASSUME link \in Link, NEW a \in Axis, NEW r, EdgeRecord(a, r)
    PROVE  /\ r.good # None => OnAxis(a, r.good) \in link.usable
           /\ r.notGood # None => r.notGood = r.good + 1 /\ OnAxis(a, r.notGood) \notin link.clean
           /\ r.bad # None => r.bad > r.good /\ OnAxis(a, r.bad) \notin link.clean
           /\ r.good # None /\ link.clean = link.usable =>
                 \A u \in Severity : OnAxis(a, u) \in link.clean <=> u <= r.good
<1>1. ASSUME NEW u \in Severity, NEW v \in Severity, u <= v
      PROVE  /\ OnAxis(a, v) \in link.clean => OnAxis(a, u) \in link.clean
             /\ OnAxis(a, v) \in link.usable => OnAxis(a, u) \in link.usable
  BY <1>1, EasierOnAxis, OnAxisFacts DEF Link, DownClosed
<1>2. CASE r = Nothing
  BY <1>2 DEF Nothing
<1>3. CASE r = OpenEnd /\ OnAxis(a, Worst) \in link.usable
  <2>1. r.good = Worst /\ r.notGood = None /\ r.bad = None
    BY <1>3 DEF OpenEnd, Nothing
  <2>2. \A u \in Severity : u <= Worst /\ Worst \in Severity
    BY EndsAreSeverities, ProbingAssumption DEF Severity
  <2>3. \A u \in Severity : OnAxis(a, u) \in link.usable
    BY <1>1, <1>3, <2>2
  <2>4. \A u \in Severity : u <= r.good
    BY <2>1, <2>2
  <2>5. r.good # None => OnAxis(a, r.good) \in link.usable
    BY <1>3, <2>1
  <2>6. link.clean = link.usable =>
           \A u \in Severity : OnAxis(a, u) \in link.clean <=> u <= r.good
    BY <2>3, <2>4
  <2> QED
    BY <2>1, <2>5, <2>6
<1>4. CASE /\ r.good \in Severity /\ r.notGood = r.good + 1 /\ r.notGood \in Severity
           /\ OnAxis(a, r.good) \in link.usable /\ OnAxis(a, r.notGood) \notin link.clean
           /\ r.bad # None => r.bad \in Severity /\ r.bad > r.good
  <2>1. ASSUME NEW u \in Severity, u > r.good PROVE OnAxis(a, u) \notin link.clean
    <3>1. r.notGood <= u
      BY <1>4, <2>1 DEF Severity
    <3> QED
      BY <1>1, <1>4, <3>1
  <2>2. ASSUME NEW u \in Severity, u <= r.good PROVE OnAxis(a, u) \in link.usable
    BY <1>1, <1>4, <2>2
  <2>3. \A u \in Severity : u <= r.good \/ u > r.good
    BY <1>4 DEF Severity
  <2> QED
    BY <1>4, <2>1, <2>2, <2>3
<1> QED
  BY <1>2, <1>3, <1>4 DEF EdgeRecord

\* Whatever a bisection reports is the edge it looked for: search_bandwidth and
\* search_jitter their last clean value, capacity_binary_search its highest load,
\* for any link, noisy or not, and any number of steps.
THEOREM EdgesAreTheEdges == Spec => []EdgesAreFound
<1>1. Init => BoundaryInv
  <2> SUFFICES ASSUME Init PROVE BoundaryInv
    OBVIOUS
  <2>1. /\ phase \in {"ideal", "rate_high", "capacity_low", "no_search"} /\ probed = Ideal
        /\ report = [a \in Axis |-> Nothing]
    BY DEF Init, BoundaryInit
  <2> QED
    BY <2>1 DEF BoundaryInv, EndsInv, BracketInv, EdgeRecord
<1>2. Inv /\ BoundaryInv /\ [Next]_vars => BoundaryInv'
  <2> SUFFICES ASSUME Inv, BoundaryInv, [Next]_vars PROVE BoundaryInv'
    OBVIOUS
  <2>1. ASSUME SearchNext, UNCHANGED boundary PROVE BoundaryInv'
    <3>1. link' = link /\ phase' \in SearchPhase \union {"ideal_failed", "done", "unjudged"}
      BY <2>1, SearchStaysHere DEF Inv
    <3> QED
      BY <2>1, <3>1, ElsewhereHolds DEF SearchPhase, BoundaryPhase
  <2>2. CASE BoundaryNext
    BY <2>2, BoundaryKeepsEdges DEF Inv
  <2>3. ASSUME CapacityNext, UNCHANGED boundary PROVE BoundaryInv'
    <3>1. link' = link /\ phase' \in CapacityPhase \union {"capacity_found"}
      BY <2>3 DEF CapacityNext, CapacityPhase, Run, LowestProbed, MiddleProbed, Narrow, Probe
    <3> QED
      BY <2>3, <3>1, ElsewhereHolds DEF CapacityPhase, BoundaryPhase
  <2>4. ASSUME UNCHANGED <<probing, boundary>> PROVE BoundaryInv'
    BY <2>4, SameBoundary DEF probing
  <2> QED
    BY <2>1, <2>2, <2>3, <2>4 DEF Next, Searching, Gating, Pointing, vars
<1>3. Inv /\ BoundaryInv => EdgesAreFound
  <2> SUFFICES ASSUME Inv, BoundaryInv PROVE BoundaryIsTheEdge /\ CapacityIsTheEdge
    BY DEF EdgesAreFound
  <2>1. BoundaryIsTheEdge
    BY RecordsAreEdges DEF Inv, ProbeInv, BoundaryInv, BoundaryIsTheEdge
  <2> QED
    BY <2>1 DEF Inv, CapacityInv
<1> QED
  BY <1>1, <1>2, <1>3, Invariance, PTL DEF Spec

(***************************************************************************)
(* The lists of cases                                                      *)
(***************************************************************************)

\* The roots as the command found and prepared them.
Home == IF stage = "at" THEN previous ELSE roots

SensitivityShape ==
    {Case("baseline", 0, Unshaped), Case("ideal", IdealRate, IdealNet), Case("base", 0, BaseNet)}
    \union {Case(ax, v, SensitivityNet(ax, v)) : ax \in SensitivityAxes, v \in Nat}

MatrixShape(prepared) ==
    {MatrixCase(prepared, ax, v) : ax \in {"reference", "latency", "hz"}, v \in Nat}
    \union {MatrixCase(prepared, "qos", v) : v \in STRING}

AbCase(label) == [Case("config", label, BaseNet) EXCEPT !.brings = <<[config |-> label, qos |-> PinnedQos]>>]

AbShape == {AbCase(label) : label \in STRING}

SweepShape == {Case("profile", IdealRate, IdealNet), Case("profile", BaseNet.rate, BaseNet)}

RampShape == {[Case("size", v, BaseNet) EXCEPT !.size = v] : v \in Nat}

ShapeOf(prepared) ==
    CASE genre = "ab"          -> AbShape
      [] genre = "matrix"      -> MatrixShape(prepared)
      [] genre = "sensitivity" -> SensitivityShape
      [] genre = "sweep"       -> SweepShape
      [] genre = "ramp"        -> RampShape
      [] OTHER                 -> {Case("none", 0, BaseNet)}

LEMMA SensitivityLoops ==
    ASSUME NEW ax \in SensitivityAxes
    PROVE  SensitivityOn(ax) \in Seq(SensitivityShape)
<1>1. Values[ax] \in Seq(Nat)
  BY PointCommandsAssumption DEF SensitivityAxes, MatrixAxes
<1>2. \A i \in 1..Len(Values[ax]) : Values[ax][i] \in Nat
  BY <1>1
<1>3. \A i \in 1..Len(Values[ax]) :
         Case(ax, Values[ax][i], SensitivityNet(ax, Values[ax][i])) \in SensitivityShape
  BY <1>2 DEF SensitivityShape
<1>4. Len(Values[ax]) \in Nat
  BY <1>1
<1> QED BY <1>3, <1>4 DEF SensitivityOn

LEMMA SensitivityIsShaped == SensitivityCases \in Seq(SensitivityShape)
<1> DEFINE first == <<Case("baseline", 0, Unshaped), Case("ideal", IdealRate, IdealNet),
                      Case("base", 0, BaseNet)>>
<1>1. first \in Seq(SensitivityShape)
  BY DEF SensitivityShape
<1>2. /\ SensitivityOn("loss") \in Seq(SensitivityShape)
      /\ SensitivityOn("delay") \in Seq(SensitivityShape)
      /\ SensitivityOn("jitter") \in Seq(SensitivityShape)
      /\ SensitivityOn("rate") \in Seq(SensitivityShape)
      /\ SensitivityOn("loss_correlation") \in Seq(SensitivityShape)
  BY SensitivityLoops DEF SensitivityAxes
<1> HIDE DEF first
<1>3. first \o SensitivityOn("loss") \in Seq(SensitivityShape)
  BY <1>1, <1>2
<1>4. first \o SensitivityOn("loss") \o SensitivityOn("delay") \in Seq(SensitivityShape)
  BY <1>2, <1>3
<1>5. first \o SensitivityOn("loss") \o SensitivityOn("delay") \o SensitivityOn("jitter")
        \in Seq(SensitivityShape)
  BY <1>2, <1>4
<1>6. first \o SensitivityOn("loss") \o SensitivityOn("delay") \o SensitivityOn("jitter")
        \o SensitivityOn("rate") \in Seq(SensitivityShape)
  BY <1>2, <1>5
<1>7. first \o SensitivityOn("loss") \o SensitivityOn("delay") \o SensitivityOn("jitter")
        \o SensitivityOn("rate") \o SensitivityOn("loss_correlation") \in Seq(SensitivityShape)
  BY <1>2, <1>6
<1> QED BY <1>7 DEF SensitivityCases, first

LEMMA MatrixLoops ==
    ASSUME NEW prepared, NEW ax \in MatrixAxes
    PROVE  MatrixOn(prepared, ax) \in Seq(MatrixShape(prepared))
<1>1. /\ ax # "qos" => Values[ax] \in Seq(Nat)
      /\ Values["qos"] \in Seq(STRING)
  BY PointCommandsAssumption DEF SensitivityAxes, MatrixAxes
<1>2. \A i \in 1..Len(Values[ax]) :
         /\ ax # "qos" => Values[ax][i] \in Nat
         /\ ax = "qos" => Values[ax][i] \in STRING
  BY <1>1
<1>3. \A i \in 1..Len(Values[ax]) : MatrixCase(prepared, ax, Values[ax][i]) \in MatrixShape(prepared)
  BY <1>2 DEF MatrixShape, MatrixAxes
<1>4. Len(Values[ax]) \in Nat
  BY <1>1
<1> QED BY <1>3, <1>4 DEF MatrixOn

LEMMA MatrixIsShaped ==
    ASSUME NEW prepared
    PROVE  MatrixCases(prepared) \in Seq(MatrixShape(prepared))
<1> DEFINE first == <<MatrixCase(prepared, "reference", 0)>>
           S == Seq(MatrixShape(prepared))
<1>1. first \in S
  BY DEF MatrixShape
<1>2. MatrixOn(prepared, "latency") \in S /\ MatrixOn(prepared, "hz") \in S /\ MatrixOn(prepared, "qos") \in S
  BY MatrixLoops DEF MatrixAxes
<1> HIDE DEF first
<1>3. first \o MatrixOn(prepared, "latency") \in S
  BY <1>1, <1>2
<1>4. first \o MatrixOn(prepared, "latency") \o MatrixOn(prepared, "hz") \in S
  BY <1>2, <1>3
<1>5. first \o MatrixOn(prepared, "latency") \o MatrixOn(prepared, "hz") \o MatrixOn(prepared, "qos") \in S
  BY <1>2, <1>4
<1> QED BY <1>5 DEF MatrixCases, first

Runs == AbRepeats * Len(Labels)

LEMMA RunsOfAb ==
    /\ Len(Labels) \in Nat \ {0} /\ Runs \in Nat
    /\ \A i \in 1..Runs : Schedule[i] \in STRING
    /\ DOMAIN Schedule = 1..Runs /\ Len(Schedule) = Runs
<1> DEFINE L == Len(Labels)
<1>1. L \in Nat \ {0} /\ AbRepeats \in Nat
  BY PointCommandsAssumption
<1>2. Runs \in Nat
  BY <1>1 DEF Runs
<1>3. ASSUME NEW i \in 1..Runs PROVE Schedule[i] \in STRING
  <2>1. (i - 1 + (i - 1) \div L) \in Int
    BY <1>1, <1>2
  <2>2. ((i - 1 + (i - 1) \div L) % L) + 1 \in 1..L
    BY <1>1, <2>1
  <2> QED BY <1>3, <2>2, PointCommandsAssumption DEF Schedule, Runs
<1>4. DOMAIN Schedule = 1..Runs /\ Len(Schedule) = Runs
  BY <1>2 DEF Schedule, Runs
<1> QED BY <1>1, <1>2, <1>3, <1>4

LEMMA AbIsShaped ==
    /\ AbCases \in Seq(AbShape)
    /\ Len(AbCases) = Runs
    /\ \A i \in 1..Runs : AbCases[i] = AbCase(Schedule[i])
<1>1. AbCases = [i \in 1..Runs |-> AbCase(Schedule[i])]
  BY RunsOfAb DEF AbCases, AbCase
<1>2. \A i \in 1..Runs : AbCase(Schedule[i]) \in AbShape
  BY RunsOfAb DEF AbShape
<1> QED BY <1>1, <1>2, RunsOfAb

LEMMA CasesAreShaped == Cases \in Seq(ShapeOf(Prepared))
<1>1. CASE genre = "ab"
  BY <1>1, AbIsShaped DEF Cases, ShapeOf
<1>2. CASE genre = "matrix"
  BY <1>2, MatrixIsShaped DEF Cases, ShapeOf
<1>3. CASE genre = "sensitivity"
  BY <1>3, SensitivityIsShaped DEF Cases, ShapeOf
<1>4. CASE genre = "sweep"
  BY <1>4 DEF Cases, ShapeOf, SweepShape
<1>5. CASE genre = "ramp"
  <2>1. Values["size"] \in Seq(Nat)
    BY PointCommandsAssumption
  <2>2. /\ Len(Values["size"]) \in Nat
        /\ \A i \in 1..Len(Values["size"]) : Values["size"][i] \in Nat
    BY <2>1
  <2>3. \A i \in 1..Len(Values["size"]) :
            [Case("size", Values["size"][i], BaseNet) EXCEPT !.size = Values["size"][i]] \in RampShape
    BY <2>2 DEF RampShape
  <2>4. Cases = [i \in 1..Len(Values["size"]) |->
                    [Case("size", Values["size"][i], BaseNet) EXCEPT !.size = Values["size"][i]]]
    BY <1>5 DEF Cases
  <2>5. ShapeOf(Prepared) = RampShape
    BY <1>5 DEF ShapeOf
  <2> QED BY <2>2, <2>3, <2>4, <2>5
<1>6. CASE genre \notin {"ab", "matrix", "sensitivity", "sweep", "ramp"}
  <2>1. Cases = <<Case("none", 0, BaseNet)>>
    BY <1>6 DEF Cases
  <2>2. ShapeOf(Prepared) = {Case("none", 0, BaseNet)}
    BY <1>6 DEF ShapeOf
  <2> QED BY <2>1, <2>2
<1> QED BY <1>1, <1>2, <1>3, <1>4, <1>5, <1>6

(***************************************************************************)
(* What is measured, in which order                                        *)
(***************************************************************************)
Reads == Readings \union {NoReading} \union Recordings

PointSet ==
    [case : ShapeOf(Prepared), ran : {FirstIn(c.brings \o Home) : c \in ShapeOf(Prepared)}, read : Reads]

\* Between two cases the roots are those the command began with; every point is
\* its case of the list, run by the session that case puts first.
PointsInv ==
    /\ Home \in Seq(Session)
    /\ genre \in {"matrix", "sensitivity", "sweep", "ramp", "probe"} => Home # <<>>
    /\ stage = "at" =>
          /\ Len(points) < Len(Cases)
          /\ roots = Cases[Len(points) + 1].brings \o Home
    /\ stage # "at" => previous = <<>>
    /\ points \in Seq(PointSet)
    /\ Len(points) <= Len(Cases)
    /\ stage = "written" => Len(points) = Len(Cases)
    /\ \A i \in 1..Len(points) :
          /\ points[i].case = Cases[i]
          /\ points[i].ran = FirstIn(Cases[i].brings \o Home)
          /\ genre = "ab" => points[i].read \in Readings \union {NoReading}

LEMMA PointsInitInv == PointsInit => PointsInv
<1> SUFFICES ASSUME PointsInit PROVE PointsInv
  OBVIOUS
<1>1. Home = roots
  BY DEF PointsInit, Home
<1>2. roots \in Seq(Session)
  <2>1. PICK own \in {<<>>, <<Override>>} :
          roots = IF genre \in {"none", "ab"} THEN own ELSE <<[FirstIn(own) EXCEPT !.qos = PinnedQos]>> \o own
    BY DEF PointsInit
  <2>2. own \in Seq(Session) /\ FirstIn(own) \in Session
    <3>1. CASE own = <<>>
      <4>1. FirstIn(own) = Shipped
        BY <3>1 DEF FirstIn
      <4> QED BY <3>1, <4>1, PointCommandsAssumption
    <3>2. CASE own = <<Override>>
      <4>1. FirstIn(own) = Override
        BY <3>2 DEF FirstIn
      <4> QED BY <3>2, <4>1, PointCommandsAssumption
    <3> QED BY <2>1, <3>1, <3>2
  <2>3. [FirstIn(own) EXCEPT !.qos = PinnedQos] \in Session
    BY <2>2, PointCommandsAssumption DEF Session
  <2> HIDE DEF FirstIn
  <2>4. <<[FirstIn(own) EXCEPT !.qos = PinnedQos]>> \o own \in Seq(Session)
    BY <2>2, <2>3
  <2> QED BY <2>1, <2>2, <2>4
<1>3. genre \notin {"none", "ab"} => roots # <<>>
  BY DEF PointsInit
<1>4. points = <<>> /\ previous = <<>> /\ stage = "between"
  BY DEF PointsInit
<1>5. points \in Seq(PointSet) /\ Len(points) = 0
  BY <1>4
<1>6. Len(Cases) \in Nat
  BY CasesAreShaped
<1> QED BY <1>1, <1>2, <1>3, <1>4, <1>5, <1>6 DEF PointsInv

LEMMA TheListStays ==
    ASSUME genre' = genre, axes' = axes, Home' = Home
    PROVE  Cases' = Cases /\ ShapeOf(Prepared)' = ShapeOf(Prepared) /\ PointSet' = PointSet
<1>1. Prepared' = Prepared
  BY DEF Home, Prepared
<1>2. /\ AbCases' = AbCases /\ SensitivityCases' = SensitivityCases
      /\ MatrixCases(Prepared)' = MatrixCases(Prepared)
  BY <1>1 DEF AbCases, SensitivityCases, SensitivityOn, MatrixCases, MatrixOn
<1>3. Cases' = Cases
  BY <1>1, <1>2 DEF Cases
<1>4. ShapeOf(Prepared)' = ShapeOf(Prepared)
  BY <1>1 DEF ShapeOf, MatrixShape
<1> QED BY <1>3, <1>4 DEF PointSet

\* A step that leaves a case, or enters one, leaves the roots behind it alone.
LEMMA HomeStays ==
    ASSUME PointsInv, PointsNext
    PROVE  Home' = Home /\ genre' = genre /\ axes' = axes
<1>1. CASE Enter
  BY <1>1 DEF Enter, Home
<1>2. ASSUME NEW next \in {"between", "raised"}, stage = "at", Leave(next)
      PROVE  Home' = Home /\ genre' = genre /\ axes' = axes
  BY <1>2 DEF Leave, Home
<1>3. CASE MeasurePoint
  BY <1>2, <1>3 DEF MeasurePoint, Measure
<1>4. CASE PointRaises
  BY <1>2, <1>4 DEF PointRaises
<1>5. CASE WriteResult
  BY <1>5 DEF WriteResult, Home
<1> QED BY <1>1, <1>3, <1>4, <1>5 DEF PointsNext

LEMMA MeasureKeeps ==
    ASSUME PointsInv, stage = "at", NEW reading \in Reads, Measure(reading),
           genre = "ab" => reading \in Readings \union {NoReading},
           Home' = Home, Cases' = Cases, ShapeOf(Prepared)' = ShapeOf(Prepared), PointSet' = PointSet
    PROVE  PointsInv'
<1> DEFINE n == Len(points) + 1
           new == [case |-> Cases[n], ran |-> FirstIn(roots), read |-> reading]
<1>1. /\ Len(points) \in Nat /\ n \in 1..Len(Cases) /\ Len(Cases) \in Nat
      /\ roots = Cases[n].brings \o Home
      /\ Cases[n] \in ShapeOf(Prepared)
  BY CasesAreShaped DEF PointsInv
<1>2. new \in PointSet
  BY <1>1 DEF PointSet
<1>3. points' = Append(points, new) /\ stage' = "between" /\ previous' = <<>> /\ genre' = genre
  BY DEF Measure, Leave
<1> HIDE DEF new
<1>4. /\ points' \in Seq(PointSet) /\ Len(points') = n /\ points'[n] = new
      /\ \A i \in 1..Len(points) : points'[i] = points[i]
  BY <1>2, <1>3 DEF PointsInv
<1>5. ASSUME NEW i \in 1..Len(points')
      PROVE  /\ points'[i].case = Cases[i]
             /\ points'[i].ran = FirstIn(Cases[i].brings \o Home)
             /\ genre = "ab" => points'[i].read \in Readings \union {NoReading}
  <2>1. CASE i = n
    BY <1>1, <1>4, <2>1 DEF new
  <2>2. CASE i # n
    <3>1. i \in 1..Len(points)
      BY <1>1, <1>4, <2>2
    <3> QED BY <1>4, <3>1 DEF PointsInv
  <2> QED BY <2>1, <2>2
<1> QED BY <1>1, <1>3, <1>4, <1>5 DEF PointsInv

LEMMA PointsNextInv == PointsInv /\ PointsNext => PointsInv'
<1> SUFFICES ASSUME PointsInv, PointsNext PROVE PointsInv'
  OBVIOUS
<1>1. /\ Home' = Home /\ genre' = genre
      /\ Cases' = Cases /\ ShapeOf(Prepared)' = ShapeOf(Prepared) /\ PointSet' = PointSet
  BY HomeStays, TheListStays
<1>2. CASE Enter
  BY <1>1, <1>2 DEF Enter, PointsInv, Home
<1>3. CASE MeasurePoint
  <2>1. PICK reading \in Reads : Measure(reading) /\ (genre = "ab" => reading \in Readings \union {NoReading})
    BY <1>3 DEF MeasurePoint, Reads
  <2> QED BY <1>1, <1>3, <2>1, MeasureKeeps DEF MeasurePoint
<1>4. CASE PointRaises
  BY <1>1, <1>4 DEF PointRaises, Leave, PointsInv
<1>5. CASE WriteResult
  BY <1>1, <1>5 DEF WriteResult, PointsInv
<1> QED BY <1>2, <1>3, <1>4, <1>5 DEF PointsNext

THEOREM PointsInvariance == Spec => []PointsInv
<1>1. Init => PointsInv
  BY PointsInitInv DEF Init
<1>2. PointsInv /\ [Next]_vars => PointsInv'
  <2> SUFFICES ASSUME PointsInv, [Next]_vars PROVE PointsInv'
    OBVIOUS
  <2>1. CASE PointsNext
    BY <2>1, PointsNextInv
  <2>2. CASE UNCHANGED pointing
    <3>1. /\ Home' = Home /\ genre' = genre /\ axes' = axes
          /\ UNCHANGED <<roots, previous, stage, points>>
      BY <2>2 DEF pointing, Home
    <3>2. Cases' = Cases /\ ShapeOf(Prepared)' = ShapeOf(Prepared) /\ PointSet' = PointSet
      BY <3>1, TheListStays
    <3> QED BY <3>1, <3>2 DEF PointsInv
  <2> QED BY <2>1, <2>2 DEF Next, Searching, Pointing, Gating, vars
<1> QED BY <1>1, <1>2, PTL DEF Spec

(***************************************************************************)
(* Only the axis varies                                                    *)
(***************************************************************************)
\* What the point of a case runs under, in the roots of the command.
PointOf(c) == [case |-> c, ran |-> FirstIn(c.brings \o Home)]

KnobOfNet == {"rate", "up", "down", "jitter", "loss", "corr"}

LEMMA UnderAt ==
    ASSUME NEW p
    PROVE  /\ Knob = {"config", "qos", "hz", "size"} \union KnobOfNet
           /\ Under(p)["config"] = p.ran.config /\ Under(p)["qos"] = p.ran.qos
           /\ Under(p)["hz"] = p.case.hz /\ Under(p)["size"] = p.case.size
           /\ \A k \in KnobOfNet : Under(p)[k] = p.case.net[k]
<1>1. DOMAIN BaseNet = KnobOfNet
  BY PointCommandsAssumption DEF Network, KnobOfNet
<1>2. Knob = {"config", "qos", "hz", "size"} \union KnobOfNet
  BY <1>1 DEF Knob
<1> QED BY <1>2 DEF Under, KnobOfNet

LEMMA TurnedByAxis ==
    /\ TurnedBy("config") = {"config"} /\ TurnedBy("profile") = KnobOfNet
    /\ TurnedBy("size") = {"size"} /\ TurnedBy("hz") = {"hz"} /\ TurnedBy("qos") = {"qos"}
    /\ TurnedBy("loss") = {"loss"} /\ TurnedBy("jitter") = {"jitter"} /\ TurnedBy("rate") = {"rate"}
    /\ TurnedBy("loss_correlation") = {"corr"}
    /\ TurnedBy("delay") = {"up", "down"} /\ TurnedBy("latency") = {"up", "down"}
<1>1. /\ TurnedBy("config") = {"config"} 
      /\ TurnedBy("size") = {"size"} /\ TurnedBy("hz") = {"hz"} /\ TurnedBy("qos") = {"qos"}
      /\ TurnedBy("loss") = {"loss"} /\ TurnedBy("jitter") = {"jitter"} /\ TurnedBy("rate") = {"rate"}
      /\ TurnedBy("loss_correlation") = {"corr"}
  BY DEF TurnedBy, Turned
<1>2. TurnedBy("delay") = {"up", "down"} /\ TurnedBy("latency") = {"up", "down"}
  BY DEF TurnedBy, Turned
<1>3. TurnedBy("profile") = KnobOfNet
  BY DEF TurnedBy, Turned, KnobOfNet
<1> QED BY <1>1, <1>2, <1>3

AgreeBut(p, q, T) ==
    /\ "config" \notin T => p.ran.config = q.ran.config
    /\ "qos" \notin T => p.ran.qos = q.ran.qos
    /\ "hz" \notin T => p.case.hz = q.case.hz
    /\ "size" \notin T => p.case.size = q.case.size
    /\ \A k \in KnobOfNet \ T : p.case.net[k] = q.case.net[k]

LEMMA KnobsAgree ==
    ASSUME NEW p, NEW q, NEW T,
           AgreeBut(p, q, T)
    PROVE  \A k \in Knob \ T : Under(p)[k] = Under(q)[k]
<1> SUFFICES ASSUME NEW k \in Knob, k \notin T PROVE Under(p)[k] = Under(q)[k]
  OBVIOUS
<1>1. k \in {"config", "qos", "hz", "size"} \/ k \in KnobOfNet
  BY UnderAt
<1>2. CASE k = "config"
  BY <1>2, UnderAt DEF AgreeBut
<1>3. CASE k = "qos"
  BY <1>3, UnderAt DEF AgreeBut
<1>4. CASE k = "hz"
  BY <1>4, UnderAt DEF AgreeBut
<1>5. CASE k = "size"
  BY <1>5, UnderAt DEF AgreeBut
<1>6. CASE k \in KnobOfNet
  BY <1>6, UnderAt DEF AgreeBut
<1> QED BY <1>1, <1>2, <1>3, <1>4, <1>5, <1>6

\* Two cases that bring nothing run the session that was there.
LEMMA SameSession ==
    ASSUME NEW c, NEW d, c.brings = <<>>, d.brings = <<>>
    PROVE  PointOf(c).ran = PointOf(d).ran
BY DEF PointOf

\* A case runs the session it brings.
LEMMA OwnSession ==
    ASSUME NEW c, NEW s, c.brings = <<s>>, Home \in Seq(Session)
    PROVE  PointOf(c).ran = s
<1>1. <<Shipped>> \in Seq(Session)
  BY PointCommandsAssumption
<1>2. FirstIn(<<s>> \o Home) = s
  BY <1>1 DEF FirstIn
<1> QED BY <1>2 DEF PointOf

Fair(c, d) ==
    /\ Under(PointOf(c))[Turned[c.axis][1]] = c.value
    /\ d.axis \in {c.axis, "reference"} =>
          \A k \in Knob \ TurnedBy(c.axis) : Under(PointOf(d))[k] = Under(PointOf(c))[k]

LEMMA AbIsFair ==
    ASSUME Home \in Seq(Session), NEW c \in AbShape, NEW d \in AbShape
    PROVE  Fair(c, d)
<1>1. PICK k \in STRING : c = AbCase(k)
  BY DEF AbShape
<1>2. PICK l \in STRING : d = AbCase(l)
  BY DEF AbShape
<1>3. /\ c.brings = <<[config |-> k, qos |-> PinnedQos]>> /\ d.brings = <<[config |-> l, qos |-> PinnedQos]>>
      /\ c.axis = "config" /\ c.value = k /\ c.net = BaseNet /\ d.net = BaseNet
      /\ c.hz = d.hz /\ c.size = d.size
  BY <1>1, <1>2 DEF AbCase, Case
<1>4. /\ PointOf(c).ran = [config |-> k, qos |-> PinnedQos]
      /\ PointOf(d).ran = [config |-> l, qos |-> PinnedQos]
  BY <1>3, OwnSession
<1>5. PointOf(c).case = c /\ PointOf(d).case = d
  BY DEF PointOf
<1>6. Under(PointOf(c))["config"] = k /\ Turned["config"][1] = "config"
  BY <1>4, UnderAt DEF Turned
<1>7. \A n \in Knob \ {"config"} : Under(PointOf(d))[n] = Under(PointOf(c))[n]
  <2>1. AgreeBut(PointOf(d), PointOf(c), {"config"})
    BY <1>3, <1>4, <1>5 DEF AgreeBut
  <2> QED BY <2>1, KnobsAgree
<1> QED BY <1>3, <1>6, <1>7, TurnedByAxis DEF Fair

LEMMA RampIsFair ==
    ASSUME NEW c \in RampShape, NEW d \in RampShape
    PROVE  Fair(c, d)
<1>1. PICK k \in Nat : c = [Case("size", k, BaseNet) EXCEPT !.size = k]
  BY DEF RampShape
<1>2. PICK l \in Nat : d = [Case("size", l, BaseNet) EXCEPT !.size = l]
  BY DEF RampShape
<1>3. /\ c.brings = <<>> /\ d.brings = <<>>
      /\ c.axis = "size" /\ c.value = k /\ c.net = BaseNet /\ d.net = BaseNet
      /\ c.hz = d.hz /\ c.size = k
  BY <1>1, <1>2 DEF Case
<1>4. PointOf(c).ran = PointOf(d).ran
  BY <1>3, SameSession
<1>5. PointOf(c).case = c /\ PointOf(d).case = d
  BY DEF PointOf
<1>6. Under(PointOf(c))["size"] = k /\ Turned["size"][1] = "size"
  BY <1>3, <1>5, UnderAt DEF Turned
<1>7. \A n \in Knob \ {"size"} : Under(PointOf(d))[n] = Under(PointOf(c))[n]
  <2>1. AgreeBut(PointOf(d), PointOf(c), {"size"})
    BY <1>3, <1>4, <1>5 DEF AgreeBut
  <2> QED BY <2>1, KnobsAgree
<1> QED BY <1>3, <1>6, <1>7, TurnedByAxis DEF Fair

LEMMA SweepIsFair ==
    ASSUME NEW c \in SweepShape, NEW d \in SweepShape
    PROVE  Fair(c, d)
<1>1. /\ c.brings = <<>> /\ d.brings = <<>>
      /\ c.axis = "profile" /\ c.value = c.net.rate
      /\ c.hz = d.hz /\ c.size = d.size
  BY DEF SweepShape, Case, IdealNet
<1>2. PointOf(c).ran = PointOf(d).ran
  BY <1>1, SameSession
<1>3. PointOf(c).case = c /\ PointOf(d).case = d
  BY DEF PointOf
<1>4. Under(PointOf(c))["rate"] = c.net.rate /\ Turned["profile"][1] = "rate"
  BY <1>3, UnderAt DEF Turned, KnobOfNet
<1>5. \A n \in Knob \ KnobOfNet : Under(PointOf(d))[n] = Under(PointOf(c))[n]
  <2>1. AgreeBut(PointOf(d), PointOf(c), KnobOfNet)
    BY <1>1, <1>2, <1>3 DEF AgreeBut
  <2> QED BY <2>1, KnobsAgree
<1> QED BY <1>1, <1>4, <1>5, TurnedByAxis DEF Fair

LEMMA SensitivityIsFair ==
    ASSUME BaseNet.loss > 0,
           NEW c \in SensitivityShape, NEW d \in SensitivityShape, c.axis \in DOMAIN Turned
    PROVE  Fair(c, d)
<1>1. c.axis \notin {"baseline", "ideal", "base"}
  BY DEF Turned
<1>2. PICK ax \in SensitivityAxes, v \in Nat : c = Case(ax, v, SensitivityNet(ax, v))
  BY <1>1 DEF SensitivityShape, Case
<1>3. c.axis = ax /\ c.value = v /\ c.net = SensitivityNet(ax, v) /\ c.brings = <<>>
  BY <1>2 DEF Case
<1>4. PointOf(c).case = c /\ PointOf(d).case = d
  BY DEF PointOf
<1>5. BaseNet \in Network
  BY PointCommandsAssumption
<1>6. Under(PointOf(c))[Turned[ax][1]] = v
  <2>1. \A k \in KnobOfNet : Under(PointOf(c))[k] = SensitivityNet(ax, v)[k]
    BY <1>3, <1>4, UnderAt
  <2>2. CASE ax = "loss"
    BY <2>1, <2>2 DEF Turned, KnobOfNet, SensitivityNet, IdealNet
  <2>3. CASE ax = "delay"
    BY <2>1, <2>3 DEF Turned, KnobOfNet, SensitivityNet, IdealNet
  <2>4. CASE ax = "jitter"
    BY <2>1, <2>4 DEF Turned, KnobOfNet, SensitivityNet, IdealNet
  <2>5. CASE ax = "rate"
    BY <2>1, <2>5 DEF Turned, KnobOfNet, SensitivityNet, IdealNet
  <2>6. CASE ax = "loss_correlation"
    BY <2>1, <2>6 DEF Turned, KnobOfNet, SensitivityNet, IdealNet
  <2> QED BY <2>2, <2>3, <2>4, <2>5, <2>6 DEF SensitivityAxes
<1>7. ASSUME d.axis \in {ax, "reference"}
      PROVE  \A k \in Knob \ TurnedBy(ax) : Under(PointOf(d))[k] = Under(PointOf(c))[k]
  <2>1. d.axis = ax
    BY <1>7 DEF SensitivityShape, Case, SensitivityAxes
  <2>2. PICK w \in Nat : d = Case(ax, w, SensitivityNet(ax, w))
    BY <1>1, <1>3, <2>1 DEF SensitivityShape, Case
  <2>3. d.net = SensitivityNet(ax, w) /\ d.brings = <<>> /\ d.hz = c.hz /\ d.size = c.size
    BY <1>2, <2>2 DEF Case
  <2>4. PointOf(c).ran = PointOf(d).ran
    BY <1>3, <2>3, SameSession
  <2>5. \A k \in KnobOfNet \ TurnedBy(ax) : SensitivityNet(ax, w)[k] = SensitivityNet(ax, v)[k]
    <3>1. CASE ax = "loss"
      BY <3>1, TurnedByAxis DEF KnobOfNet, SensitivityNet, IdealNet
    <3>2. CASE ax = "delay"
      BY <3>2, TurnedByAxis DEF KnobOfNet, SensitivityNet, IdealNet
    <3>3. CASE ax = "jitter"
      BY <3>3, TurnedByAxis DEF KnobOfNet, SensitivityNet, IdealNet
    <3>4. CASE ax = "rate"
      BY <3>4, TurnedByAxis DEF KnobOfNet, SensitivityNet, IdealNet
    <3>5. CASE ax = "loss_correlation"
      BY <3>5, TurnedByAxis DEF KnobOfNet, SensitivityNet, IdealNet
    <3> QED BY <3>1, <3>2, <3>3, <3>4, <3>5 DEF SensitivityAxes
  <2>6. AgreeBut(PointOf(d), PointOf(c), TurnedBy(ax))
    BY <1>3, <1>4, <2>3, <2>4, <2>5 DEF AgreeBut
  <2> QED BY <2>6, KnobsAgree
<1> QED BY <1>3, <1>6, <1>7 DEF Fair

LEMMA MatrixIsFair ==
    ASSUME NEW prepared \in Session, Home \in Seq(Session),
           NEW c \in MatrixShape(prepared), NEW d \in MatrixShape(prepared), c.axis \in DOMAIN Turned
    PROVE  Fair(c, d)
<1> DEFINE Picked(e, a, v) ==
             /\ e = MatrixCase(prepared, a, v)
             /\ a \in {"reference", "latency", "hz", "qos"}
             /\ v \in Nat \/ v \in STRING
           Qos(a, v) == IF a = "qos" THEN v ELSE DefaultQos
           Net(a, v) == Delayed(IF a = "latency" THEN v ELSE BaseNet.up)
<1>1. ASSUME NEW e \in MatrixShape(prepared)
      PROVE  \E a, v : Picked(e, a, v)
  BY DEF MatrixShape
<1>2. ASSUME NEW e, NEW a, NEW v, Picked(e, a, v)
      PROVE  /\ e.axis = a /\ e.value = v /\ e.net = Net(a, v) /\ e.size = 1
             /\ e.hz = IF a = "hz" THEN v ELSE 1
             /\ PointOf(e).case = e
             /\ PointOf(e).ran = [prepared EXCEPT !.qos = Qos(a, v)]
  <2>1. e.brings = <<[prepared EXCEPT !.qos = Qos(a, v)]>>
    BY <1>2 DEF MatrixCase, Case
  <2>2. PointOf(e).ran = [prepared EXCEPT !.qos = Qos(a, v)]
    BY <2>1, OwnSession
  <2>3. /\ e.axis = a /\ e.value = v /\ e.net = Net(a, v) /\ e.size = 1
        /\ e.hz = IF a = "hz" THEN v ELSE 1
    BY <1>2 DEF MatrixCase, Case
  <2> QED BY <2>2, <2>3 DEF PointOf
<1>3. PICK a, v : Picked(c, a, v)
  BY <1>1
<1>4. PICK b, w : Picked(d, b, w)
  BY <1>1
<1>5. a \in {"latency", "hz", "qos"}
  <2>1. a \in {"reference", "latency", "hz", "qos"}
    BY <1>3
  <2> HIDE DEF Picked, Qos, Net
  <2>2. c.axis = a
    BY <1>2, <1>3
  <2> QED BY <2>1, <2>2 DEF Turned
<1>6. /\ c.axis = a /\ c.value = v /\ c.net = Net(a, v) /\ c.size = 1
      /\ c.hz = IF a = "hz" THEN v ELSE 1
      /\ PointOf(c).case = c
      /\ PointOf(c).ran = [prepared EXCEPT !.qos = Qos(a, v)]
  BY <1>2, <1>3
<1>7. /\ d.axis = b /\ d.net = Net(b, w) /\ d.size = 1
      /\ d.hz = IF b = "hz" THEN w ELSE 1
      /\ PointOf(d).case = d
      /\ PointOf(d).ran = [prepared EXCEPT !.qos = Qos(b, w)]
  BY <1>2, <1>4
<1>8. /\ PointOf(c).ran.config = PointOf(d).ran.config
      /\ PointOf(c).ran.qos = Qos(a, v) /\ PointOf(d).ran.qos = Qos(b, w)
  BY <1>6, <1>7 DEF Session
<1> HIDE DEF Picked
<1>9. Under(PointOf(c))[Turned[a][1]] = v
  <2>1. CASE a = "latency"
    <3>1. Under(PointOf(c))["up"] = Net(a, v).up
      BY <1>6, UnderAt DEF KnobOfNet
    <3>2. Net(a, v).up = v
      BY <2>1 DEF Delayed, IdealNet
    <3> QED BY <2>1, <3>1, <3>2 DEF Turned
  <2>2. CASE a = "hz"
    BY <1>6, <2>2, UnderAt DEF Turned
  <2>3. CASE a = "qos"
    BY <1>8, <2>3, UnderAt DEF Turned
  <2> QED BY <1>5, <2>1, <2>2, <2>3
<1>10. ASSUME b \in {a, "reference"}
       PROVE  \A k \in Knob \ TurnedBy(a) : Under(PointOf(d))[k] = Under(PointOf(c))[k]
  <2>1. \A k \in KnobOfNet \ TurnedBy(a) : Net(b, w)[k] = Net(a, v)[k]
    <3>1. CASE a = "latency"
      BY <1>10, <3>1, TurnedByAxis DEF KnobOfNet, Delayed, IdealNet
    <3>2. CASE a \in {"hz", "qos"}
      BY <1>10, <3>2
    <3> QED BY <1>5, <3>1, <3>2
  <2> HIDE DEF Net
  <2>2. "qos" \notin TurnedBy(a) => a # "qos" /\ b # "qos"
    BY <1>5, <1>10, TurnedByAxis
  <2>3. "hz" \notin TurnedBy(a) => a # "hz" /\ b # "hz"
    BY <1>5, <1>10, TurnedByAxis
  <2>4. AgreeBut(PointOf(d), PointOf(c), TurnedBy(a))
    BY <1>6, <1>7, <1>8, <2>1, <2>2, <2>3 DEF AgreeBut
  <2> QED BY <2>4, KnobsAgree
<1> QED BY <1>6, <1>7, <1>9, <1>10 DEF Fair

LEMMA ShapesAreFair ==
    ASSUME BaseNet.loss > 0, PointsInv, points # <<>>,
           NEW c \in ShapeOf(Prepared), NEW d \in ShapeOf(Prepared), c.axis \in DOMAIN Turned
    PROVE  Fair(c, d)
<1>1. Home \in Seq(Session)
  BY DEF PointsInv
<1>2. CASE genre = "ab"
  BY <1>1, <1>2, AbIsFair DEF ShapeOf
<1>3. CASE genre = "matrix"
  <2>1. Home # <<>>
    BY <1>3 DEF PointsInv
  <2>2. Prepared \in Session
    BY <1>1, <2>1 DEF Prepared, Home
  <2>3. c \in MatrixShape(Prepared) /\ d \in MatrixShape(Prepared)
    BY <1>3 DEF ShapeOf
  <2> QED BY <1>1, <2>2, <2>3, MatrixIsFair
<1>4. CASE genre = "sensitivity"
  BY <1>4, SensitivityIsFair DEF ShapeOf
<1>5. CASE genre = "sweep"
  BY <1>5, SweepIsFair DEF ShapeOf
<1>6. CASE genre = "ramp"
  BY <1>6, RampIsFair DEF ShapeOf
<1>7. CASE genre \notin {"ab", "matrix", "sensitivity", "sweep", "ramp"}
  <2>1. ShapeOf(Prepared) = {Case("none", 0, BaseNet)}
    BY <1>7 DEF ShapeOf
  <2> QED BY <2>1 DEF Case, Turned
<1> QED BY <1>2, <1>3, <1>4, <1>5, <1>6, <1>7

\* Every row of a table was measured under the value it names, and differs from
\* the rows beside it in the knobs of its axis only: for any configurations, lists
\* of values and repeats, and whatever the user's roots hold.  A base profile
\* without loss has one network for every correlation (cli_benchmark.py 2258-2261).
THEOREM ACaseVariesItsAxis ==
    ASSUME BaseNet.loss > 0
    PROVE  Spec => []OnlyTheAxisVaries
<1>1. PointsInv => OnlyTheAxisVaries
  <2> SUFFICES ASSUME PointsInv, points # <<>> PROVE OnlyTheAxisVaries
    BY DEF OnlyTheAxisVaries
  <2> DEFINE n == Len(points)
             newest == points[n]
             ax == newest.case.axis
  <2>1. n \in Nat /\ n \in 1..n
    BY DEF PointsInv
  <2>2. \A i \in 1..n : /\ points[i].case \in ShapeOf(Prepared)
                        /\ points[i].ran = PointOf(points[i].case).ran
    <3> TAKE i \in 1..n
    <3>1. i \in 1..Len(Cases)
      BY <2>1, CasesAreShaped DEF PointsInv
    <3>2. Cases[i] \in ShapeOf(Prepared)
      BY <3>1, CasesAreShaped
    <3>3. points[i].case = Cases[i] /\ points[i].ran = FirstIn(Cases[i].brings \o Home)
      BY DEF PointsInv
    <3> QED BY <3>2, <3>3 DEF PointOf
  <2>3. \A i \in 1..n : Under(points[i]) = Under(PointOf(points[i].case))
    BY <2>2 DEF Under, PointOf
  <2>4. ASSUME ax \in DOMAIN Turned
        PROVE  /\ Under(newest)[Turned[ax][1]] = newest.case.value
               /\ \A p \in {points[i] : i \in DOMAIN points} : p.case.axis \in {ax, "reference"} =>
                      \A k \in Knob \ TurnedBy(ax) : Under(p)[k] = Under(newest)[k]
    <3>1. \A i \in 1..n : Fair(newest.case, points[i].case)
      BY <2>1, <2>2, <2>4, ShapesAreFair
    <3>2. Under(newest)[Turned[ax][1]] = newest.case.value
      BY <2>1, <2>3, <3>1 DEF Fair
    <3>3. ASSUME NEW i \in 1..n, points[i].case.axis \in {ax, "reference"},
                 NEW k \in Knob \ TurnedBy(ax)
          PROVE  Under(points[i])[k] = Under(newest)[k]
      BY <2>1, <2>3, <3>1, <3>3 DEF Fair
    <3>4. DOMAIN points = 1..n
      BY DEF PointsInv
    <3> QED BY <3>2, <3>3, <3>4
  <2> QED BY <2>4 DEF OnlyTheAxisVaries
<1> QED BY <1>1, PointsInvariance, PTL

(***************************************************************************)
(* Order statistics                                                        *)
(***************************************************************************)
\* A set of naturals has a least element.
LEMMA LeastOf ==
    ASSUME NEW T \in SUBSET Nat, T # {}
    PROVE  \E m \in T : \A k \in T : m <= k
<1> DEFINE R == OpToRel(<, Nat)
<1>1. \E x \in T : \A y \in T : ~(<<y, x>> \in R)
  <2>1. IsWellFoundedOn(R, Nat)
    BY NatLessThanWellFounded
  <2> QED BY <2>1, WFMin
<1>2. \A y \in T, x \in T : y < x => <<y, x>> \in R
  BY DEF OpToRel
<1> HIDE DEF R
<1>3. PICK m \in T : \A y \in T : ~(<<y, m>> \in R)
  BY <1>1
<1>4. \A k \in T : ~(k < m)
  BY <1>2, <1>3
<1> QED BY <1>3, <1>4

LEMMA PartOf ==
    ASSUME NEW S, IsFiniteSet(S), NEW T, T \subseteq S
    PROVE  /\ IsFiniteSet(T) /\ Cardinality(T) \in Nat /\ Cardinality(S) \in Nat
           /\ Cardinality(T) <= Cardinality(S)
           /\ Cardinality(T) = Cardinality(S) => T = S
BY FS_Subset, FS_CardinalityType

\* Finitely many readings have a greatest: one that fewest are above.
LEMMA GreatestOf ==
    ASSUME NEW D, IsFiniteSet(D), D # {}, NEW s \in [D -> Nat]
    PROVE  \E i \in D : \A j \in D : s[j] <= s[i]
<1> DEFINE Above(i) == {j \in D : s[j] > s[i]}
           T == {Cardinality(Above(i)) : i \in D}
<1>1. \A i \in D : Cardinality(Above(i)) \in Nat
  BY PartOf
<1>2. T \in SUBSET Nat /\ T # {}
  BY <1>1
<1>3. PICK m \in T : \A k \in T : m <= k
  BY <1>2, LeastOf
<1>4. PICK i \in D : m = Cardinality(Above(i))
  BY <1>3
<1>5. ASSUME NEW j \in D, s[j] > s[i] PROVE FALSE
  <2>1. Above(j) \subseteq Above(i) /\ j \in Above(i) /\ j \notin Above(j)
    BY <1>5
  <2>2. IsFiniteSet(Above(i))
    BY PartOf
  <2>3. Cardinality(Above(j)) <= Cardinality(Above(i)) /\ Cardinality(Above(j)) # Cardinality(Above(i))
    BY <2>1, <2>2, PartOf
  <2>4. Cardinality(Above(j)) \in T
    OBVIOUS
  <2>5. Cardinality(Above(j)) \in Nat /\ Cardinality(Above(i)) \in Nat
    BY <1>1
  <2> HIDE DEF T, Above
  <2>6. m <= Cardinality(Above(j))
    BY <1>3, <2>4
  <2> QED BY <1>4, <2>3, <2>5, <2>6
<1>6. \A j \in D : s[j] \in Nat
  OBVIOUS
<1> QED BY <1>5, <1>6

UnderIt(s, v) == {i \in DOMAIN s : s[i] < v}
UpToIt(s, v)  == {i \in DOMAIN s : s[i] <= v}

\* Of n readings each but the zeroth and those past the n-th smallest exist.
LEMMA SmallestExists ==
    ASSUME NEW D, IsFiniteSet(D), NEW s \in [D -> Nat], NEW k \in Nat, 1 <= k, k <= Cardinality(D)
    PROVE  \E v \in {s[i] : i \in D} : Cardinality(UnderIt(s, v)) < k /\ Cardinality(UpToIt(s, v)) >= k
<1> DEFINE T == {v \in {s[i] : i \in D} : Cardinality(UpToIt(s, v)) >= k}
<1>1. D # {} /\ Cardinality(D) \in Nat
  BY FS_EmptySet, FS_CardinalityType
<1>2. PICK g \in D : \A j \in D : s[j] <= s[g]
  BY <1>1, GreatestOf
<1>3. UpToIt(s, s[g]) = D
  BY <1>2 DEF UpToIt
<1>4. T \in SUBSET Nat /\ T # {}
  BY <1>1, <1>3
<1>5. PICK v \in T : \A w \in T : v <= w
  BY <1>4, LeastOf
<1>6. ASSUME Cardinality(UnderIt(s, v)) >= k PROVE FALSE
  <2>1. UnderIt(s, v) \subseteq D /\ DOMAIN s = D
    BY DEF UnderIt
  <2>2. IsFiniteSet(UnderIt(s, v)) /\ Cardinality(UnderIt(s, v)) \in Nat
    BY <2>1, PartOf
  <2>3. UnderIt(s, v) # {}
    BY <1>6, <2>2, FS_EmptySet
  <2> DEFINE r == [i \in UnderIt(s, v) |-> s[i]]
  <2>4. r \in [UnderIt(s, v) -> Nat]
    BY <2>1
  <2>5. PICK i \in UnderIt(s, v) : \A j \in UnderIt(s, v) : r[j] <= r[i]
    BY <2>2, <2>3, <2>4, GreatestOf
  <2>6. UnderIt(s, v) \subseteq UpToIt(s, s[i]) /\ UpToIt(s, s[i]) \subseteq D
    BY <2>1, <2>5 DEF UpToIt
  <2>7. Cardinality(UnderIt(s, v)) <= Cardinality(UpToIt(s, s[i])) /\ Cardinality(UpToIt(s, s[i])) \in Nat
    BY <2>6, PartOf
  <2>8. s[i] \in T
    BY <1>6, <2>1, <2>2, <2>7
  <2>9. s[i] < v /\ s[i] \in Nat /\ v \in Nat
    BY <1>4, <2>1 DEF UnderIt
  <2> QED BY <1>5, <2>8, <2>9
<1>7. Cardinality(UnderIt(s, v)) \in Nat
  BY PartOf DEF UnderIt
<1> QED BY <1>5, <1>6, <1>7

LEMMA SmallestIs ==
    ASSUME NEW D, IsFiniteSet(D), NEW s \in [D -> Nat], NEW k \in Nat, 1 <= k, k <= Cardinality(D)
    PROVE  /\ Smallest(s, k) \in {s[i] : i \in D}
           /\ Cardinality(UnderIt(s, Smallest(s, k))) < k
           /\ Cardinality(UpToIt(s, Smallest(s, k))) >= k
<1>1. DOMAIN s = D
  OBVIOUS
<1>2. \E v \in {s[i] : i \in DOMAIN s} : Cardinality(UnderIt(s, v)) < k /\ Cardinality(UpToIt(s, v)) >= k
  BY <1>1, SmallestExists
<1>3. Smallest(s, k) = CHOOSE v \in {s[i] : i \in DOMAIN s} :
          Cardinality(UnderIt(s, v)) < k /\ Cardinality(UpToIt(s, v)) >= k
  BY DEF Smallest, UnderIt, UpToIt
<1> QED BY <1>1, <1>2, <1>3

\* When each reading of s has one of its own in t that is at most a above it, the
\* k-th smallest of t is at most a above that of s.
LEMMA SmallestShifts ==
    ASSUME NEW D, IsFiniteSet(D), NEW E, IsFiniteSet(E), NEW s \in [D -> Nat], NEW t \in [E -> Nat],
           NEW a \in Nat, NEW f \in Injection(D, E), \A i \in D : t[f[i]] <= s[i] + a,
           NEW k \in Nat, 1 <= k, k <= Cardinality(D), k <= Cardinality(E)
    PROVE  Smallest(t, k) <= Smallest(s, k) + a
<1> DEFINE v == Smallest(s, k)
           w == Smallest(t, k)
<1>1. v \in Nat /\ Cardinality(UpToIt(s, v)) >= k
  BY SmallestIs
<1>2. w \in Nat /\ Cardinality(UnderIt(t, w)) < k
  BY SmallestIs
<1> HIDE DEF v, w
<1>3. ASSUME w > v + a PROVE FALSE
  <2> DEFINE g == [i \in UpToIt(s, v) |-> f[i]]
  <2>1. \A i \in UpToIt(s, v) : i \in D /\ s[i] <= v /\ s[i] \in Nat
    BY DEF UpToIt
  <2>2. \A i \in UpToIt(s, v) : f[i] \in E /\ t[f[i]] \in Nat /\ t[f[i]] <= s[i] + a
    BY <2>1 DEF Injection
  <2>3. \A i \in UpToIt(s, v) : f[i] \in UnderIt(t, w)
    BY <1>1, <1>2, <1>3, <2>1, <2>2 DEF UnderIt
  <2>4. \A i, j \in UpToIt(s, v) : f[i] = f[j] => i = j
    BY <2>1 DEF Injection, IsInjective
  <2>5. g \in Injection(UpToIt(s, v), UnderIt(t, w))
    BY <2>3, <2>4 DEF Injection, IsInjective
  <2>6. IsFiniteSet(UnderIt(t, w)) /\ Cardinality(UnderIt(t, w)) \in Nat
    BY PartOf DEF UnderIt
  <2>7. Cardinality(UpToIt(s, v)) <= Cardinality(UnderIt(t, w))
    BY <2>5, <2>6, FS_Injection
  <2>8. Cardinality(UpToIt(s, v)) \in Nat
    BY PartOf DEF UpToIt
  <2> QED BY <1>1, <1>2, <2>6, <2>7, <2>8
<1> QED BY <1>1, <1>2, <1>3 DEF v, w

\* The two places of the median.
LEMMA MiddlePlaces ==
    ASSUME NEW n \in Nat \ {0}
    PROVE  /\ (n + 1) \div 2 \in 1..n /\ n \div 2 + 1 \in 1..n
           /\ n > 2 => (n + 1) \div 2 \in 2..(n - 1) /\ n \div 2 + 1 \in 2..(n - 1)
OBVIOUS

LEMMA MediansShift ==
    ASSUME NEW D, IsFiniteSet(D), NEW E, IsFiniteSet(E), NEW s \in [D -> Nat], NEW t \in [E -> Nat],
           NEW a \in Nat, NEW f \in Injection(D, E), \A i \in D : t[f[i]] <= s[i] + a,
           Cardinality(D) = Cardinality(E), D # {}
    PROVE  TwiceMedian(t) <= TwiceMedian(s) + 2 * a
<1> DEFINE n == Cardinality(D)
           j == (n + 1) \div 2
           k == n \div 2 + 1
<1>1. n \in Nat \ {0}
  BY FS_EmptySet, FS_CardinalityType
<1>2. j \in 1..n /\ k \in 1..n
  BY <1>1, MiddlePlaces
<1> HIDE DEF n, j, k
<1>3. \A p \in 1..n : /\ Smallest(s, p) \in Nat /\ Smallest(t, p) \in Nat
                      /\ Smallest(t, p) <= Smallest(s, p) + a
  <2> TAKE p \in 1..n
  <2>1. p \in Nat /\ 1 <= p /\ p <= Cardinality(D) /\ p <= Cardinality(E)
    BY <1>1 DEF n
  <2> QED BY <2>1, SmallestIs, SmallestShifts
<1>4. TwiceMedian(s) = Smallest(s, j) + Smallest(s, k) /\ TwiceMedian(t) = Smallest(t, j) + Smallest(t, k)
  BY DEF TwiceMedian, n, j, k
<1> QED BY <1>2, <1>3, <1>4

\* All but one reading lie in a band: the middle ones do.
LEMMA MedianInBand ==
    ASSUME NEW D, IsFiniteSet(D), D # {}, NEW s \in [D -> Nat], NEW x \in Nat, NEW y \in Nat,
           Cardinality({i \in D : s[i] \notin x..y}) <= 1,
           Cardinality({i \in D : s[i] \notin x..y}) = 0 \/ Cardinality(D) > 2
    PROVE  2 * x <= TwiceMedian(s) /\ TwiceMedian(s) <= 2 * y
<1> DEFINE n == Cardinality(D)
           Out == {i \in D : s[i] \notin x..y}
           o == Cardinality(Out)
           j == (n + 1) \div 2
           k == n \div 2 + 1
<1>1. n \in Nat \ {0} /\ o \in Nat /\ IsFiniteSet(Out)
  BY FS_EmptySet, FS_CardinalityType, PartOf
<1>2. j \in (o + 1)..(n - o) /\ k \in (o + 1)..(n - o)
  BY <1>1, MiddlePlaces
<1> HIDE DEF o, j, k
<1>3. ASSUME NEW p \in (o + 1)..(n - o)
      PROVE  Smallest(s, p) \in x..y
  <2> DEFINE v == Smallest(s, p)
  <2>1. p \in Nat /\ 1 <= p /\ p <= n
    BY <1>1
  <2>2. v \in Nat /\ Cardinality(UnderIt(s, v)) < p /\ Cardinality(UpToIt(s, v)) >= p
    BY <2>1, SmallestIs
  <2> HIDE DEF v
  <2>3. ASSUME v < x PROVE FALSE
    <3>1. UpToIt(s, v) \subseteq Out
      BY <2>2, <2>3 DEF UpToIt
    <3>2. Cardinality(UpToIt(s, v)) <= o /\ Cardinality(UpToIt(s, v)) \in Nat
      BY <1>1, <3>1, PartOf DEF o
    <3> QED BY <1>1, <2>2, <3>2
  <2>4. ASSUME v > y PROVE FALSE
    <3>1. D \ UnderIt(s, v) \subseteq Out
      BY <2>2, <2>4 DEF UnderIt
    <3>2. Cardinality(D \ UnderIt(s, v)) <= o /\ Cardinality(D \ UnderIt(s, v)) \in Nat
      BY <1>1, <3>1, PartOf DEF o
    <3>3. D \cap UnderIt(s, v) = UnderIt(s, v)
      BY DEF UnderIt
    <3>4. Cardinality(D \ UnderIt(s, v)) = n - Cardinality(UnderIt(s, v))
      BY <3>3, FS_Difference
    <3>5. Cardinality(UnderIt(s, v)) \in Nat
      BY PartOf DEF UnderIt
    <3> QED BY <1>1, <2>2, <3>2, <3>4, <3>5
  <2> QED BY <2>2, <2>3, <2>4 DEF v
<1>4. TwiceMedian(s) = Smallest(s, j) + Smallest(s, k)
  BY DEF TwiceMedian, j, k
<1> QED BY <1>2, <1>3, <1>4

(***************************************************************************)
(* The schedule of ab                                                      *)
(***************************************************************************)
RepeatOf(i) == (i - 1) \div Len(Labels)

LEMMA Remainder ==
    ASSUME NEW L \in Nat \ {0}, NEW a \in Int
    PROVE  \E q \in Int, r \in 0..(L - 1) : q = a \div L /\ r = a % L /\ a = L * q + r
<1>1. a \div L \in Int /\ a % L \in 0..(L - 1)
  OBVIOUS
<1>2. PICK q \in Int, r \in 0..(L - 1) : q = a \div L /\ r = a % L
  BY <1>1
<1>3. a = L * q + r
  BY <1>2
<1> QED BY <1>2, <1>3

LEMMA OneQuotient ==
    ASSUME NEW L \in Nat \ {0}, NEW q \in Int, NEW p \in Int, NEW r \in 0..(L - 1), NEW u \in 0..(L - 1),
           L * q + r = L * p + u
    PROVE  q = p /\ r = u
<1>1. ASSUME NEW d \in Int, d > 0 PROVE L * d >= L
  BY <1>1
<1>2. ASSUME q > p PROVE FALSE
  <2>1. L * (q - p) = u - r
    OBVIOUS
  <2>2. L * (q - p) >= L
    BY <1>1, <1>2
  <2> QED BY <2>1, <2>2
<1>3. ASSUME q < p PROVE FALSE
  <2>1. L * (p - q) = r - u
    OBVIOUS
  <2>2. L * (p - q) >= L
    BY <1>1, <1>3
  <2> QED BY <2>1, <2>2
<1> QED BY <1>2, <1>3

LEMMA QuotientIs ==
    ASSUME NEW L \in Nat \ {0}, NEW q \in Int, NEW r \in 0..(L - 1)
    PROVE  (L * q + r) \div L = q /\ (L * q + r) % L = r
<1> DEFINE a == L * q + r
<1>1. a \in Int
  OBVIOUS
<1>2. PICK p \in Int, u \in 0..(L - 1) : p = a \div L /\ u = a % L /\ a = L * p + u
  BY <1>1, Remainder
<1>3. L * q + r = L * p + u
  BY <1>2
<1> HIDE DEF a
<1>4. q = p /\ r = u
  BY <1>3, OneQuotient
<1> QED BY <1>2, <1>4 DEF a

\* Every repeat runs every configuration.
LEMMA EachRepeatRunsAll ==
    ASSUME NEW k \in 0..(AbRepeats - 1), NEW n \in 1..Len(Labels)
    PROVE  \E i \in 1..Runs : RepeatOf(i) = k /\ Schedule[i] = Labels[n]
<1> DEFINE L == Len(Labels)
<1>1. L \in Nat \ {0} /\ AbRepeats \in Nat
  BY PointCommandsAssumption
<1> HIDE DEF L
<1>2. PICK q \in Int, r \in 0..(L - 1) : n - 1 - k = L * q + r
  <2>1. n - 1 - k \in Int
    BY <1>1 DEF L
  <2> QED BY <1>1, <2>1, Remainder
<1> DEFINE i == L * k + r + 1
<1>3. i \in 1..Runs
  <2>1. L * k >= 0
    BY <1>1
  <2>2. L * k <= L * (AbRepeats - 1)
    BY <1>1
  <2>3. L * (AbRepeats - 1) + L = AbRepeats * L
    BY <1>1
  <2>4. L * k \in Int /\ L * (AbRepeats - 1) \in Int /\ AbRepeats * L \in Int
    BY <1>1
  <2> QED BY <1>1, <2>1, <2>2, <2>3, <2>4 DEF Runs, L
<1>4. i - 1 = L * k + r
  BY <1>1
<1>5. RepeatOf(i) = k
  <2>1. (L * k + r) \div L = k
    BY <1>1, QuotientIs
  <2> QED BY <1>4, <2>1 DEF RepeatOf, L
<1>6. (i - 1 + (i - 1) \div L) % L = n - 1
  <2>1. (i - 1) \div L = k
    BY <1>5 DEF RepeatOf, L
  <2>2. i - 1 + (i - 1) \div L = L * (k - q) + (n - 1)
    <3>1. L * (k - q) = L * k - L * q
      BY <1>1
    <3>2. L * k \in Int /\ L * q \in Int
      BY <1>1
    <3> HIDE DEF i
    <3>3. i - 1 + k = L * k + r + k
      BY <1>4
    <3> QED BY <1>1, <1>2, <2>1, <3>1, <3>2, <3>3
  <2>3. n - 1 \in 0..(L - 1) /\ k - q \in Int
    BY DEF L
  <2>4. (L * (k - q) + (n - 1)) % L = n - 1
    BY <1>1, <2>3, QuotientIs
  <2> QED BY <2>2, <2>4
<1> HIDE DEF i
<1>7. Schedule[i] = Labels[n]
  BY <1>3, <1>6 DEF Schedule, Runs, L
<1> QED BY <1>3, <1>5, <1>7

\* And no configuration twice.
LEMMA NoRepeatRunsTwice ==
    ASSUME NEW i \in 1..Runs, NEW j \in 1..Runs, RepeatOf(i) = RepeatOf(j), Schedule[i] = Schedule[j]
    PROVE  i = j
<1> DEFINE L == Len(Labels)
<1>1. L \in Nat \ {0} /\ AbRepeats \in Nat
  BY PointCommandsAssumption
<1>2. Runs \in Nat
  BY RunsOfAb
<1> HIDE DEF L
<1>3. PICK k \in Int, r \in 0..(L - 1) : k = (i - 1) \div L /\ i - 1 = L * k + r
  BY <1>1, <1>2, Remainder
<1>4. PICK u \in 0..(L - 1) : k = (j - 1) \div L /\ j - 1 = L * k + u
  <2>1. (j - 1) \div L = k
    BY <1>3 DEF RepeatOf, L
  <2> QED BY <1>1, <1>2, <2>1, Remainder
<1>5. PICK q \in Int, m \in 0..(L - 1) : m = (i - 1 + k) % L /\ i - 1 + k = L * q + m
  <2>1. i - 1 + k \in Int
    BY <1>2
  <2> QED BY <1>1, <2>1, Remainder
<1>6. PICK p \in Int, n \in 0..(L - 1) : n = (j - 1 + k) % L /\ j - 1 + k = L * p + n
  <2>1. j - 1 + k \in Int
    BY <1>2
  <2> QED BY <1>1, <2>1, Remainder
<1>7. m = n
  <2>1. Schedule[i] = Labels[m + 1] /\ Schedule[j] = Labels[n + 1]
    BY <1>3, <1>4, <1>5, <1>6 DEF Schedule, Runs, L
  <2>2. m + 1 \in 1..Len(Labels) /\ n + 1 \in 1..Len(Labels)
    BY <1>1 DEF L
  <2>3. m + 1 = n + 1
    BY <2>1, <2>2, PointCommandsAssumption
  <2> QED BY <2>3
<1>8. L * q + u = L * p + r
  <2>1. L * k \in Int /\ L * q \in Int /\ L * p \in Int
    BY <1>1
  <2> QED BY <1>1, <1>3, <1>4, <1>5, <1>6, <1>7, <2>1
<1>9. u = r
  BY <1>1, <1>8, OneQuotient
<1> QED BY <1>3, <1>4, <1>9

RunsOf(label) == {i \in 1..Runs : Schedule[i] = label}

LEMMA RepeatsAreInRange ==
    ASSUME NEW i \in 1..Runs
    PROVE  RepeatOf(i) \in 0..(AbRepeats - 1)
<1> DEFINE L == Len(Labels)
<1>1. L \in Nat \ {0} /\ AbRepeats \in Nat /\ Runs = AbRepeats * L /\ Runs \in Nat
  BY PointCommandsAssumption, RunsOfAb DEF Runs
<1> HIDE DEF L
<1>2. PICK q \in Int, r \in 0..(L - 1) : q = (i - 1) \div L /\ i - 1 = L * q + r
  BY <1>1, Remainder
<1>3. L * q \in Int /\ AbRepeats * L \in Int
  BY <1>1
<1>4. L * q >= 0 - (L - 1) /\ L * q < AbRepeats * L
  BY <1>1, <1>2, <1>3
<1>5. ASSUME q < 0 PROVE FALSE
  <2>1. L * q <= L * (0 - 1)
    BY <1>1, <1>5
  <2>2. L * (0 - 1) = 0 - L
    BY <1>1
  <2> QED BY <1>1, <1>3, <1>4, <2>1, <2>2
<1>6. ASSUME q > AbRepeats - 1 PROVE FALSE
  <2>1. L * q >= L * AbRepeats
    BY <1>1, <1>6
  <2>2. L * AbRepeats = AbRepeats * L
    BY <1>1
  <2> QED BY <1>1, <1>3, <1>4, <2>1, <2>2
<1>7. q \in 0..(AbRepeats - 1)
  BY <1>1, <1>5, <1>6
<1> QED BY <1>2, <1>7 DEF RepeatOf, L

\* Each run of one configuration has a run of any other in the same repeat.
LEMMA Partners ==
    ASSUME NEW m \in 1..Len(Labels), NEW n \in 1..Len(Labels)
    PROVE  \E f \in Injection(RunsOf(Labels[m]), RunsOf(Labels[n])) :
               \A i \in RunsOf(Labels[m]) : RepeatOf(f[i]) = RepeatOf(i)
<1> DEFINE D == RunsOf(Labels[m])
           E == RunsOf(Labels[n])
           f == [i \in D |-> CHOOSE j \in E : RepeatOf(j) = RepeatOf(i)]
<1>1. ASSUME NEW i \in D PROVE \E j \in E : RepeatOf(j) = RepeatOf(i)
  BY RepeatsAreInRange, EachRepeatRunsAll DEF RunsOf
<1>2. \A i \in D : f[i] \in E /\ RepeatOf(f[i]) = RepeatOf(i)
  BY <1>1
<1> HIDE DEF f
<1>3. ASSUME NEW i \in D, NEW j \in D, f[i] = f[j] PROVE i = j
  <2>1. RepeatOf(i) = RepeatOf(j)
    BY <1>2, <1>3
  <2> QED BY <2>1, NoRepeatRunsTwice DEF RunsOf
<1>4. f \in [D -> E]
  BY <1>2 DEF f
<1>5. f \in Injection(D, E)
  BY <1>3, <1>4 DEF Injection, IsInjective
<1> QED BY <1>2, <1>5

\* Every configuration has a run in each repeat.
LEMMA ARunPerRepeat ==
    ASSUME NEW n \in 1..Len(Labels)
    PROVE  IsFiniteSet(RunsOf(Labels[n])) /\ Cardinality(RunsOf(Labels[n])) >= AbRepeats
<1> DEFINE E == RunsOf(Labels[n])
           f == [k \in 0..(AbRepeats - 1) |-> CHOOSE i \in E : RepeatOf(i) = k]
<1>1. AbRepeats \in Nat /\ Runs \in Nat
  BY PointCommandsAssumption, RunsOfAb
<1>2. IsFiniteSet(E) /\ Cardinality(E) \in Nat
  <2>1. IsFiniteSet(1..Runs) /\ E \subseteq 1..Runs
    BY <1>1, FS_Interval DEF RunsOf
  <2> QED BY <2>1, PartOf
<1>3. \A k \in 0..(AbRepeats - 1) : \E i \in E : RepeatOf(i) = k
  BY EachRepeatRunsAll DEF RunsOf
<1>4. \A k \in 0..(AbRepeats - 1) : f[k] \in E /\ RepeatOf(f[k]) = k
  BY <1>3
<1>5. f \in Injection(0..(AbRepeats - 1), E)
  <2>1. f \in [0..(AbRepeats - 1) -> E]
    BY <1>4
  <2>2. \A j, k \in 0..(AbRepeats - 1) : f[j] = f[k] => j = k
    BY <1>4
  <2> HIDE DEF f
  <2> QED BY <2>1, <2>2 DEF Injection, IsInjective
<1>6. Cardinality(0..(AbRepeats - 1)) <= Cardinality(E)
  BY <1>2, <1>5, FS_Injection
<1>7. Cardinality(0..(AbRepeats - 1)) = AbRepeats
  BY <1>1, FS_Interval
<1> QED BY <1>2, <1>6, <1>7

(***************************************************************************)
(* The verdict of ab                                                       *)
(***************************************************************************)
Compared == PointsInv /\ genre = "ab" /\ stage = "written"

ReadBy(label) == {i \in RunsOf(label) : points[i].read # NoReading}

LEMMA MeasuredRuns ==
    ASSUME Compared
    PROVE  /\ DOMAIN points = 1..Runs
           /\ \A i \in 1..Runs : /\ points[i].case.value = Schedule[i]
                                 /\ points[i].read # NoReading => points[i].read \in Nat
                                 /\ points[i].read \in Int
<1>1. Cases = AbCases
  BY DEF Compared, Cases
<1>2. Len(points) = Runs
  BY <1>1, AbIsShaped DEF Compared, PointsInv
<1>3. DOMAIN points = 1..Runs
  BY <1>2 DEF Compared, PointsInv
<1>4. ASSUME NEW i \in 1..Runs
      PROVE  /\ points[i].case.value = Schedule[i]
             /\ points[i].read \in Readings \union {NoReading}
  <2>1. points[i].case = AbCase(Schedule[i]) /\ points[i].read \in Readings \union {NoReading}
    BY <1>1, <1>2, AbIsShaped DEF Compared, PointsInv
  <2> QED BY <2>1 DEF AbCase, Case
<1>5. Readings \subseteq Nat /\ NoReading \in Int
  BY PointCommandsAssumption DEF NoReading
<1>6. \A r \in Readings \union {NoReading} : (r # NoReading => r \in Nat) /\ r \in Int
  BY <1>5
<1> QED BY <1>3, <1>4, <1>6

LEMMA ReadingsAre ==
    ASSUME Compared, NEW n \in 1..Len(Labels)
    PROVE  /\ ReadingsOf(Labels[n]) \in [ReadBy(Labels[n]) -> Nat]
           /\ \A i \in ReadBy(Labels[n]) : ReadingsOf(Labels[n])[i] = points[i].read
           /\ IsFiniteSet(ReadBy(Labels[n]))
<1>1. {i \in DOMAIN points : points[i].case.value = Labels[n] /\ points[i].read # NoReading}
        = ReadBy(Labels[n])
  BY MeasuredRuns DEF ReadBy, RunsOf
<1>2. ReadingsOf(Labels[n]) = [i \in ReadBy(Labels[n]) |-> points[i].read]
  BY <1>1 DEF ReadingsOf
<1>3. \A i \in ReadBy(Labels[n]) : points[i].read \in Nat
  BY MeasuredRuns DEF ReadBy, RunsOf
<1>4. IsFiniteSet(ReadBy(Labels[n]))
  BY ARunPerRepeat, PartOf DEF ReadBy
<1> QED BY <1>2, <1>3, <1>4

LEMMA LabelsInUse == 1 \in 1..Len(Labels) /\ 2..Len(Labels) \subseteq 1..Len(Labels)
BY PointCommandsAssumption

\* The medians of both are numbers.
LEMMA MediansAre ==
    ASSUME Compared, NEW n \in 1..Len(Labels), ReadBy(Labels[n]) # {}
    PROVE  \E i, j \in ReadBy(Labels[n]) :
               TwiceMedian(ReadingsOf(Labels[n])) = points[i].read + points[j].read
<1> DEFINE D == ReadBy(Labels[n])
           s == ReadingsOf(Labels[n])
           size == Cardinality(D)
<1>1. s \in [D -> Nat] /\ IsFiniteSet(D) /\ \A i \in D : s[i] = points[i].read
  BY ReadingsAre
<1> HIDE DEF D, s
<1>2. size \in Nat \ {0}
  BY <1>1, FS_EmptySet, FS_CardinalityType DEF D
<1>3. ASSUME NEW p \in 1..size PROVE \E i \in D : Smallest(s, p) = points[i].read
  <2>1. Smallest(s, p) \in {s[i] : i \in D}
    BY <1>1, <1>2, SmallestIs
  <2> QED BY <1>1, <2>1
<1>4. DOMAIN s = D
  BY <1>1
<1>5. TwiceMedian(s) = Smallest(s, (size + 1) \div 2) + Smallest(s, size \div 2 + 1)
  BY <1>4 DEF TwiceMedian
<1>6. (size + 1) \div 2 \in 1..size /\ size \div 2 + 1 \in 1..size
  BY <1>2, MiddlePlaces
<1> HIDE DEF size
<1>7. PICK i \in D : Smallest(s, (size + 1) \div 2) = points[i].read
  BY <1>3, <1>6
<1>8. PICK j \in D : Smallest(s, size \div 2 + 1) = points[j].read
  BY <1>3, <1>6
<1> QED BY <1>5, <1>7, <1>8 DEF D, s

LEMMA WithoutPart ==
    ASSUME NEW S, IsFiniteSet(S), NEW T, T \subseteq S
    PROVE  Cardinality(S \ T) = Cardinality(S) - Cardinality(T)
<1>1. S \cap T = T
  OBVIOUS
<1> QED BY <1>1, FS_Difference

\* Medians within the tolerance of each other give no verdict but within.
LEMMA CloseIsWithin ==
    ASSUME Compared, NEW n \in 2..Len(Labels),
           ReadBy(Labels[1]) # {}, ReadBy(Labels[n]) # {},
           TwiceMedian(ReadingsOf(Labels[n])) - TwiceMedian(ReadingsOf(Labels[1])) <= 2 * AbsTolerance,
           TwiceMedian(ReadingsOf(Labels[1])) - TwiceMedian(ReadingsOf(Labels[n])) <= 2 * AbsTolerance
    PROVE  Judge(Labels[n]) = "WITHIN"
<1> DEFINE b == TwiceMedian(ReadingsOf(Labels[1]))
           c == TwiceMedian(ReadingsOf(Labels[n]))
<1>1. DOMAIN ReadingsOf(Labels[1]) # {} /\ DOMAIN ReadingsOf(Labels[n]) # {}
  BY LabelsInUse, ReadingsAre
<1>2. b \in Int /\ c \in Int
  <2>1. \A i \in 1..Runs : points[i].read \in Int
    BY MeasuredRuns
  <2>2. ReadBy(Labels[1]) \subseteq 1..Runs /\ ReadBy(Labels[n]) \subseteq 1..Runs
    BY DEF ReadBy, RunsOf
  <2>3. \E i, j \in ReadBy(Labels[1]) : b = points[i].read + points[j].read
    BY LabelsInUse, MediansAre
  <2>4. \E i, j \in ReadBy(Labels[n]) : c = points[i].read + points[j].read
    BY LabelsInUse, MediansAre
  <2> HIDE DEF b, c
  <2> QED BY <2>1, <2>2, <2>3, <2>4
<1>3. ~Beyond(c - b, b) /\ ~Beyond(b - c, b)
  <2>1. AbsTolerance \in Nat
    BY PointCommandsAssumption
  <2>2. c - b <= 2 * AbsTolerance /\ b - c <= 2 * AbsTolerance
    OBVIOUS
  <2> HIDE DEF b, c
  <2> QED BY <1>2, <2>1, <2>2 DEF Beyond
<1> QED BY <1>1, <1>3 DEF Judge

\* Runs of one repeat read alike, whatever the host does from repeat to repeat.
LEMMA DriftIsWithin ==
    ASSUME Compared, OnlyDrift, NEW n \in 2..Len(Labels)
    PROVE  Judge(Labels[n]) = "WITHIN"
<1>1. 1 \in 1..Len(Labels) /\ n \in 1..Len(Labels)
  BY LabelsInUse
<1>2. \A i \in 1..Runs : points[i].read \in Nat
  BY MeasuredRuns DEF OnlyDrift
<1>3. ASSUME NEW l \in 1..Len(Labels)
      PROVE  ReadBy(Labels[l]) = RunsOf(Labels[l]) /\ ReadBy(Labels[l]) # {}
  <2>1. ReadBy(Labels[l]) = RunsOf(Labels[l])
    BY MeasuredRuns DEF OnlyDrift, ReadBy, RunsOf
  <2>2. IsFiniteSet(RunsOf(Labels[l])) /\ Cardinality(RunsOf(Labels[l])) >= AbRepeats
    BY ARunPerRepeat
  <2>3. Cardinality(RunsOf(Labels[l])) # 0
    BY <2>2, PointCommandsAssumption, FS_CardinalityType
  <2> QED BY <2>1, <2>3, FS_EmptySet
<1>4. \A i, j \in 1..Runs : RepeatOf(i) = RepeatOf(j) => points[i].read - points[j].read <= AbsTolerance
  BY MeasuredRuns DEF OnlyDrift, RepeatOf
<1>5. ASSUME NEW l \in 1..Len(Labels), NEW m \in 1..Len(Labels)
      PROVE  /\ Cardinality(RunsOf(Labels[l])) <= Cardinality(RunsOf(Labels[m]))
             /\ \E f \in Injection(RunsOf(Labels[l]), RunsOf(Labels[m])) : \A i \in RunsOf(Labels[l]) :
                    ReadingsOf(Labels[m])[f[i]] <= ReadingsOf(Labels[l])[i] + AbsTolerance
  <2> DEFINE D == RunsOf(Labels[l])
             E == RunsOf(Labels[m])
  <2>1. PICK f \in Injection(D, E) : \A i \in D : RepeatOf(f[i]) = RepeatOf(i)
    BY Partners
  <2>2. Cardinality(D) <= Cardinality(E)
    BY ARunPerRepeat, FS_Injection
  <2>3. ASSUME NEW i \in D
        PROVE  ReadingsOf(Labels[m])[f[i]] <= ReadingsOf(Labels[l])[i] + AbsTolerance
    <3>1. f[i] \in E
      BY DEF Injection
    <3>2. ReadingsOf(Labels[m])[f[i]] = points[f[i]].read /\ ReadingsOf(Labels[l])[i] = points[i].read
      BY <1>3, <3>1, ReadingsAre
    <3>3. i \in 1..Runs /\ f[i] \in 1..Runs /\ RepeatOf(f[i]) = RepeatOf(i)
      BY <2>1, <3>1 DEF RunsOf
    <3>4. /\ points[f[i]].read - points[i].read <= AbsTolerance
          /\ points[f[i]].read \in Nat /\ points[i].read \in Nat
      BY <1>2, <1>4, <3>3
    <3>5. AbsTolerance \in Nat
      BY PointCommandsAssumption
    <3> QED BY <3>2, <3>4, <3>5
  <2> QED BY <2>1, <2>2, <2>3
<1>6. ASSUME NEW l \in 1..Len(Labels), NEW m \in 1..Len(Labels)
      PROVE  TwiceMedian(ReadingsOf(Labels[m])) - TwiceMedian(ReadingsOf(Labels[l])) <= 2 * AbsTolerance
  <2> DEFINE D == RunsOf(Labels[l])
             E == RunsOf(Labels[m])
             s == ReadingsOf(Labels[l])
             t == ReadingsOf(Labels[m])
  <2>1. s \in [D -> Nat] /\ t \in [E -> Nat] /\ D # {} /\ E # {} /\ IsFiniteSet(D) /\ IsFiniteSet(E)
    BY <1>3, ReadingsAre
  <2>2. Cardinality(D) = Cardinality(E)
    BY <1>5, <2>1, FS_CardinalityType
  <2>3. PICK f \in Injection(D, E) : \A i \in D : t[f[i]] <= s[i] + AbsTolerance
    BY <1>5
  <2>4. AbsTolerance \in Nat
    BY PointCommandsAssumption
  <2>5. TwiceMedian(s) \in Int /\ TwiceMedian(t) \in Int
    <3>1. PICK i, j \in D : TwiceMedian(s) = points[i].read + points[j].read
      BY <1>3, MediansAre
    <3>2. PICK p, q \in E : TwiceMedian(t) = points[p].read + points[q].read
      BY <1>3, MediansAre
    <3>3. \A r \in D \union E : points[r].read \in Nat
      BY <1>2 DEF RunsOf
    <3> QED BY <3>1, <3>2, <3>3
  <2> HIDE DEF D, E, s, t
  <2>6. TwiceMedian(t) <= TwiceMedian(s) + 2 * AbsTolerance
    BY <2>1, <2>2, <2>3, <2>4, MediansShift
  <2>7. TwiceMedian(t) - TwiceMedian(s) <= 2 * AbsTolerance
    BY <2>4, <2>5, <2>6
  <2> QED BY <2>7 DEF s, t
<1> QED BY <1>1, <1>3, <1>6, CloseIsWithin

\* One run of each configuration may read anything or nothing.
LEMMA BadLuckIsWithin ==
    ASSUME Compared, OnlyBadLuck, NEW n \in 2..Len(Labels)
    PROVE  Judge(Labels[n]) = "WITHIN"
<1>1. 1 \in 1..Len(Labels) /\ n \in 1..Len(Labels)
  BY LabelsInUse
<1>2. AbRepeats > 2 /\ AbRepeats \in Nat /\ AbsTolerance \in Nat
  BY PointCommandsAssumption DEF OnlyBadLuck
<1>3. PICK x \in Readings : \A l \in DOMAIN Labels :
          Cardinality({i \in DOMAIN points :
              points[i].case.value = Labels[l] /\ points[i].read \notin x..(x + AbsTolerance)}) < 2
  BY DEF OnlyBadLuck
<1>4. x \in Nat /\ x + AbsTolerance \in Nat /\ DOMAIN Labels = 1..Len(Labels)
  BY PointCommandsAssumption
<1> DEFINE y == x + AbsTolerance
<1>5. ASSUME NEW l \in 1..Len(Labels)
      PROVE  /\ ReadBy(Labels[l]) # {}
             /\ 2 * x <= TwiceMedian(ReadingsOf(Labels[l])) /\ TwiceMedian(ReadingsOf(Labels[l])) <= 2 * y
  <2> DEFINE All == RunsOf(Labels[l])
             D   == ReadBy(Labels[l])
             s   == ReadingsOf(Labels[l])
             Unlucky == {i \in All : points[i].read \notin x..y}
             Out == {i \in D : s[i] \notin x..y}
  <2>1. IsFiniteSet(All) /\ Cardinality(All) >= AbRepeats /\ Cardinality(All) \in Nat
    BY ARunPerRepeat, FS_CardinalityType
  <2>2. Cardinality(Unlucky) < 2
    <3>1. {i \in DOMAIN points :
              points[i].case.value = Labels[l] /\ points[i].read \notin x..(x + AbsTolerance)} = Unlucky
      BY MeasuredRuns DEF RunsOf
    <3> QED BY <1>3, <1>4, <3>1
  <2>3. s \in [D -> Nat] /\ (\A i \in D : s[i] = points[i].read) /\ IsFiniteSet(D)
    BY ReadingsAre
  <2>4. D \subseteq All /\ Out \subseteq D /\ Out \subseteq Unlucky
    BY <2>3 DEF ReadBy
  <2>5. All \ D \subseteq Unlucky \ Out
    BY <1>4, <2>4 DEF ReadBy, NoReading
  <2> HIDE DEF All, D, s, Out, Unlucky
  <2>6. IsFiniteSet(Unlucky) /\ Cardinality(Unlucky) \in Nat
    BY <2>1, PartOf DEF Unlucky
  <2>7. Cardinality(Out) \in Nat /\ Cardinality(Out) <= Cardinality(Unlucky)
    BY <2>4, <2>6, PartOf
  <2>8. /\ Cardinality(Unlucky \ Out) = Cardinality(Unlucky) - Cardinality(Out)
        /\ Cardinality(All \ D) <= Cardinality(Unlucky \ Out)
        /\ Cardinality(All \ D) = Cardinality(All) - Cardinality(D)
        /\ Cardinality(D) \in Nat
    <3>2. Cardinality(Unlucky \ Out) = Cardinality(Unlucky) - Cardinality(Out)
      BY <2>4, <2>6, WithoutPart
    <3>3. Cardinality(All \ D) = Cardinality(All) - Cardinality(D)
      BY <2>1, <2>4, WithoutPart
    <3>4. IsFiniteSet(Unlucky \ Out)
      BY <2>6, PartOf
    <3>5. Cardinality(All \ D) <= Cardinality(Unlucky \ Out)
      BY <2>5, <3>4, PartOf
    <3> QED BY <2>3, <3>2, <3>3, <3>5, FS_CardinalityType
  <2>9. Cardinality(D) > 1 /\ (Cardinality(Out) # 0 => Cardinality(D) > 2) /\ Cardinality(Out) <= 1
    BY <1>2, <2>1, <2>2, <2>6, <2>7, <2>8
  <2>10. D # {}
    BY <2>9, FS_EmptySet
  <2>11. 2 * x <= TwiceMedian(s) /\ TwiceMedian(s) <= 2 * y
    BY <1>4, <2>3, <2>9, <2>10, MedianInBand DEF Out
  <2> QED BY <2>10, <2>11 DEF D, s
<1> HIDE DEF y
<1>6. \A l \in 1..Len(Labels) : TwiceMedian(ReadingsOf(Labels[l])) \in Int
  <2> TAKE l \in 1..Len(Labels)
  <2>1. PICK i, j \in ReadBy(Labels[l]) :
            TwiceMedian(ReadingsOf(Labels[l])) = points[i].read + points[j].read
    BY <1>5, MediansAre
  <2>2. points[i].read \in Int /\ points[j].read \in Int
    BY MeasuredRuns DEF ReadBy, RunsOf
  <2> QED BY <2>1, <2>2
<1>7. /\ TwiceMedian(ReadingsOf(Labels[n])) - TwiceMedian(ReadingsOf(Labels[1])) <= 2 * AbsTolerance
      /\ TwiceMedian(ReadingsOf(Labels[1])) - TwiceMedian(ReadingsOf(Labels[n])) <= 2 * AbsTolerance
  BY <1>1, <1>2, <1>4, <1>5, <1>6 DEF y
<1> QED BY <1>1, <1>5, <1>7, CloseIsWithin

\* A candidate worse in every run, by more than the tolerance, has regressed.
LEMMA WorseIsRegressed ==
    ASSUME Compared, NEW n \in 2..Len(Labels),
           ReadBy(Labels[1]) # {}, ReadBy(Labels[n]) # {},
           \A i \in ReadBy(Labels[1]), j \in ReadBy(Labels[n]) :
               Beyond(2 * (points[j].read - points[i].read), 2 * points[i].read)
    PROVE  Judge(Labels[n]) = "REGRESSED"
<1> DEFINE b == TwiceMedian(ReadingsOf(Labels[1]))
           c == TwiceMedian(ReadingsOf(Labels[n]))
<1>1. 1 \in 1..Len(Labels) /\ n \in 1..Len(Labels)
  BY LabelsInUse
<1>2. \A l \in 1..Len(Labels) : \A i \in ReadBy(Labels[l]) : points[i].read \in Nat
  BY MeasuredRuns DEF ReadBy, RunsOf
<1>3. PICK i, k \in ReadBy(Labels[1]) : b = points[i].read + points[k].read
  BY <1>1, MediansAre
<1>4. PICK j, m \in ReadBy(Labels[n]) : c = points[j].read + points[m].read
  BY <1>1, MediansAre
<1> HIDE DEF b, c
<1>5. PICK p, q, u, v \in Nat :
           p = points[i].read /\ q = points[k].read /\ u = points[j].read /\ v = points[m].read
  BY <1>1, <1>2
<1>6. Beyond(2 * (u - p), 2 * p) /\ Beyond(2 * (v - q), 2 * q)
  BY <1>5
<1>7. Beyond(u + v - (p + q), p + q)
  <2>1. RelTolerance \in Nat /\ AbsTolerance \in Nat
    BY PointCommandsAssumption
  <2>2. /\ (2 * (u - p)) * RelTolerance > 2 * p /\ (2 * (v - q)) * RelTolerance > 2 * q
    BY <1>6 DEF Beyond
  <2>3. u + v - (p + q) > 2 * AbsTolerance
    <3>1. 2 * (u - p) > 2 * AbsTolerance /\ 2 * (v - q) > 2 * AbsTolerance
      BY <1>6 DEF Beyond
    <3>2. u - p > AbsTolerance /\ v - q > AbsTolerance
      BY <2>1, <3>1
    <3> QED BY <2>1, <3>2
  <2>4. (u + v - (p + q)) * RelTolerance > p + q
    <3>1. PICK g, h \in Int : g = (u - p) * RelTolerance /\ h = (v - q) * RelTolerance
      BY <2>1
    <3>2. (2 * (u - p)) * RelTolerance = 2 * g /\ (2 * (v - q)) * RelTolerance = 2 * h
      BY <2>1, <3>1
    <3>3. (u + v - (p + q)) * RelTolerance = g + h
      BY <2>1, <3>1
    <3> QED BY <2>2, <3>1, <3>2, <3>3
  <2> QED BY <2>3, <2>4 DEF Beyond
<1>8. Beyond(c - b, b)
  <2>1. b = p + q /\ c = u + v
    BY <1>3, <1>4, <1>5
  <2>2. c - b = u + v - (p + q)
    BY <2>1
  <2> QED BY <1>7, <2>1, <2>2, Zenon
<1>9. DOMAIN ReadingsOf(Labels[1]) # {} /\ DOMAIN ReadingsOf(Labels[n]) # {}
  BY <1>1, ReadingsAre
<1> QED BY <1>8, <1>9 DEF Judge, b, c

\* Neither drift nor an unlucky run makes a candidate differ, and one whose every
\* run is worse has regressed: for any configurations, repeats and readings, and
\* any tolerance.
THEOREM TheVerdictIsFair == Spec => []VerdictIsFair
<1>1. PointsInv => VerdictIsFair
  <2> SUFFICES ASSUME Compared PROVE VerdictIsFair
    BY DEF VerdictIsFair, Compared
  <2>1. OnlyDrift \/ OnlyBadLuck => AllAre("WITHIN")
    BY DriftIsWithin, BadLuckIsWithin DEF AllAre
  <2>2. ASSUME NEW n \in 2..Len(Labels),
               DOMAIN ReadingsOf(Labels[1]) # {}, DOMAIN ReadingsOf(Labels[n]) # {},
               \A i \in DOMAIN ReadingsOf(Labels[1]), j \in DOMAIN ReadingsOf(Labels[n]) :
                   Beyond(2 * (ReadingsOf(Labels[n])[j] - ReadingsOf(Labels[1])[i]),
                          2 * ReadingsOf(Labels[1])[i])
        PROVE  Judge(Labels[n]) = "REGRESSED"
    <3>1. 1 \in 1..Len(Labels) /\ n \in 1..Len(Labels)
      BY LabelsInUse
    <3>2. \A l \in 1..Len(Labels) : /\ DOMAIN ReadingsOf(Labels[l]) = ReadBy(Labels[l])
                                    /\ \A i \in ReadBy(Labels[l]) : ReadingsOf(Labels[l])[i] = points[i].read
      BY ReadingsAre
    <3>3. DOMAIN ReadingsOf(Labels[1]) = ReadBy(Labels[1]) /\ DOMAIN ReadingsOf(Labels[n]) = ReadBy(Labels[n])
      BY <3>1, <3>2
    <3>4. \A i \in ReadBy(Labels[1]), j \in ReadBy(Labels[n]) :
              Beyond(2 * (points[j].read - points[i].read), 2 * points[i].read)
      <4> TAKE i \in ReadBy(Labels[1]), j \in ReadBy(Labels[n])
      <4>1. ReadingsOf(Labels[1])[i] = points[i].read /\ ReadingsOf(Labels[n])[j] = points[j].read
        BY <3>1, <3>2
      <4>2. Beyond(2 * (ReadingsOf(Labels[n])[j] - ReadingsOf(Labels[1])[i]), 2 * ReadingsOf(Labels[1])[i])
        BY <2>2, <3>3
      <4> QED BY <4>1, <4>2, Zenon
    <3> QED BY <2>2, <3>3, <3>4, WorseIsRegressed
  <2> QED BY <2>1, <2>2 DEF VerdictIsFair
<1> QED BY <1>1, PointsInvariance, PTL
================================================================================
