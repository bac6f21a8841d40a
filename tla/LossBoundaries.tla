---------------------------- MODULE LossBoundaries ----------------------------
(***************************************************************************)
(* benchmark loss-boundaries: on a grid of steps the driver looks for the   *)
(* worst value of the bandwidth, then of the jitter, at which no message is *)
(* lost, and for the mildest at which every run loses some; it probes the   *)
(* two good values together, writes the result and prints it.               *)
(***************************************************************************)
EXTENDS Probing, Sequences

ASSUME LossBoundariesAssumption == {"bandwidth", "jitter"} \subseteq Axis

VARIABLES
    good, notGood,  \* the bracket of the clean values
    bad, notBad,    \* the bracket of the fully lossy values
    seen,           \* verdicts at the two ends of the axis
    report          \* per axis: what the result says of it

bracket == <<good, notGood, bad, notBad>>
boundary == <<bracket, seen, report>>

\* What the result knows of an axis, None where a record names nothing.
Boundary == [good : Unit, notGood : Unit, bad : Unit, tight : BOOLEAN]
Nothing  == [good |-> None, notGood |-> None, bad |-> None, tight |-> FALSE]
OpenEnd  == [Nothing EXCEPT !.good = Worst]

BoundaryPhase ==
    {"rate_high", "rate_low", "rate_bisect", "rate_bad",
     "jitter_low", "jitter_high", "jitter_lost", "jitter_bisect",
     "jitter_bad", "jitter_not_bad", "combined"}

Mode == IF phase \in {"rate_bad", "jitter_lost", "jitter_bad", "jitter_not_bad"}
        THEN "bad" ELSE "good"

\* candidate_for_axis: the other axis stays ideal.
OnAxis(a, u) == At(Ideal, a, u)

BoundaryInit ==
    /\ good = 0 /\ notGood = Worst /\ bad = Worst /\ notBad = 0
    /\ seen = <<>>
    /\ report = [a \in Axis |-> Nothing]

Answered(name) == phase = name /\ Decided(Mode)

Bracket(p, f, nb, b) == good' = p /\ notGood' = f /\ notBad' = nb /\ bad' = b

\* The middle of a bracket, in steps; the rate counts its steps from the floor.
MidRate(p, f) == (p + f + 1) \div 2
MidJitter(p, f) == (p + f) \div 2

\* Both searches keep their brackets to themselves.
Conclude(a, record) ==
    /\ report' = [report EXCEPT ![a] = record]
    /\ Bracket(0, Worst, 0, Worst)
    /\ seen' = <<>>

(***************************************************************************)
(* search_bandwidth                                                        *)
(***************************************************************************)
ReportRate(record) ==
    /\ Conclude("bandwidth", record)
    /\ Probe("jitter_low", OnAxis("jitter", 0))

RateHigh ==
    /\ Answered("rate_high")
    /\ seen' = <<Good>>
    /\ Probe("rate_low", OnAxis("bandwidth", Worst))
    /\ UNCHANGED <<bracket, report>>

\* Mutant: the bisection goes on between neighbours.
StopLate(p, f) ==
    /\ Bracket(p, f, notBad, bad)
    /\ IF f - p > 0
       THEN Probe("rate_bisect", OnAxis("bandwidth", MidRate(p, f)))
       ELSE Probe("rate_bad", OnAxis("bandwidth", f))
    /\ UNCHANGED <<seen, report>>

NextRate(p, f) ==
    /\ Bracket(p, f, notBad, bad)
    /\ IF f - p > 1
       THEN Probe("rate_bisect", OnAxis("bandwidth", MidRate(p, f)))
       ELSE Probe("rate_bad", OnAxis("bandwidth", f))
    /\ UNCHANGED <<seen, report>>

RateLow ==
    /\ Answered("rate_low")
    /\ IF ~seen[1] THEN ReportRate(Nothing)
       ELSE IF Good THEN ReportRate(OpenEnd)
       ELSE NextRate(0, Worst)

RateBisect ==
    /\ Answered("rate_bisect")
    /\ LET u == probed["bandwidth"]
       IN  IF Good THEN NextRate(u, notGood) ELSE NextRate(good, u)

\* From the failing neighbour one step after the other, until a value is bad.
RateBad ==
    /\ Answered("rate_bad")
    /\ LET u == probed["bandwidth"]
           Found(b) == [good |-> good, notGood |-> notGood, bad |-> b, tight |-> b = good + 1]
       IN  IF Bad THEN ReportRate(Found(u))
           ELSE IF u = Worst THEN ReportRate(Found(None))
           ELSE Probe("rate_bad", OnAxis("bandwidth", u + 1)) /\ UNCHANGED boundary

(***************************************************************************)
(* search_jitter                                                           *)
(***************************************************************************)
\* The good values found, together; an axis without one stays ideal.
Combined(r) == [a \in Axis |-> IF r[a].good = None THEN 0 ELSE r[a].good]

ReportJitter(record) ==
    /\ Conclude("jitter", record)
    /\ Probe("combined", Combined(report'))

JitterEnd(next, c) ==
    /\ seen' = Append(seen, Good)
    /\ Probe(next, c)
    /\ UNCHANGED <<bracket, report>>

JitterLow  == Answered("jitter_low") /\ JitterEnd("jitter_high", OnAxis("jitter", Worst))
JitterHigh == Answered("jitter_high") /\ JitterEnd("jitter_lost", OnAxis("jitter", Worst))

\* The lossy bracket of a closed clean one.  The last value that is not bad is
\* measured for it, unless the bisection has just done so.
NextLossy(p, f, nb, b) ==
    IF nb # p /\ b - nb = 1
    THEN ReportJitter([good |-> p, notGood |-> f, bad |-> b, tight |-> TRUE])
    ELSE /\ Bracket(p, f, nb, b)
         /\ IF b - nb > 1
            THEN Probe("jitter_bad", OnAxis("jitter", MidJitter(nb, b)))
            ELSE Probe("jitter_not_bad", OnAxis("jitter", nb))
         /\ UNCHANGED report

\* The clean bracket; a ceiling that is not lossy leaves the lossy one unknown.
NextClean(p, f, lossy) ==
    IF f - p > 1
    THEN /\ Bracket(p, f, notBad, IF lossy THEN Worst ELSE None)
         /\ Probe("jitter_bisect", OnAxis("jitter", MidJitter(p, f)))
         /\ UNCHANGED report
    ELSE IF lossy THEN NextLossy(p, f, p, Worst)
    ELSE ReportJitter([good |-> p, notGood |-> f, bad |-> None, tight |-> FALSE])

JitterLost ==
    /\ Answered("jitter_lost")
    /\ IF ~seen[1] THEN ReportJitter(Nothing)
       ELSE IF seen[2] THEN ReportJitter(OpenEnd)
       ELSE NextClean(0, Worst, Bad) /\ seen' = <<>>

JitterBisect ==
    /\ Answered("jitter_bisect")
    /\ LET u == probed["jitter"]
       IN  IF Good THEN NextClean(u, notGood, bad # None)
                   ELSE NextClean(good, u, bad # None)
    /\ seen' = <<>>

JitterBad ==
    /\ Answered("jitter_bad")
    /\ LET u == probed["jitter"]
       IN  IF Bad THEN NextLossy(good, notGood, notBad, u)
                  ELSE NextLossy(good, notGood, u, bad)
    /\ seen' = <<>>

JitterNotBad ==
    /\ Answered("jitter_not_bad")
    /\ ReportJitter([good |-> good, notGood |-> notGood, bad |-> bad, tight |-> TRUE])

(***************************************************************************)
(* The result file and the printed report                                  *)
(***************************************************************************)
\* Where a record names a good boundary and its bad one is None, the print asks
\* None for its candidate and raises.
Report ==
    /\ Answered("combined")
    /\ phase' = IF \E a \in Axis : report[a].good # None /\ report[a].bad = None
                THEN "raised" ELSE "printed"
    /\ UNCHANGED <<link, probed, sample, boundary>>

BoundaryNext ==
    \/ phase \in BoundaryPhase /\ Run(Mode) /\ UNCHANGED boundary
    \/ phase \in BoundaryPhase /\ NothingArrives(Mode) /\ UNCHANGED boundary
    \/ RateHigh \/ RateLow \/ RateBisect \/ RateBad
    \/ JitterLow \/ JitterHigh \/ JitterLost
    \/ JitterBisect \/ JitterBad \/ JitterNotBad
    \/ Report

(***************************************************************************)
(* Properties                                                              *)
(***************************************************************************)
BoundaryTypeOK ==
    /\ good \in Severity /\ notGood \in Severity
    /\ bad \in Unit /\ notBad \in Severity
    /\ seen \in Seq(BOOLEAN)
    /\ report \in [Axis -> Boundary]

\* On a link without noise the value reported as the last clean one of an axis
\* is exactly that, whatever the bisection skipped; with noise it can still pass
\* and the value named after it can fail, and they are neighbours.
BoundaryIsTheEdge ==
    \A a \in Axis : LET r == report[a] IN
        /\ r.good # None => OnAxis(a, r.good) \in link.usable
        /\ r.notGood # None => r.notGood = r.good + 1 /\ OnAxis(a, r.notGood) \notin link.clean
        /\ r.bad # None => r.bad > r.good /\ OnAxis(a, r.bad) \notin link.clean
        /\ r.good # None /\ link.clean = link.usable =>
              \A u \in Severity : OnAxis(a, u) \in link.clean <=> u <= r.good
================================================================================
