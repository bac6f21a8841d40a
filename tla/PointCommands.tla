----------------------------- MODULE PointCommands -----------------------------
(***************************************************************************)
(* The benchmark commands that search for nothing and measure a list of     *)
(* cases written down beforehand, one live point each: ab, matrix,          *)
(* sensitivity, sweep, ramp and probe.  A point runs the session that is    *)
(* found first in the configuration roots as they are then; the result is   *)
(* written when all cases have been measured.                               *)
(***************************************************************************)
EXTENDS Integers, Sequences, FiniteSets

CONSTANTS
    Labels,         \* ab: the baseline, then the candidates
    Shipped,        \* the session of the package
    Override,       \* a session of the same name in a root of the user's
    PinnedQos,      \* the QoS the command pins
    BaseNet,        \* the network of the base profile
    IdealRate,
    FixedJitter,    \* matrix: the jitter of every case
    Values,         \* of each axis, the values of its cases
    AbRepeats,      \* repeats of ab
    Readings,       \* what a run of ab may measure; less is better
    AbsTolerance,   \* unchanged is what stays within this,
    RelTolerance,   \* or within one part in so many of the baseline
    Recordings      \* what a probe may record

Session == [config : STRING, qos : STRING]
Network == [rate : Nat, up : Nat, down : Nat, jitter : Nat, loss : Nat, corr : Nat]

\* The knobs an axis turns, first the one that its values name.
Turned == [config |-> <<"config">>, profile |-> <<"rate", "up", "down", "jitter", "loss", "corr">>,
           size |-> <<"size">>, loss |-> <<"loss">>, delay |-> <<"up", "down">>, jitter |-> <<"jitter">>,
           rate |-> <<"rate">>, loss_correlation |-> <<"corr">>, latency |-> <<"up", "down">>,
           hz |-> <<"hz">>, qos |-> <<"qos">>]

SensitivityAxes == {"loss", "delay", "jitter", "rate", "loss_correlation"}
MatrixAxes      == {"latency", "hz", "qos"}

ASSUME PointCommandsAssumption ==
    /\ Labels \in Seq(STRING) /\ Len(Labels) > 1
    /\ \A m, n \in 1..Len(Labels) : Labels[m] = Labels[n] => m = n
    /\ Shipped \in Session /\ Override \in Session /\ PinnedQos \in STRING
    /\ BaseNet \in Network /\ IdealRate \in Nat /\ FixedJitter \in Nat
    /\ Values["qos"] \in Seq(STRING)
    /\ \A axis \in (SensitivityAxes \union MatrixAxes \union {"size"}) \ {"qos"} : Values[axis] \in Seq(Nat)
    /\ AbRepeats \in Nat \ {0} /\ RelTolerance \in Nat \ {0}
    /\ Readings \subseteq Nat /\ AbsTolerance \in Nat

VARIABLES
    genre,      \* the command, or none
    axes,       \* the axes it was asked for
    roots,      \* the sessions in the configuration roots, the first one wins
    previous,   \* the roots before a case put its own in front
    stage,      \* between two cases, at one, or how the command ended
    points      \* what was measured: the case, what ran, what was read

pointing == <<genre, axes, roots, previous, stage, points>>

NoReading == -1

(***************************************************************************)
(* The cases                                                               *)
(***************************************************************************)
IdealNet == [rate |-> IdealRate, up |-> 0, down |-> 0, jitter |-> 0, loss |-> 0, corr |-> 0]
Unshaped == [IdealNet EXCEPT !.rate = 0]

\* The network and the load of a point, and the session the case brings along.
Case(axis, value, net) == [axis |-> axis, value |-> value, net |-> net, hz |-> 1, size |-> 1, brings |-> <<>>]

\* Jitter is varied around the delay of the base profile, correlation at its
\* loss; netem has no correlation of no loss.
SensitivityNet(axis, v) ==
    CASE axis = "loss"   -> [IdealNet EXCEPT !.loss = v]
      [] axis = "delay"  -> [IdealNet EXCEPT !.up = v, !.down = v]
      [] axis = "jitter" -> [IdealNet EXCEPT !.up = BaseNet.up, !.down = BaseNet.down, !.jitter = v]
      [] axis = "rate"   -> [IdealNet EXCEPT !.rate = v]
      [] OTHER           -> [IdealNet EXCEPT !.loss = BaseNet.loss, !.corr = IF BaseNet.loss > 0 THEN v ELSE 0]

\* The values of an axis that was asked for, as a loop of the builder adds them.
SensitivityOn(axis) ==
    IF axis \in axes
    THEN [i \in 1..Len(Values[axis]) |-> Case(axis, Values[axis][i], SensitivityNet(axis, Values[axis][i]))]
    ELSE <<>>

SensitivityCases ==
    <<Case("baseline", 0, Unshaped), Case("ideal", IdealRate, IdealNet), Case("base", 0, BaseNet)>>
    \o SensitivityOn("loss") \o SensitivityOn("delay") \o SensitivityOn("jitter")
    \o SensitivityOn("rate") \o SensitivityOn("loss_correlation")

\* The downlink keeps the proportion it has to the uplink in the base profile.
Delayed(up) ==
    [IdealNet EXCEPT !.up = up,
                     !.down = IF BaseNet.up > 0 THEN (up * BaseNet.down) \div BaseNet.up ELSE up,
                     !.jitter = FixedJitter]

DefaultQos == "best_effort:1"

\* Every case brings a copy of the prepared session with a QoS of its own.
MatrixCase(prepared, axis, v) ==
    [Case(axis, v, Delayed(IF axis = "latency" THEN v ELSE BaseNet.up)) EXCEPT
        !.hz = IF axis = "hz" THEN v ELSE 1,
        !.brings = <<[prepared EXCEPT !.qos = IF axis = "qos" THEN v ELSE DefaultQos]>>]

MatrixOn(prepared, axis) ==
    IF axis \in axes
    THEN [i \in 1..Len(Values[axis]) |-> MatrixCase(prepared, axis, Values[axis][i])]
    ELSE <<>>

MatrixCases(prepared) ==
    <<MatrixCase(prepared, "reference", 0)>>
    \o MatrixOn(prepared, "latency") \o MatrixOn(prepared, "hz") \o MatrixOn(prepared, "qos")

\* Mutant: all runs of one configuration, then all of the next.
OneAfterTheOther ==
    [i \in 1..(AbRepeats * Len(Labels)) |-> Labels[((i - 1) \div AbRepeats) + 1]]

\* Every repeat runs each configuration once and begins with another one.
Schedule ==
    [i \in 1..(AbRepeats * Len(Labels)) |->
        Labels[((i - 1 + (i - 1) \div Len(Labels)) % Len(Labels)) + 1]]

AbCases ==
    [i \in 1..Len(Schedule) |->
        [Case("config", Schedule[i], BaseNet) EXCEPT !.brings = <<[config |-> Schedule[i], qos |-> PinnedQos]>>]]

\* The session the command prepared is in the first root, but for the root of
\* the case at hand.
Prepared == (IF stage = "at" THEN previous ELSE roots)[1]

Cases ==
    CASE genre = "ab"          -> AbCases
      [] genre = "matrix"      -> MatrixCases(Prepared)
      [] genre = "sensitivity" -> SensitivityCases
      [] genre = "sweep"       -> <<Case("profile", IdealRate, IdealNet), Case("profile", BaseNet.rate, BaseNet)>>
      [] genre = "ramp"        -> [i \in 1..Len(Values["size"]) |->
                                     [Case("size", Values["size"][i], BaseNet) EXCEPT !.size = Values["size"][i]]]
      [] OTHER                 -> <<Case("none", 0, BaseNet)>>

(***************************************************************************)
(* The command                                                             *)
(***************************************************************************)
FirstIn(held) == (held \o <<Shipped>>)[1]

\* All commands but ab prepare the session first: a copy of the one they find,
\* with the QoS pinned, in a root before the others.
PointsInit ==
    /\ genre \in {"none", "ab", "matrix", "sensitivity", "sweep", "ramp", "probe"}
    /\ axes \in CASE genre = "sensitivity" -> SUBSET SensitivityAxes \ {{}}
                  [] genre = "matrix"      -> SUBSET MatrixAxes \ {{}}
                  [] OTHER                 -> {{}}
    /\ \E own \in IF genre = "none" THEN {<<>>} ELSE {<<>>, <<Override>>} :
           roots = IF genre \in {"none", "ab"} THEN own ELSE <<[FirstIn(own) EXCEPT !.qos = PinnedQos]>> \o own
    /\ previous = <<>>
    /\ stage = "between"
    /\ points = <<>>

\* Mutant: the root of the case is put behind the others.
EnterBehind ==
    /\ stage = "between" /\ Len(points) < Len(Cases)
    /\ previous' = roots
    /\ roots' = roots \o Cases[Len(points) + 1].brings
    /\ stage' = "at"
    /\ UNCHANGED <<genre, axes, points>>

Enter ==
    /\ stage = "between" /\ Len(points) < Len(Cases)
    /\ previous' = roots
    /\ roots' = Cases[Len(points) + 1].brings \o roots
    /\ stage' = "at"
    /\ UNCHANGED <<genre, axes, points>>

\* Whatever becomes of the point, its root is taken away again.
Leave(next) ==
    /\ stage' = next
    /\ roots' = previous /\ previous' = <<>>
    /\ UNCHANGED <<genre, axes>>

Measure(reading) ==
    /\ points' = Append(points, [case |-> Cases[Len(points) + 1], ran |-> FirstIn(roots), read |-> reading])
    /\ Leave("between")

\* A run of ab may have no sample of the metric.
MeasurePoint ==
    /\ stage = "at"
    /\ CASE genre = "ab"    -> \E reading \in Readings \union {NoReading} : Measure(reading)
         [] genre = "probe" -> \E recording \in Recordings : Measure(recording)
         [] OTHER           -> Measure(NoReading)

\* The point raises.  So do the drivers of a table when nobody accounted for the
\* messages: they ask for the missing loss as a number.
PointRaises ==
    /\ stage = "at"
    /\ Leave("raised")
    /\ UNCHANGED points

WriteResult ==
    /\ stage = "between" /\ Len(points) = Len(Cases) /\ genre # "none"
    /\ stage' = "written"
    /\ UNCHANGED <<genre, axes, roots, previous, points>>

PointsNext == Enter \/ MeasurePoint \/ PointRaises \/ WriteResult

(***************************************************************************)
(* The verdict of ab: medians against medians                              *)
(***************************************************************************)
Smallest(s, k) ==
    CHOOSE v \in {s[i] : i \in DOMAIN s} :
        /\ Cardinality({i \in DOMAIN s : s[i] < v}) < k
        /\ Cardinality({i \in DOMAIN s : s[i] <= v}) >= k

\* Twice the median: that of an even number lies between two values.
TwiceMedian(s) ==
    LET size == Cardinality(DOMAIN s)
    IN  Smallest(s, (size + 1) \div 2) + Smallest(s, size \div 2 + 1)

\* What the runs of a configuration read, by their place in the schedule.
ReadingsOf(label) ==
    [i \in {i \in DOMAIN points : points[i].case.value = label /\ points[i].read # NoReading} |-> points[i].read]

\* Beyond max(abs, share of the baseline) of the baseline's median.
Beyond(difference, baseline) ==
    /\ difference > 2 * AbsTolerance
    /\ difference * RelTolerance > baseline

Judge(label) ==
    LET baseline  == ReadingsOf(Labels[1])
        candidate == ReadingsOf(label)
        b == TwiceMedian(baseline)
        c == TwiceMedian(candidate)
    IN  IF DOMAIN baseline = {} \/ DOMAIN candidate = {} THEN "NONE"
        ELSE IF Beyond(c - b, b) THEN "REGRESSED"
        ELSE IF Beyond(b - c, b) THEN "IMPROVED"
        ELSE "WITHIN"

(***************************************************************************)
(* The onset of a probe: where the profile has taken hold.  A recording is  *)
(* a sequence of latencies in ms, a lost message has none.                  *)
(***************************************************************************)
MinPoints == 12
Window == 6

Delivered(samples) == SelectSeq(samples, LAMBDA v : v # NoReading)

\* The sharpest upward step between the medians before and after an index,
\* counted in the messages before it.
StepOf(arrived) ==
    LET before(i) == TwiceMedian(SubSeq(arrived, i - Window + 1, i))
        after(i)  == TwiceMedian(SubSeq(arrived, i + 1, i + Window))
        inner     == Window..(Len(arrived) - Window - 1)
        sharper(i, j) == after(i) * before(j) > after(j) * before(i)
        sharpest  == {i \in inner : after(i) > before(i) /\ \A j \in inner : ~sharper(j, i)}
    IN  IF sharpest = {} THEN [low |-> 0, high |-> 0]
        ELSE LET i == CHOOSE i \in sharpest : \A j \in sharpest : i <= j
             IN  [low |-> before(i), high |-> after(i)]

\* Mutant: the level that counts as impaired is half of the step.
HalfWay(v, step) == 4 * v >= step.low + step.high

\* At least six tenths of the step above its foot; both levels are twice.
Impaired(v, step) == 10 * (2 * v - step.low) >= 6 * (step.high - step.low)

Holds(samples, i, step) ==
    LET ahead == i..(i + Window - 1)
    IN  10 * Cardinality({j \in ahead : samples[j] # NoReading /\ Impaired(samples[j], step)}) >= 7 * Window

\* The first message of the regime under test, or none: then nothing is excluded.
Onset(samples) ==
    LET arrived == Delivered(samples)
        step    == StepOf(arrived)
        onsets  == {i \in 1..(Len(samples) - Window + 1) :
                       samples[i] # NoReading /\ Impaired(samples[i], step) /\ Holds(samples, i, step)}
    IN  IF Len(arrived) < MinPoints \/ step.high < 3 * step.low \/ step.low = 0 \/ onsets = {}
        THEN 0
        ELSE CHOOSE i \in onsets : \A j \in onsets : i <= j

(***************************************************************************)
(* Properties                                                              *)
(***************************************************************************)
Knob == {"config", "qos", "hz", "size"} \union DOMAIN BaseNet

Under(p) ==
    [k \in Knob |-> CASE k \in {"config", "qos"} -> p.ran[k]
                      [] k \in {"hz", "size"}    -> p.case[k]
                      [] OTHER                   -> p.case.net[k]]

TurnedBy(axis) == {Turned[axis][i] : i \in 1..Len(Turned[axis])}

\* "Only random packet loss is varied", "only the config changes": the newest row
\* was measured under the value it names, and but for the knobs of its axis under
\* the session, the network and the load of every earlier row of the axis and of
\* the reference of the matrix, whatever the user's own roots hold and whatever
\* the cases before left behind.
OnlyTheAxisVaries ==
    points # <<>> =>
        LET newest == points[Len(points)]
            axis   == newest.case.axis
        IN  axis \in DOMAIN Turned =>
                /\ Under(newest)[Turned[axis][1]] = newest.case.value
                /\ \A p \in {points[i] : i \in DOMAIN points} : p.case.axis \in {axis, "reference"} =>
                       \A k \in Knob \ TurnedBy(axis) : Under(p)[k] = Under(newest)[k]

AllAre(outcome) == \A n \in 2..Len(Labels) : Judge(Labels[n]) = outcome

\* Whatever the host does from repeat to repeat, the runs of one repeat read the
\* same within the tolerance.
OnlyDrift ==
    /\ \A i \in DOMAIN points : points[i].read # NoReading
    /\ \A i, j \in DOMAIN points :
           (i - 1) \div Len(Labels) = (j - 1) \div Len(Labels) =>
               points[i].read - points[j].read <= AbsTolerance

\* All configurations read the same, but for one run of each.
OnlyBadLuck ==
    /\ AbRepeats > 2
    /\ \E x \in Readings : \A n \in DOMAIN Labels :
           Cardinality({i \in DOMAIN points :
               points[i].case.value = Labels[n] /\ points[i].read \notin x..(x + AbsTolerance)}) < 2

\* benchmark-ab.md: interleaving spreads a slow drift over every configuration,
\* and "one unlucky repeat cannot flip a cell": neither makes a candidate differ
\* from the baseline, while one whose every run is worse than every run of the
\* baseline, by more than the tolerance, has regressed.
VerdictIsFair ==
    genre = "ab" /\ stage = "written" =>
        /\ OnlyDrift \/ OnlyBadLuck => AllAre("WITHIN")
        /\ \A n \in 2..Len(Labels) :
               LET b == ReadingsOf(Labels[1])
                   c == ReadingsOf(Labels[n])
               IN  DOMAIN b # {} /\ DOMAIN c # {}
                   /\ (\A i \in DOMAIN b, j \in DOMAIN c : Beyond(2 * (c[j] - b[i]), 2 * b[i]))
                   => Judge(Labels[n]) = "REGRESSED"

\* A recording tells how many messages were sent before the profile was whole,
\* the calm ones and those it met half way.  What is excluded begins with all of
\* these and ends soon after; a profile that holds from the first message
\* excludes nothing; and a step of at least the ratio is found when a window of
\* calm messages precedes it and more than a window has arrived since.
OnsetIsClean ==
    genre = "probe" =>
        \A i \in DOMAIN points :
            LET r     == points[i].read
                early == r.calm + r.between
                whole == Delivered(SubSeq(r.samples, early + 1, Len(r.samples)))
            IN  /\ Onset(r.samples) # 0 => Onset(r.samples) \in (early + 1)..(early + Window)
                /\ early = 0 => Onset(r.samples) = 0
                /\ r.calm >= Window /\ Len(whole) > Window /\ r.high >= 3 * r.low => Onset(r.samples) # 0
================================================================================
