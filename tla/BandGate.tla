-------------------------------- MODULE BandGate --------------------------------
(***************************************************************************)
(* The regression gate: benchmark compare, row, ratchet and calibrate over  *)
(* the committed bands of one row of the benched set.  A band is an         *)
(* interval around a centre, lo = center - half and hi = center + half.     *)
(* Bands of two rows never meet, so one row is followed.  A batch stands    *)
(* for the result files of one command: the median of each metric they all  *)
(* carry and the spread between them.  The run of a row leaves a verdict    *)
(* document, and the summary of a lane is made from those of its rows.      *)
(***************************************************************************)
EXTENDS Integers, Sequences

CONSTANTS
    Metric,     \* what a run of the row measures
    Counts,     \* the metrics every run has that is not refused
    Higher,     \* the metrics of which more is better; of the others, less is
    Rows,       \* the registry's rows: their kind, the metrics each gates, in order, and the floors
    Runner,     \* runner classes
    Top,        \* levels are 0..Top
    Spread,     \* the standard deviations of a batch, in units of a level
    WidthFactor \* k of half-width = max(k * sigma, floor)

RowType == [kind : {"performance", "boundary", "replay"}, gates : Seq(Metric), floor : [Metric -> Nat]]

\* Only the row that replays a bag may gate no metric.
ASSUME BandGateAssumption ==
    /\ Rows \subseteq RowType
    /\ \A r \in Rows : r.kind # "replay" => r.gates # <<>>
    /\ Counts \subseteq Metric /\ Counts # {}
    /\ Top \in Nat
    /\ Spread \subseteq Nat
    /\ WidthFactor \in Nat

VARIABLES
    row,    \* the row that is gated
    bands,  \* the band store: the row's band of each metric, or none
    offer,  \* the batch of the ratchet command last printed for the store as it is
    past,   \* of each metric, the centres left by improvements banked since it was calibrated
    doc     \* the verdict document of the row's newest run, and how that run exited

gate == <<row, bands, offer, past, doc>>

Level == 0..Top
Batch == UNION {[runner : Runner, at : [M -> Level], spread : Spread] : M \in {S \in SUBSET Metric : Counts \subseteq S}}
Band  == [center : Level, half : Nat \ {0}, runner : Runner]

NoBand  == [none |-> "band"]
NoBatch == [none |-> "batch"]
Doc     == [verdict : {"RAN", "WITHIN", "REGRESSED", "IMPROVED", "REFUSED", "EXPECT_FAILED", "BOUNDARY_WIDENED"},
            code : 0..2, gates : BOOLEAN, exit : 0..2]
NoDoc   == [none |-> "document"]

GatedBy(r) == {r.gates[i] : i \in 1..Len(r.gates)}
Banded == {m \in Metric : bands[m] # NoBand}

GateInit ==
    /\ row \in Rows
    /\ bands = [m \in Metric |-> NoBand]
    /\ offer = NoBatch
    /\ past = [m \in Metric |-> {}]
    /\ doc = NoDoc

(***************************************************************************)
(* Verdicts                                                                *)
(***************************************************************************)
Worse(m, v, w) == IF m \in Higher THEN v < w ELSE v > w

WorseEdge(m, band)  == IF m \in Higher THEN band.center - band.half ELSE band.center + band.half
BetterEdge(m, band) == IF m \in Higher THEN band.center + band.half ELSE band.center - band.half

\* The interval is closed.
Regressed(m, v) == Worse(m, v, WorseEdge(m, bands[m]))
Improved(m, v)  == Worse(m, BetterEdge(m, bands[m]), v)

\* No band at all, a gated metric without one, a banded metric the runs do not
\* carry, a band of another runner class.
Refused(batch, required) ==
    \/ Banded = {}
    \/ ~(required \subseteq Banded)
    \/ \E m \in Banded : m \notin DOMAIN batch.at \/ bands[m].runner # batch.runner

\* Red for the better: some metric improved and none regressed.
Improvement(batch) ==
    /\ \A m \in Banded : ~Regressed(m, batch.at[m])
    /\ \E m \in Banded : Improved(m, batch.at[m])

Judged(verdict, code) == [verdict |-> verdict, code |-> code]

\* One red metric makes the row red; a regression is named before an improvement.
Banding(batch, required) ==
    CASE Refused(batch, required) -> Judged("REFUSED", 1)
      [] ~Refused(batch, required) /\ \E m \in Banded : Regressed(m, batch.at[m]) -> Judged("REGRESSED", 1)
      [] ~Refused(batch, required) /\ Improvement(batch) -> Judged("IMPROVED", 2)
      [] OTHER -> Judged("WITHIN", 0)

\* benchmark compare: nothing is required, nothing is written; an improvement is
\* answered with the command to bank it.
Compare(batch) ==
    /\ offer' = IF Banding(batch, {}).verdict = "IMPROVED" THEN batch ELSE NoBatch
    /\ UNCHANGED <<row, bands, past, doc>>

\* A boundary row within its bands must also satisfy its good oracle, and its bad
\* side must still fail as documented; a bad side that is good is an improvement.
BoundaryVerdict(v, outcome) ==
    CASE v.verdict # "WITHIN" \/ outcome = "as_documented" -> v
      [] v.verdict = "WITHIN" /\ outcome = "bad_is_good" -> Judged("BOUNDARY_WIDENED", 2)
      [] OTHER -> Judged("REGRESSED", 1)

\* Mutant: the verdict of a bag that did not arrive is written, its exit code is not.
BagVerdictOnly(v, outcome) ==
    CASE v.verdict = "REFUSED" -> v
      [] outcome = "incomplete" /\ v.code = 0 -> Judged("EXPECT_FAILED", 0)
      [] outcome = "arrived" /\ v.verdict = "RAN" -> Judged("WITHIN", 0)
      [] OTHER -> v

\* A replay row is judged against its bag as well, and by that alone while it
\* gates no metric.
BagVerdict(v, outcome) ==
    CASE v.verdict = "REFUSED" -> v
      [] outcome = "incomplete" /\ v.code = 0 -> Judged("EXPECT_FAILED", 1)
      [] outcome = "arrived" /\ v.verdict = "RAN" -> Judged("WITHIN", 0)
      [] OTHER -> v

\* What a kind of row asks of a run besides its bands.
Outcome(kind) ==
    CASE kind = "boundary" -> {"as_documented", "good_fails", "bad_is_good", "neither"}
      [] kind = "replay"   -> {"arrived", "incomplete"}
      [] OTHER             -> {"none"}

Verdict(batch, outcome) ==
    LET banding == IF row.gates = <<>> THEN Judged("RAN", 0) ELSE Banding(batch, GatedBy(row))
    IN  CASE row.kind = "boundary" -> BoundaryVerdict(banding, outcome)
          [] row.kind = "replay" -> BagVerdict(banding, outcome)
          [] OTHER -> banding

\* The document keeps the exit code also where --monitor exits with zero.
Write(judged, mode) ==
    doc' = [verdict |-> judged.verdict, code |-> judged.code, gates |-> mode = "gate",
            exit |-> IF mode = "monitor" THEN 0 ELSE judged.code]

\* benchmark row, judged: under --monitor too.
RunRow(batch, mode, outcome) ==
    LET judged == Verdict(batch, outcome)
    IN  /\ Write(judged, mode)
        /\ offer' = IF judged.verdict = "IMPROVED" THEN batch ELSE NoBatch
        /\ UNCHANGED <<row, bands, past>>

\* A calibration repeat (--no-compare) is not judged, but a run without counts
\* is refused in every mode.
RunUnjudged(verdict, code, mode) ==
    /\ Write(Judged(verdict, code), mode)
    /\ offer' = NoBatch
    /\ UNCHANGED <<row, bands, past>>

\* A row is red in the summary without a document, and with one that gates and
\* does not say within.
Red(d) == d = NoDoc \/ (d.gates /\ (d.verdict # "WITHIN" \/ d.code # 0))

(***************************************************************************)
(* The only commands that change a band                                    *)
(***************************************************************************)
\* Mutant: the better edge may not move back either, whichever way is better.
MayMoveStrictly(m, batch) ==
    /\ bands[m].runner = batch.runner
    /\ batch.at[m] >= bands[m].center

\* A plain ratchet keeps the width and the runner class, and its worse edge may
\* only move toward better.
MayMove(m, batch) ==
    /\ bands[m].runner = batch.runner
    /\ ~Worse(m, WorseEdge(m, [bands[m] EXCEPT !.center = batch.at[m]]), WorseEdge(m, bands[m]))

\* Mutant: the band is moved to the edge the run reached, not centred on it.
RecentredShort(m, batch) == [bands[m] EXCEPT !.center = (@ + batch.at[m]) \div 2]

Recentred(m, batch) == [bands[m] EXCEPT !.center = batch.at[m]]

\* All bands of the command are saved, or none.
Ratchet(batch, selected) ==
    LET moved == selected \cap Banded
    IN  /\ selected \subseteq DOMAIN batch.at
        /\ moved # {}
        /\ \A m \in moved : MayMove(m, batch)
        /\ bands' = [m \in Metric |-> IF m \in moved THEN Recentred(m, batch) ELSE bands[m]]
        /\ past' = [m \in Metric |->
               IF m \in moved /\ Improved(m, batch.at[m]) THEN past[m] \union {bands[m].center} ELSE past[m]]
        /\ offer' = NoBatch
        /\ UNCHANGED <<row, doc>>

\* Two percent of a centre, the default --floor-frac: nothing of zero.
FloorFraction(v) == IF v = 0 THEN 0 ELSE 1

Larger(a, b) == IF a > b THEN a ELSE b

Width(m, batch, floor) ==
    Larger(WidthFactor * batch.spread, Larger(floor, FloorFraction(batch.at[m])))

Mint(written, batch, floor) ==
    /\ bands' = [m \in Metric |->
           IF m \in written
           THEN [center |-> batch.at[m], half |-> Width(m, batch, floor[m]), runner |-> batch.runner]
           ELSE bands[m]]
    /\ past' = [m \in Metric |-> IF m \in written THEN {} ELSE past[m]]
    /\ offer' = NoBatch
    /\ UNCHANGED <<row, doc>>

NoFloor == [m \in Metric |-> 0]

\* ratchet --recalibrate: one metric without a width refuses them all.
Recalibrate(batch, selected) ==
    /\ selected # {} /\ selected \subseteq DOMAIN batch.at
    /\ \A m \in selected : Width(m, batch, 0) > 0
    /\ Mint(selected, batch, NoFloor)

\* calibrate: one recalibration for each gated metric, saved one by one, with
\* the row's floor; the first that fails ends the command.
Calibrate(batch) ==
    LET mints(m) == m \in DOMAIN batch.at /\ Width(m, batch, row.floor[m]) > 0
        written == {row.gates[i] : i \in {j \in 1..Len(row.gates) : \A k \in 1..j : mints(row.gates[k])}}
    IN  /\ written # {}
        /\ Mint(written, batch, row.floor)

\* benchmark gate-summary reads the documents; the next lane starts with none.
Summarize ==
    /\ doc # NoDoc
    /\ doc' = NoDoc
    /\ UNCHANGED <<row, bands, offer, past>>

Single == {b \in Batch : b.spread = 0}

\* A lane runs on one checkout of the store: it is summarized before a command
\* changes the store.  The run of a row is a single result, a calibration
\* several.
GateNext ==
    \/ Summarize
    \/ /\ doc = NoDoc
       /\ \/ \E batch \in Single :
                 \/ Compare(batch)
                 \/ \E mode \in {"gate", "monitor"}, outcome \in Outcome(row.kind) :
                        RunRow(batch, mode, outcome)
                 \/ \E selected \in SUBSET DOMAIN batch.at : Ratchet(batch, selected)
          \/ \E batch \in Batch :
                 \/ \E selected \in SUBSET DOMAIN batch.at : Recalibrate(batch, selected)
                 \/ row.kind # "boundary" /\ Calibrate(batch)
          \/ RunUnjudged("RAN", 0, "no_compare")
          \/ \E mode \in {"gate", "monitor", "no_compare"} : RunUnjudged("REFUSED", 1, mode)

(***************************************************************************)
(* Properties                                                              *)
(***************************************************************************)
GateTypeOK ==
    /\ row \in Rows
    /\ bands \in [Metric -> Band \union {NoBand}]
    /\ offer \in Batch \union {NoBatch}
    /\ past \in [Metric -> SUBSET Level]
    /\ doc \in Doc \union {NoDoc}

\* A banked improvement is kept: over any number of later ratchets the level it
\* came from stays a regression, until the metric is calibrated anew.
OldLevelsStayRed ==
    \A m \in Banded : \A v \in past[m] : Regressed(m, v)

\* The command printed for an improvement can be run: of a row with one band, as
\* every row of the committed registry has, it is not refused as a widening.
TheCommandBanks ==
    offer # NoBatch /\ (\A m, n \in Banded : m = n) =>
        \A m \in Banded : MayMove(m, offer)

\* The job of a row that gates and the summary of its lane agree: it is red in the
\* summary when, and only when, its command failed.
SummaryMatchesTheLane ==
    doc # NoDoc /\ doc.gates => (Red(doc) <=> doc.exit # 0)
================================================================================
