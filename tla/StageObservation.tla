--------------------------- MODULE StageObservation ---------------------------
(***************************************************************************)
(* The sequence accounting one status_overview observer keeps for one      *)
(* stage of a wrapped topic (StageObservation in status_overview_core.py): *)
(* running totals, the epoch, and the transit rows not yet drained.        *)
(*                                                                         *)
(* A frame is a record [run, seq].  The code sees only seq; run, the       *)
(* process of the wrapper that numbered it, is carried into the rows as a  *)
(* history field that no definition below branches on.                     *)
(***************************************************************************)
EXTENDS SequenceEpoch, FiniteSets

ReceiverStatus == {"delivered", "reordered", "lost"}
SenderStatus   == {"sent", "unobserved"}

TransitRow == [run : Nat, epoch : Nat, seq : Nat,
               status : ReceiverStatus \cup SenderStatus]

Observation == [expected_next_seq : Nat \cup {NoSeq},
                epoch             : Nat,
                msg_total         : Nat,
                total_expected    : Nat,
                total_missing     : Nat,
                total_reordered   : Nat,
                max_burst_missing : Nat,
                transit_records   : SUBSET TransitRow]

NewObservation == [expected_next_seq |-> NoSeq,
                   epoch             |-> 0,
                   msg_total         |-> 0,
                   total_expected    |-> 0,
                   total_missing     |-> 0,
                   total_reordered   |-> 0,
                   max_burst_missing |-> 0,
                   transit_records   |-> {}]

------------------------------------------------------------------------------
\* The four ways record() can read a sequence number.
Restarted(o, seq) == IsSequenceEpochReset(seq, o.expected_next_seq)
First(o)          == o.expected_next_seq = NoSeq
Late(o, seq)      == ~First(o) /\ seq < o.expected_next_seq /\ ~Restarted(o, seq)

Missing(o, seq) == IF First(o) \/ seq < o.expected_next_seq
                   THEN 0
                   ELSE seq - o.expected_next_seq

ExpectedDelta(o, seq) == IF Late(o, seq) THEN 0 ELSE 1 + Missing(o, seq)

EpochOf(o, seq) == IF Restarted(o, seq) THEN o.epoch + 1 ELSE o.epoch

\* Mutant: the first number of a gap is left out.
SkippedAfterBaseline(o, seq) == (seq - Missing(o, seq) + 1) .. (seq - 1)

Skipped(o, seq) == (seq - Missing(o, seq)) .. (seq - 1)

\* One row per sequence number the frame skipped, then the frame's own row.
\* The sender's own observer writes statuses the receiver never does.
RowsFor(o, frame, outbound) ==
    LET row(seq, status) == [run    |-> frame.run,
                             epoch  |-> EpochOf(o, frame.seq),
                             seq    |-> seq,
                             status |-> status]
    IN  {row(seq, IF outbound THEN "unobserved" ELSE "lost") :
             seq \in Skipped(o, frame.seq)}
        \cup {row(frame.seq, IF outbound THEN "sent"
                             ELSE IF Late(o, frame.seq) THEN "reordered"
                             ELSE "delivered")}

Record(o, frame, outbound) ==
    LET seq     == frame.seq
        missing == Missing(o, seq)
    IN  [expected_next_seq |-> IF Late(o, seq) THEN o.expected_next_seq ELSE seq + 1,
         epoch             |-> EpochOf(o, seq),
         msg_total         |-> o.msg_total + 1,
         total_expected    |-> o.total_expected + ExpectedDelta(o, seq),
         total_missing     |-> o.total_missing + missing,
         total_reordered   |-> o.total_reordered + (IF Late(o, seq) THEN 1 ELSE 0),
         max_burst_missing |-> IF missing > o.max_burst_missing
                               THEN missing ELSE o.max_burst_missing,
         transit_records   |-> o.transit_records \cup RowsFor(o, frame, outbound)]

DrainTransitRecords(o) == [o EXCEPT !.transit_records = {}]
===============================================================================
