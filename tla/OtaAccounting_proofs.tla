------------------------- MODULE OtaAccounting_proofs -------------------------
(***************************************************************************)
(* Proofs about OtaAccounting: for every bound, every tolerance and every  *)
(* behaviour of the link.                                                  *)
(***************************************************************************)
EXTENDS OtaAccounting, TLAPS, FiniteSetTheorems, FunctionTheorems

USE ToleranceAssumption, BoundsAssumption

------------------------------------------------------------------------------
(* Lemmas about the operators *)

\* The rows a frame adds are transit rows (StageObservation.record).
LEMMA RowsForType ==
    ASSUME NEW o \in Observation, NEW frame \in Frame, NEW outbound \in BOOLEAN
    PROVE  RowsFor(o, frame, outbound) \subseteq TransitRow
<1>1. frame.run \in Nat /\ frame.seq \in Nat
  BY DEF Frame
<1>2. EpochOf(o, frame.seq) \in Nat
  BY <1>1 DEF EpochOf, Observation
<1>3. Missing(o, frame.seq) \in Nat /\ Missing(o, frame.seq) <= frame.seq + 1
  BY <1>1 DEF Missing, First, Observation, NoSeq
<1>4. Missing(o, frame.seq) <= frame.seq
  BY <1>1, <1>3 DEF Missing, First, Observation, NoSeq
<1>5. Skipped(o, frame.seq) \subseteq Nat
  BY <1>1, <1>3, <1>4 DEF Skipped
<1> QED
  BY <1>1, <1>2, <1>5 DEF RowsFor, TransitRow, ReceiverStatus, SenderStatus

\* Recording a frame keeps the observation's type.
LEMMA RecordType ==
    ASSUME NEW o \in Observation, NEW frame \in Frame, NEW outbound \in BOOLEAN
    PROVE  Record(o, frame, outbound) \in Observation
<1>1. frame.seq \in Nat
  BY DEF Frame
<1>2. Missing(o, frame.seq) \in Nat
  BY <1>1 DEF Missing, First, Observation, NoSeq
<1>3. ExpectedDelta(o, frame.seq) \in Nat
  BY <1>2 DEF ExpectedDelta
<1>4. EpochOf(o, frame.seq) \in Nat
  BY DEF EpochOf, Observation
<1>5. o.transit_records \cup RowsFor(o, frame, outbound) \subseteq TransitRow
  BY RowsForType DEF Observation
<1> DEFINE r == Record(o, frame, outbound)
<1>6. /\ r.expected_next_seq \in Nat \cup {NoSeq}
      /\ r.msg_total \in Nat
      /\ r.total_expected \in Nat
      /\ r.total_missing \in Nat
      /\ r.total_reordered \in Nat
      /\ r.max_burst_missing \in Nat
  BY <1>1, <1>2, <1>3 DEF Record, Observation
<1>7. r.epoch \in Nat /\ r.transit_records \in SUBSET TransitRow
  BY <1>4, <1>5 DEF Record
<1> QED
  BY <1>6, <1>7 DEF Record, Observation

\* Draining keeps everything but the rows (drain_transit_records).
LEMMA DrainType ==
    ASSUME NEW o \in Observation
    PROVE  DrainTransitRecords(o) \in Observation
BY DEF DrainTransitRecords, Observation

------------------------------------------------------------------------------
(* Type correctness *)

\* The bookkeeping of both peers stays well typed: sequence numbers, totals
\* and epochs never go negative, for every order in which frames arrive.
THEOREM TypeCorrect == Spec => []TypeOK
<1>1. Init => TypeOK
  BY DEF Init, TypeOK, Side, Frame, NewObservation, Observation, NoSeq
<1>2. TypeOK /\ [Next]_vars => TypeOK'
  <2> SUFFICES ASSUME TypeOK, [Next]_vars PROVE TypeOK'
    OBVIOUS
  <2> USE DEF TypeOK
  <2>1. CASE Wrap
    <3> DEFINE frame == [run |-> run, seq |-> next_seq]
    <3>1. frame \in Frame
      BY DEF Frame
    <3>2. Record(obs["com_out"], frame, TRUE) \in Observation
      BY <3>1, RecordType DEF Side
    <3>3. obs' \in [Side -> Observation]
      BY <2>1, <3>2 DEF Wrap, Side
    <3>4. link' \subseteq Frame
      BY <2>1, <3>1 DEF Wrap
    <3>5. next_seq' \in Nat
      BY <2>1 DEF Wrap
    <3>6. UNCHANGED <<run, breadcrumb, events, failed_writes, heard, arrived>>
      BY <2>1 DEF Wrap
    <3> QED
      BY <3>3, <3>4, <3>5, <3>6
  <2>2. CASE PeerRestart
    <3>1. NewObservation \in Observation
      BY DEF NewObservation, Observation, NoSeq
    <3> QED
      BY <2>2, <3>1 DEF PeerRestart, Side
  <2>3. ASSUME NEW frame \in link, Lose(frame) PROVE TypeOK'
    BY <2>3 DEF Lose
  <2>4. ASSUME NEW frame \in link, Deliver(frame) PROVE TypeOK'
    <3>1. frame \in Frame /\ frame.seq \in Nat /\ frame.run \in 1..MaxRun
      BY DEF Frame
    <3>2. Record(obs["com_in"], frame, FALSE) \in Observation
      BY <3>1, RecordType DEF Side
    <3>3. obs' \in [Side -> Observation]
      BY <2>4, <3>2 DEF Deliver, Side
    <3>4. breadcrumb' \in [last_seq : Nat \cup {NoSeq}, restarts : Nat]
      BY <2>4, <3>1 DEF Deliver, CheckSequence
    <3>5. heard' \in [run : 0..MaxRun, high : Nat \cup {NoSeq}]
      BY <2>4, <3>1 DEF Deliver
    <3> QED
      BY <2>4, <3>1, <3>3, <3>4, <3>5 DEF Deliver
  <2>5. ASSUME NEW s \in Side, WriteStatus(s) PROVE TypeOK'
    <3>1. obs[s].transit_records \subseteq TransitRow
      BY DEF Observation
    <3> QED
      BY <2>5, <3>1, DrainType DEF WriteStatus
  <2>6. ASSUME NEW s \in Side, WriteStatusFails(s) PROVE TypeOK'
    BY <2>6, DrainType DEF WriteStatusFails
  <2>7. CASE UNCHANGED vars
    BY <2>7 DEF vars
  <2> QED
    BY <2>1, <2>2, <2>3, <2>4, <2>5, <2>6, <2>7 DEF Next
<1> QED
  BY <1>1, <1>2, PTL DEF Spec

------------------------------------------------------------------------------
(* The epoch *)

\* EpochFollowsRun is not inductive: whether the next frame is read as a
\* restart depends on how far the last run was heard.  The receiver is at most
\* one run behind, a run it has not heard the end of was heard up to MinRun,
\* and its baseline is one past the highest number heard.
EpochInv ==
    /\ heard.run \in {run - 1, run}
    /\ heard.run = 0 => /\ obs["com_in"].expected_next_seq = NoSeq
                        /\ obs["com_in"].epoch = 0
    /\ heard.run > 0 => /\ heard.high \in Nat
                        /\ obs["com_in"].expected_next_seq = heard.high + 1
                        /\ obs["com_in"].epoch = heard.run - 1
    /\ (heard.run > 0 /\ heard.run < run) => heard.high >= MinRun
    /\ \A f \in link : f.run <= run /\ f.seq >= FirstMatched

\* A frame of the run being heard is never read as a restart, a frame of the
\* next run always is (the rule of is_sequence_epoch_reset, under FieldOrder).
LEMMA ResetIsARestart ==
    ASSUME FieldOrder, TypeOK, EpochInv, NEW frame \in link, InOrderEnough(frame),
           heard.run > 0
    PROVE  Restarted(obs["com_in"], frame.seq) <=> frame.run > heard.run
<1>1. /\ frame.run \in Nat /\ frame.seq \in Nat
      /\ heard.run \in Nat /\ heard.high \in Nat /\ run \in Nat
  BY DEF TypeOK, Frame, EpochInv
<1>2. /\ obs["com_in"].expected_next_seq = heard.high + 1
      /\ frame.seq > 0
      /\ frame.run <= run
  BY <1>1 DEF EpochInv, FieldOrder
<1>3. CASE frame.run = heard.run
  <2>1. heard.high + 1 - frame.seq <= Tolerance
    BY <1>1, <1>3 DEF InOrderEnough, FieldOrder
  <2> QED
    BY <1>1, <1>2, <1>3, <2>1 DEF Restarted, IsSequenceEpochReset
<1>4. CASE frame.run > heard.run
  <2>1. heard.high >= MinRun /\ frame.seq <= LastMatched
    BY <1>1, <1>2, <1>4 DEF EpochInv, InOrderEnough
  <2>2. heard.high + 1 - frame.seq > Tolerance
    BY <1>1, <2>1 DEF FieldOrder
  <2> QED
    BY <1>1, <1>2, <1>4, <2>2 DEF Restarted, IsSequenceEpochReset, NoSeq
<1> QED
  BY <1>1, <1>3, <1>4 DEF InOrderEnough

\* What one delivery does to the receiver's baseline and epoch.
LEMMA DeliverKeepsEpochInv ==
    ASSUME FieldOrder, TypeOK, EpochInv, NEW frame \in link, Deliver(frame)
    PROVE  EpochInv'
<1> DEFINE o == obs["com_in"]
           seq == frame.seq
<1>1. /\ frame.run \in 1..MaxRun /\ seq \in Nat /\ o \in Observation
      /\ heard.run \in Nat /\ run \in Nat
  BY DEF TypeOK, Frame, Side
<1>2. obs'["com_in"] = Record(o, frame, FALSE)
  BY DEF Deliver, TypeOK, Side
<1>3. /\ obs'["com_in"].expected_next_seq = IF Late(o, seq) THEN o.expected_next_seq ELSE seq + 1
      /\ obs'["com_in"].epoch = EpochOf(o, seq)
  BY <1>2 DEF Record
<1>4. /\ heard'.run = frame.run
      /\ heard'.high = IF frame.run = heard.run /\ seq < heard.high THEN heard.high ELSE seq
      /\ run' = run /\ link' \subseteq link
  BY DEF Deliver
<1>5. frame.run <= run /\ frame.run >= heard.run
  BY DEF EpochInv, Deliver, InOrderEnough
<1>6. CASE heard.run = 0
  <2>1. First(o) /\ o.epoch = 0 /\ ~Restarted(o, seq) /\ run = 1
    BY <1>1, <1>6, <1>5 DEF EpochInv, First, Restarted, IsSequenceEpochReset
  <2>2. ~Late(o, seq)
    BY <2>1 DEF Late
  <2> QED
    BY <1>1, <1>3, <1>4, <1>5, <1>6, <2>1, <2>2 DEF EpochInv, EpochOf
<1>7. CASE heard.run > 0 /\ frame.run = heard.run
  <2>1. ~Restarted(o, seq)
    BY <1>1, <1>7, ResetIsARestart DEF Deliver
  <2>2. heard.high \in Nat /\ o.expected_next_seq = heard.high + 1 /\ o.epoch = heard.run - 1
    BY <1>7 DEF EpochInv
  <2>3. Late(o, seq) <=> seq <= heard.high
    BY <1>1, <2>1, <2>2 DEF Late, First, NoSeq
  <2>4. obs'["com_in"].expected_next_seq = heard'.high + 1
    BY <1>1, <1>3, <1>4, <1>7, <2>2, <2>3
  <2>5. obs'["com_in"].epoch = heard'.run - 1
    BY <1>3, <1>4, <1>7, <2>1, <2>2 DEF EpochOf
  <2>6. heard'.high \in Nat /\ heard'.high >= heard.high
    BY <1>1, <1>4, <1>7, <2>2
  <2> QED
    BY <1>1, <1>4, <1>7, <2>2, <2>4, <2>5, <2>6 DEF EpochInv
<1>8. CASE heard.run > 0 /\ frame.run > heard.run
  <2>1. Restarted(o, seq) /\ ~Late(o, seq)
    BY <1>1, <1>8, ResetIsARestart DEF Deliver, Late
  <2>2. frame.run = run /\ frame.run = heard.run + 1
    BY <1>1, <1>5, <1>8 DEF EpochInv
  <2>3. obs'["com_in"].epoch = heard'.run - 1
    BY <1>1, <1>3, <1>4, <1>8, <2>1, <2>2 DEF EpochInv, EpochOf
  <2> QED
    BY <1>1, <1>3, <1>4, <1>8, <2>1, <2>2, <2>3 DEF EpochInv
<1> QED
  BY <1>1, <1>5, <1>6, <1>7, <1>8

\* The strengthened invariant holds initially and through every step.
LEMMA EpochInvInductive == ASSUME FieldOrder PROVE Spec => [](TypeOK /\ EpochInv)
<1>1. Init => EpochInv
  BY DEF Init, EpochInv, NewObservation, Side
<1>2. TypeOK /\ EpochInv /\ [Next]_vars => EpochInv'
  <2> SUFFICES ASSUME TypeOK, EpochInv, [Next]_vars PROVE EpochInv'
    OBVIOUS
  <2>0. /\ obs \in [Side -> Observation] /\ run \in Nat /\ next_seq \in Nat
        /\ heard.run \in Nat /\ "com_in" \in Side /\ "com_out" \in Side
    BY DEF TypeOK, Side
  <2>1. CASE Wrap
    <3>1. obs'["com_in"] = obs["com_in"] /\ run' = run /\ heard' = heard
      BY <2>0, <2>1 DEF Wrap
    <3>2. \A f \in link' : f.run <= run /\ f.seq >= FirstMatched
      BY <2>0, <2>1 DEF Wrap, EpochInv
    <3> QED
      BY <3>1, <3>2 DEF EpochInv
  <2>2. CASE PeerRestart
    <3>1. obs'["com_in"] = obs["com_in"] /\ run' = run + 1 /\ heard' = heard /\ link' = link
      BY <2>0, <2>2 DEF PeerRestart
    <3>2. heard.run = run /\ heard.high >= MinRun
      BY <2>2 DEF PeerRestart
    <3>3. \A f \in link' : f.run <= run' /\ f.seq >= FirstMatched
      BY <2>0, <3>1 DEF EpochInv, TypeOK, Frame
    <3> QED
      BY <2>0, <3>1, <3>2, <3>3 DEF EpochInv
  <2>3. ASSUME NEW frame \in link, Lose(frame) PROVE EpochInv'
    BY <2>3 DEF Lose, EpochInv
  <2>4. ASSUME NEW frame \in link, Deliver(frame) PROVE EpochInv'
    BY <2>4, DeliverKeepsEpochInv
  <2>5. ASSUME NEW s \in Side, WriteStatus(s) \/ WriteStatusFails(s) PROVE EpochInv'
    <3>1. /\ obs'["com_in"].expected_next_seq = obs["com_in"].expected_next_seq
          /\ obs'["com_in"].epoch = obs["com_in"].epoch
      BY <2>0, <2>5 DEF WriteStatus, WriteStatusFails, DrainTransitRecords, Observation
    <3>2. UNCHANGED <<run, link, heard>>
      BY <2>5 DEF WriteStatus, WriteStatusFails
    <3> QED
      BY <3>1, <3>2 DEF EpochInv
  <2>6. CASE UNCHANGED vars
    BY <2>6 DEF vars, EpochInv
  <2> QED
    BY <2>1, <2>2, <2>3, <2>4, <2>5, <2>6 DEF Next
<1> QED
  BY <1>1, <1>2, TypeCorrect, PTL DEF Spec

\* With the order the field instance has, a receiver's epoch is the number of
\* restarts of the peer it has heard from, for every tolerance, reordering
\* depth and run length that keep that order.
THEOREM EpochCorrect == ASSUME FieldOrder PROVE Spec => []EpochFollowsRun
<1>1. TypeOK /\ EpochInv => EpochFollowsRun
  BY DEF EpochInv, EpochFollowsRun, TypeOK
<1> QED
  BY <1>1, EpochInvInductive, PTL

------------------------------------------------------------------------------
(* The rows of the receiver *)

\* Draining moves rows to the file and changes nothing else.
SameCounters(o2, o) ==
    /\ o2.expected_next_seq = o.expected_next_seq
    /\ o2.epoch = o.epoch
    /\ o2.total_expected = o.total_expected
    /\ o2.total_missing = o.total_missing
    /\ o2.total_reordered = o.total_reordered

\* A delivery adds the frame's rows to what the receiver has recorded; no other
\* step does, and only a failing write takes rows away.
LEMMA RecordedSteps ==
    ASSUME TypeOK, [Next]_vars
    PROVE  \/ \E s \in Side : WriteStatusFails(s)
           \/ \E frame \in link :
                 /\ Deliver(frame)
                 /\ obs'["com_in"] = Record(obs["com_in"], frame, FALSE)
                 /\ Recorded("com_in")' = Recorded("com_in")
                                          \cup RowsFor(obs["com_in"], frame, FALSE)
                 /\ arrived' = arrived \cup {frame}
                 /\ failed_writes' = failed_writes
           \/ /\ SameCounters(obs'["com_in"], obs["com_in"])
              /\ Recorded("com_in")' = Recorded("com_in")
              /\ UNCHANGED <<arrived, failed_writes>>
<1>0. /\ obs \in [Side -> Observation] /\ events \in [Side -> SUBSET TransitRow]
      /\ "com_in" \in Side /\ "com_out" \in Side
  BY DEF TypeOK, Side
<1>1. CASE Wrap
  BY <1>0, <1>1 DEF Wrap, Recorded, SameCounters
<1>2. CASE PeerRestart
  BY <1>0, <1>2 DEF PeerRestart, Recorded, SameCounters
<1>3. ASSUME NEW frame \in link, Lose(frame)
      PROVE  /\ UNCHANGED <<obs, events, arrived, failed_writes>>
  BY <1>3 DEF Lose
<1>4. ASSUME NEW frame \in link, Deliver(frame)
      PROVE  /\ obs'["com_in"] = Record(obs["com_in"], frame, FALSE)
             /\ Recorded("com_in")' = Recorded("com_in")
                                      \cup RowsFor(obs["com_in"], frame, FALSE)
             /\ arrived' = arrived \cup {frame}
             /\ failed_writes' = failed_writes
  <2>1. obs'["com_in"] = Record(obs["com_in"], frame, FALSE) /\ events' = events
    BY <1>0, <1>4 DEF Deliver
  <2>2. obs'["com_in"].transit_records
          = obs["com_in"].transit_records \cup RowsFor(obs["com_in"], frame, FALSE)
    BY <2>1 DEF Record
  <2> QED
    BY <1>4, <2>1, <2>2 DEF Deliver, Recorded
<1>5. ASSUME NEW s \in Side, WriteStatus(s)
      PROVE  /\ SameCounters(obs'["com_in"], obs["com_in"])
             /\ Recorded("com_in")' = Recorded("com_in")
             /\ UNCHANGED <<arrived, failed_writes>>
  <2>1. CASE s = "com_in"
    BY <1>0, <1>5, <2>1 DEF WriteStatus, DrainTransitRecords, Recorded, Observation, SameCounters
  <2>2. CASE s # "com_in"
    BY <1>0, <1>5, <2>2 DEF WriteStatus, Recorded, SameCounters
  <2> QED
    BY <1>5, <2>1, <2>2 DEF WriteStatus
<1>6. CASE UNCHANGED vars
  BY <1>6 DEF vars, Recorded, SameCounters
<1> QED
  BY <1>1, <1>2, <1>3, <1>4, <1>5, <1>6 DEF Next, Recorded, SameCounters

\* A failing write is counted, so it leaves the properties' hypothesis.
LEMMA FailureIsCounted ==
    ASSUME TypeOK, NEW s \in Side, WriteStatusFails(s)
    PROVE  failed_writes' # 0
BY DEF TypeOK, WriteStatusFails

------------------------------------------------------------------------------
(* Gaps *)

\* GapsAreAccounted, of any set of rows.
GapsHaveRows(rows) ==
    \A a, b \in {r \in rows : r.status = "delivered"} :
        a.epoch = b.epoch =>
            \A seq \in a.seq .. b.seq : <<a.epoch, seq>> \in Keys(rows)

\* What is added to make it inductive: rows belong to the epochs begun so far,
\* and in the current one everything from any frame that arrived in its turn up
\* to the baseline has a row.
RowsReachBaseline(o, rows) ==
    /\ \A r \in rows : r.epoch <= o.epoch
    /\ o.expected_next_seq = NoSeq => rows = {}
    /\ \A r \in rows : (r.status = "delivered" /\ r.epoch = o.epoch) =>
          /\ r.seq < o.expected_next_seq
          /\ \A seq \in r.seq .. (o.expected_next_seq - 1) :
                <<o.epoch, seq>> \in Keys(rows)

GapInv ==
    failed_writes = 0 =>
        /\ RowsReachBaseline(obs["com_in"], Recorded("com_in"))
        /\ GapsHaveRows(Recorded("com_in"))

\* A frame that arrives in its turn, after one of its epoch, closes the gap
\* between the baseline and itself.
LEMMA RecordKeepsGapInv ==
    ASSUME NEW o \in Observation, NEW frame \in Frame, NEW rows \in SUBSET TransitRow,
           RowsReachBaseline(o, rows), GapsHaveRows(rows)
    PROVE  LET rows2 == rows \cup RowsFor(o, frame, FALSE)
           IN  /\ RowsReachBaseline(Record(o, frame, FALSE), rows2)
               /\ GapsHaveRows(rows2)
<1> DEFINE s == frame.seq
           e == EpochOf(o, s)
           new == RowsFor(o, frame, FALSE)
           rows2 == rows \cup new
           o2 == Record(o, frame, FALSE)
<1>1. s \in Nat /\ frame.run \in Nat /\ o.epoch \in Nat /\ e \in Nat
      /\ o.expected_next_seq \in Nat \cup {NoSeq}
  BY DEF Frame, Observation, EpochOf
<1>2. /\ o2.epoch = e
      /\ o2.expected_next_seq = IF Late(o, s) THEN o.expected_next_seq ELSE s + 1
  BY DEF Record
<1>3. Keys(rows) \subseteq Keys(rows2) /\ Keys(new) \subseteq Keys(rows2)
  BY DEF Keys
<1>4. \A r \in rows2 : r.epoch \in Nat /\ r.seq \in Nat
  BY RowsForType DEF TransitRow
<1>5. \A r \in new : r.epoch = e
  BY DEF RowsFor
<1>6. \A r \in new : r.status = "delivered" => ~Late(o, s) /\ r.seq = s
  BY DEF RowsFor
<1>7. e = o.epoch \/ (e = o.epoch + 1 /\ Restarted(o, s))
  BY DEF EpochOf
<1>8. <<e, s>> \in Keys(new) /\ \A seq \in Skipped(o, s) : <<e, seq>> \in Keys(new)
  <2> DEFINE own == [run |-> frame.run, epoch |-> e, seq |-> s,
                     status |-> IF Late(o, s) THEN "reordered" ELSE "delivered"]
             gap(seq) == [run |-> frame.run, epoch |-> e, seq |-> seq, status |-> "lost"]
  <2>1. own \in new
    BY DEF RowsFor
  <2>2. \A seq \in Skipped(o, s) : gap(seq) \in new
    BY DEF RowsFor
  <2>3. \A r \in new : <<r.epoch, r.seq>> \in Keys(new)
    BY DEF Keys
  <2>4. own.epoch = e /\ own.seq = s
    OBVIOUS
  <2>5. \A seq : gap(seq).epoch = e /\ gap(seq).seq = seq
    OBVIOUS
  <2> HIDE DEF own, gap, new, e, s
  <2> QED
    BY <2>1, <2>2, <2>3, <2>4, <2>5
<1> HIDE DEF s, e, new, rows2, o2
<1>9. o2.expected_next_seq \in Nat
  BY <1>1, <1>2 DEF Late, First
<1>10. \A r \in rows2 : r.epoch <= o2.epoch
  <2>1. \A r \in rows : r.epoch <= o.epoch
    BY DEF RowsReachBaseline
  <2>2. \A r \in rows2 : r \in rows \/ r \in new
    BY DEF rows2
  <2> QED
    BY <1>1, <1>2, <1>4, <1>5, <1>7, <2>1, <2>2
<1>11. ASSUME NEW r \in rows2, r.status = "delivered", r.epoch = e
       PROVE  /\ r.seq < o2.expected_next_seq
              /\ \A seq \in r.seq .. (o2.expected_next_seq - 1) : <<e, seq>> \in Keys(rows2)
  <2>0. r.seq \in Nat /\ (r \in rows \/ r \in new)
    BY <1>4 DEF rows2
  <2>1. CASE r \in new
    <3>1. r.seq = s /\ o2.expected_next_seq = s + 1
      BY <1>2, <1>6, <1>11, <2>1
    <3>2. \A seq \in r.seq .. (o2.expected_next_seq - 1) : seq = s
      BY <1>1, <3>1
    <3> QED
      BY <1>1, <1>3, <1>8, <3>1, <3>2
  <2>2. CASE r \in rows
    <3>1. ~Restarted(o, s) /\ e = o.epoch
      <4>1. r.epoch <= o.epoch
        BY <2>2 DEF RowsReachBaseline
      <4> QED
        BY <1>1, <1>7, <1>11, <4>1 DEF EpochOf, e
    <3>2. o.expected_next_seq \in Nat
      BY <1>1, <2>2 DEF RowsReachBaseline
    <3>3. /\ r.seq < o.expected_next_seq
          /\ \A seq \in r.seq .. (o.expected_next_seq - 1) : <<e, seq>> \in Keys(rows2)
      BY <1>3, <1>11, <2>2, <3>1 DEF RowsReachBaseline
    <3>4. CASE Late(o, s)
      BY <1>2, <3>3, <3>4
    <3>5. CASE ~Late(o, s)
      <4>1. o2.expected_next_seq = s + 1
        BY <1>2, <3>5
      <4>2. s >= o.expected_next_seq
        BY <1>1, <3>1, <3>2, <3>5 DEF Late, First, NoSeq
      <4>3. Skipped(o, s) = o.expected_next_seq .. (s - 1)
        BY <1>1, <3>2, <4>2 DEF Skipped, Missing, First, NoSeq
      <4>4. \A seq \in r.seq .. (o2.expected_next_seq - 1) :
                \/ seq \in r.seq .. (o.expected_next_seq - 1)
                \/ seq \in Skipped(o, s)
                \/ seq = s
        <5> SUFFICES ASSUME NEW seq \in r.seq .. (o2.expected_next_seq - 1),
                            seq # s, seq \notin Skipped(o, s)
                     PROVE  seq \in r.seq .. (o.expected_next_seq - 1)
          OBVIOUS
        <5>1. s \in Int /\ r.seq \in Int /\ o.expected_next_seq \in Int
          BY <1>1, <2>0, <3>2
        <5>2. seq \in Int /\ r.seq <= seq /\ seq <= s
          BY <4>1, <5>1
        <5>3. ~(o.expected_next_seq <= seq /\ seq <= s - 1)
          BY <4>3, <5>1, <5>2
        <5> QED
          BY <5>1, <5>2, <5>3
      <4>5. r.seq < o2.expected_next_seq
        BY <1>1, <2>0, <3>2, <3>3, <4>1, <4>2
      <4> QED
        BY <1>3, <1>8, <3>3, <4>4, <4>5
    <3> QED
      BY <3>4, <3>5
  <2> QED
    BY <2>0, <2>1, <2>2
<1>12. ASSUME NEW a \in rows2, NEW b \in rows2,
              a.status = "delivered", b.status = "delivered", a.epoch = b.epoch,
              NEW seq \in a.seq .. b.seq
       PROVE  <<a.epoch, seq>> \in Keys(rows2)
  <2>0. a.seq \in Nat /\ b.seq \in Nat
    BY <1>4
  <2>1. CASE a.epoch = e
    <3>1. b.seq < o2.expected_next_seq
      BY <1>11, <1>12, <2>1
    <3>2. seq \in a.seq .. (o2.expected_next_seq - 1)
      BY <1>9, <2>0, <3>1
    <3> QED
      BY <1>11, <1>12, <2>1, <3>2
  <2>2. CASE a.epoch # e
    <3>1. a \in rows /\ b \in rows
      BY <1>5, <1>12, <2>2 DEF rows2
    <3> QED
      BY <1>3, <1>12, <3>1 DEF GapsHaveRows
  <2> QED
    BY <2>1, <2>2
<1>13. RowsReachBaseline(o2, rows2)
  BY <1>2, <1>9, <1>10, <1>11 DEF RowsReachBaseline, NoSeq
<1>14. GapsHaveRows(rows2)
  BY <1>12 DEF GapsHaveRows
<1> QED
  BY <1>13, <1>14 DEF rows2, new, o2

\* Between two frames that arrived in their turn in one epoch no number is
\* forgotten.  Nothing is assumed of the link: it may reorder without bound,
\* and a restart may be mistaken for anything.
THEOREM NoGapIsForgotten == Spec => []GapsAreAccounted
<1>1. Init => GapInv
  BY DEF Init, GapInv, RowsReachBaseline, GapsHaveRows, Recorded, NewObservation, Side
<1>2. TypeOK /\ GapInv /\ [Next]_vars => GapInv'
  <2> SUFFICES ASSUME TypeOK, GapInv, [Next]_vars PROVE GapInv'
    OBVIOUS
  <2>1. ASSUME NEW s \in Side, WriteStatusFails(s) PROVE GapInv'
    BY <2>1, FailureIsCounted DEF GapInv
  <2>2. ASSUME NEW frame \in link,
               obs'["com_in"] = Record(obs["com_in"], frame, FALSE),
               Recorded("com_in")' = Recorded("com_in") \cup RowsFor(obs["com_in"], frame, FALSE),
               failed_writes' = failed_writes
        PROVE  GapInv'
    <3>1. /\ frame \in Frame /\ obs["com_in"] \in Observation
          /\ Recorded("com_in") \in SUBSET TransitRow
      BY DEF TypeOK, Side, Recorded, Observation
    <3> QED
      BY <2>2, <3>1, RecordKeepsGapInv DEF GapInv
  <2>3. ASSUME SameCounters(obs'["com_in"], obs["com_in"]),
               Recorded("com_in")' = Recorded("com_in"),
               UNCHANGED failed_writes
        PROVE  GapInv'
    BY <2>3 DEF GapInv, RowsReachBaseline, SameCounters
  <2> QED
    BY <2>1, <2>2, <2>3, RecordedSteps
<1>3. GapInv => GapsAreAccounted
  BY DEF GapInv, GapsHaveRows, GapsAreAccounted
<1> QED
  BY <1>1, <1>2, <1>3, TypeCorrect, PTL DEF Spec

------------------------------------------------------------------------------
(* The join *)

\* The join keeps the richest status: of the rows of a key, the status that
\* survives is one of theirs and ranks no lower than any (join_transit_records).
LEMMA JoinedIsTheRichest ==
    ASSUME NEW rows \in SUBSET TransitRow, NEW key, NEW r \in RowsAt(rows, key)
    PROVE  /\ JoinedStatus(rows, key) \in ReceiverStatus \cup SenderStatus
           /\ \E q \in RowsAt(rows, key) : q.status = JoinedStatus(rows, key)
           /\ StatusRank[JoinedStatus(rows, key)] >= StatusRank[r.status]
<1> DEFINE seen == {q.status : q \in RowsAt(rows, key)}
           richest(t) == \A u \in seen : StatusRank[t] >= StatusRank[u]
<1>1. seen \subseteq {"delivered", "reordered", "lost", "sent", "unobserved"}
  BY DEF RowsAt, TransitRow, ReceiverStatus, SenderStatus
<1>2. r.status \in seen
  OBVIOUS
<1>3. /\ StatusRank["delivered"] = 2 /\ StatusRank["reordered"] = 1
      /\ StatusRank["lost"] = 0
      /\ StatusRank["sent"] = -1 /\ StatusRank["unobserved"] = -1
  BY DEF StatusRank
<1> HIDE DEF seen
<1>4. \E t \in seen : richest(t)
  <2>1. CASE "delivered" \in seen
    BY <1>1, <1>3, <2>1
  <2>2. CASE "delivered" \notin seen /\ "reordered" \in seen
    BY <1>1, <1>3, <2>2
  <2>3. CASE "delivered" \notin seen /\ "reordered" \notin seen /\ "lost" \in seen
    BY <1>1, <1>3, <2>3
  <2>4. CASE seen \subseteq {"sent", "unobserved"}
    <3>1. \A u \in seen : StatusRank[u] = -1
      BY <1>3, <2>4
    <3>2. richest(r.status)
      BY <1>2, <3>1
    <3> QED
      BY <1>2, <3>2
  <2> QED
    BY <1>1, <2>1, <2>2, <2>3, <2>4
<1>5. JoinedStatus(rows, key) \in seen /\ richest(JoinedStatus(rows, key))
  <2>1. JoinedStatus(rows, key) = CHOOSE t \in seen : richest(t)
    BY DEF JoinedStatus, seen
  <2> HIDE DEF richest
  <2> QED
    BY <1>4, <2>1
<1>6. \E q \in RowsAt(rows, key) : q.status = JoinedStatus(rows, key)
  BY <1>5 DEF seen
<1> QED
  BY <1>1, <1>2, <1>5, <1>6 DEF ReceiverStatus, SenderStatus

\* Every frame that arrived has a row that says so, under the epoch of its run.
ArrivalInv ==
    failed_writes = 0 =>
        \A frame \in arrived :
            \E r \in Recorded("com_in") :
                /\ r.epoch = frame.run - 1
                /\ r.seq = frame.seq
                /\ r.status \in {"delivered", "reordered"}

LEMMA ArrivalInvInductive == ASSUME FieldOrder PROVE Spec => []ArrivalInv
<1>1. Init => ArrivalInv
  BY DEF Init, ArrivalInv
<1>2. TypeOK /\ EpochInv /\ EpochInv' /\ ArrivalInv /\ [Next]_vars => ArrivalInv'
  <2> SUFFICES ASSUME TypeOK, EpochInv, EpochInv', ArrivalInv, [Next]_vars
               PROVE  ArrivalInv'
    OBVIOUS
  <2>1. ASSUME NEW s \in Side, WriteStatusFails(s) PROVE ArrivalInv'
    BY <2>1, FailureIsCounted DEF ArrivalInv
  <2>2. ASSUME NEW frame \in link, Deliver(frame),
               obs'["com_in"] = Record(obs["com_in"], frame, FALSE),
               Recorded("com_in")' = Recorded("com_in") \cup RowsFor(obs["com_in"], frame, FALSE),
               arrived' = arrived \cup {frame},
               failed_writes' = failed_writes
        PROVE  ArrivalInv'
    <3> DEFINE o == obs["com_in"]
               own == [run |-> frame.run, epoch |-> EpochOf(o, frame.seq), seq |-> frame.seq,
                       status |-> IF Late(o, frame.seq) THEN "reordered" ELSE "delivered"]
    <3>1. own \in Recorded("com_in")'
      BY <2>2 DEF RowsFor
    <3>2. EpochOf(o, frame.seq) = frame.run - 1
      <4>1. heard'.run = frame.run /\ frame.run > 0
        BY <2>2 DEF Deliver, TypeOK, Frame
      <4>2. obs'["com_in"].epoch = frame.run - 1
        BY <4>1 DEF EpochInv
      <4> QED
        BY <2>2, <4>2 DEF Record
    <3>3. own.epoch = frame.run - 1 /\ own.seq = frame.seq
          /\ own.status \in {"delivered", "reordered"}
      BY <3>2
    <3> HIDE DEF own
    <3> QED
      BY <2>2, <3>1, <3>3 DEF ArrivalInv
  <2>3. ASSUME Recorded("com_in")' = Recorded("com_in"), UNCHANGED <<arrived, failed_writes>>
        PROVE  ArrivalInv'
    BY <2>3 DEF ArrivalInv
  <2> QED
    BY <2>1, <2>2, <2>3, RecordedSteps
<1> QED
  BY <1>1, <1>2, EpochInvInductive, PTL DEF Spec

\* A message the joined record calls lost never arrived, and one that arrived is
\* delivered or reordered: for every interleaving of deliveries and ticks, as
\* long as the tick's write does not fail.
THEOREM LossIsReal == ASSUME FieldOrder PROVE Spec => []LostNeverArrived
<1>1. TypeOK /\ ArrivalInv => LostNeverArrived
  <2> SUFFICES ASSUME TypeOK, ArrivalInv, failed_writes = 0, NEW frame \in arrived
               PROVE  LET key == <<frame.run - 1, frame.seq>>
                      IN  /\ key \in Keys(Recorded("com_in"))
                          /\ JoinedStatus(Recorded("com_in"), key) \in {"delivered", "reordered"}
    BY DEF LostNeverArrived
  <2> DEFINE key == <<frame.run - 1, frame.seq>>
  <2>1. PICK r \in Recorded("com_in") :
            /\ r.epoch = frame.run - 1
            /\ r.seq = frame.seq
            /\ r.status \in {"delivered", "reordered"}
    BY DEF ArrivalInv
  <2>2. key \in Keys(Recorded("com_in"))
    BY <2>1 DEF Keys
  <2>3. r \in RowsAt(Recorded("com_in"), key)
    BY <2>1 DEF RowsAt
  <2>4. Recorded("com_in") \in SUBSET TransitRow
    BY DEF TypeOK, Side, Recorded, Observation
  <2>5. /\ JoinedStatus(Recorded("com_in"), key) \in ReceiverStatus \cup SenderStatus
        /\ StatusRank[JoinedStatus(Recorded("com_in"), key)] >= StatusRank[r.status]
    BY <2>3, <2>4, JoinedIsTheRichest
  <2>6. JoinedStatus(Recorded("com_in"), key) \in {"delivered", "reordered"}
    <3> HIDE DEF key
    <3> QED
      BY <2>1, <2>5 DEF StatusRank, ReceiverStatus, SenderStatus
  <2> QED
    BY <2>2, <2>6
<1> QED
  BY <1>1, ArrivalInvInductive, TypeCorrect, PTL

------------------------------------------------------------------------------
(* The running totals of the receiver's observer agree with its rows        *)

With(rows, status) == {r \in rows : r.status = status}

\* The totals of an observation are the numbers of rows of each status.
Totalled(o, rows) ==
    /\ o.total_expected = Cardinality(With(rows, "delivered"))
                          + Cardinality(With(rows, "lost"))
    /\ o.total_missing = Cardinality(With(rows, "lost"))
    /\ o.total_reordered = Cardinality(With(rows, "reordered"))

\* Rows are of epochs begun so far, and the numbers of the current one that
\* were delivered in turn or skipped are behind the baseline: what the next
\* frame adds is new.
RowsBehindBaseline(o, rows) ==
    /\ IsFiniteSet(rows)
    /\ o.expected_next_seq = NoSeq => rows = {}
    /\ \A r \in rows : r.epoch <= o.epoch
    /\ \A r \in rows : (r.epoch = o.epoch /\ r.status # "reordered") =>
                           r.seq < o.expected_next_seq

\* A frame came late only once.
LateArrived(rows, frames) ==
    \A r \in rows : r.status = "reordered" => [run |-> r.run, seq |-> r.seq] \in frames

------------------------------------------------------------------------------
\* One row per skipped number.
LEMMA GapRows ==
    ASSUME NEW o \in Observation, NEW frame \in Frame
    PROVE  LET lost == With(RowsFor(o, frame, FALSE), "lost")
           IN  IsFiniteSet(lost) /\ Cardinality(lost) = Missing(o, frame.seq)
<1> DEFINE s == frame.seq
           gap(seq) == [run |-> frame.run, epoch |-> EpochOf(o, s), seq |-> seq,
                        status |-> "lost"]
           lost == With(RowsFor(o, frame, FALSE), "lost")
           toRow == [seq \in Skipped(o, s) |-> gap(seq)]
<1>1. s \in Nat /\ Missing(o, s) \in Nat /\ Missing(o, s) <= s + 1
  BY DEF Frame, Missing, First, Observation, NoSeq
<1>2. lost = {gap(seq) : seq \in Skipped(o, s)}
  BY DEF RowsFor, With
<1>3. IsFiniteSet(Skipped(o, s)) /\ Cardinality(Skipped(o, s)) = Missing(o, s)
  <2>1. s - Missing(o, s) \in Int /\ s - 1 \in Int
    BY <1>1
  <2>2. /\ IsFiniteSet(Skipped(o, s))
        /\ Cardinality(Skipped(o, s)) = IF s - Missing(o, s) > s - 1 THEN 0
                                        ELSE (s - 1) - (s - Missing(o, s)) + 1
    BY <2>1, FS_Interval DEF Skipped
  <2> QED
    BY <1>1, <2>2
<1>4. ExistsBijection(Skipped(o, s), lost)
  <2>1. toRow \in [Skipped(o, s) -> lost]
    BY <1>2
  <2>2. \A a, b \in Skipped(o, s) : toRow[a] = toRow[b] => a = b
    OBVIOUS
  <2>3. \A t \in lost : \E a \in Skipped(o, s) : toRow[a] = t
    BY <1>2
  <2> HIDE DEF toRow, lost
  <2>4. toRow \in Bijection(Skipped(o, s), lost)
    BY <2>1, <2>2, <2>3, Fun_IsBij
  <2> QED
    BY <2>4 DEF ExistsBijection
<1> QED
  BY <1>3, <1>4, FS_Bijection

\* The frame's own row.
LEMMA OwnRow ==
    ASSUME NEW o \in Observation, NEW frame \in Frame
    PROVE  LET new == RowsFor(o, frame, FALSE)
           IN  /\ IF Late(o, frame.seq)
                  THEN \E q : With(new, "reordered") = {q} /\ With(new, "delivered") = {}
                              /\ q.run = frame.run /\ q.seq = frame.seq
                  ELSE \E q : With(new, "delivered") = {q} /\ With(new, "reordered") = {}
               /\ new = With(new, "delivered") \cup With(new, "reordered")
                        \cup With(new, "lost")
<1> DEFINE s == frame.seq
           new == RowsFor(o, frame, FALSE)
           own == [run |-> frame.run, epoch |-> EpochOf(o, s), seq |-> s,
                   status |-> IF Late(o, s) THEN "reordered" ELSE "delivered"]
<1>1. CASE Late(o, s)
  <2>1. With(new, "reordered") = {own} /\ With(new, "delivered") = {}
    BY <1>1 DEF RowsFor, With
  <2>2. own.run = frame.run /\ own.seq = s
    OBVIOUS
  <2>3. \A r \in new : r.status \in {"reordered", "lost"}
    BY <1>1 DEF RowsFor
  <2> HIDE DEF own, new
  <2> QED
    BY <1>1, <2>1, <2>2, <2>3 DEF With, new
<1>2. CASE ~Late(o, s)
  <2>1. With(new, "delivered") = {own} /\ With(new, "reordered") = {}
    BY <1>2 DEF RowsFor, With
  <2>2. \A r \in new : r.status \in {"delivered", "lost"}
    BY <1>2 DEF RowsFor
  <2> HIDE DEF own, new
  <2> QED
    BY <1>2, <2>1, <2>2 DEF With, new
<1> QED
  BY <1>1, <1>2

\* Rows of one status, when a disjoint set of rows is added.
LEMMA WithAdds ==
    ASSUME NEW rows, NEW new, NEW status, IsFiniteSet(rows), IsFiniteSet(With(new, status)),
           With(rows, status) \cap With(new, status) = {}
    PROVE  Cardinality(With(rows \cup new, status))
               = Cardinality(With(rows, status)) + Cardinality(With(new, status))
<1>1. IsFiniteSet(With(rows, status))
  <2>1. With(rows, status) \in SUBSET rows
    BY DEF With
  <2> QED
    BY <2>1, FS_Subset
<1>2. With(rows \cup new, status) = With(rows, status) \cup With(new, status)
  BY DEF With
<1>3. /\ Cardinality(With(rows, status)) \in Nat
      /\ Cardinality(With(new, status)) \in Nat
  BY <1>1, FS_CardinalityType
<1>4. Cardinality(With(rows, status) \cap With(new, status)) = 0
  BY FS_EmptySet
<1>5. Cardinality(With(rows, status) \cup With(new, status))
          = Cardinality(With(rows, status)) + Cardinality(With(new, status))
            - Cardinality(With(rows, status) \cap With(new, status))
  BY <1>1, FS_Union
<1> DEFINE old == Cardinality(With(rows, status))
           added == Cardinality(With(new, status))
<1>6. Cardinality(With(rows \cup new, status)) = old + added - 0
  BY <1>2, <1>4, <1>5
<1>7. old + added - 0 = old + added
  <2> HIDE DEF old, added
  <2> QED
    BY <1>3 DEF old, added
<1> QED
  BY <1>6, <1>7

------------------------------------------------------------------------------
\* Recording a frame that has not arrived before keeps totals and rows equal,
\* whether it is in turn, late, or read as a restart.
LEMMA RecordKeepsTotals ==
    ASSUME NEW o \in Observation, NEW frame \in Frame, NEW rows \in SUBSET TransitRow,
           NEW frames, Totalled(o, rows), RowsBehindBaseline(o, rows),
           LateArrived(rows, frames), frame \notin frames
    PROVE  LET rows2 == rows \cup RowsFor(o, frame, FALSE)
           IN  /\ Totalled(Record(o, frame, FALSE), rows2)
               /\ RowsBehindBaseline(Record(o, frame, FALSE), rows2)
               /\ LateArrived(rows2, frames \cup {frame})
<1> DEFINE s == frame.seq
           e == EpochOf(o, s)
           m == Missing(o, s)
           new == RowsFor(o, frame, FALSE)
           rows2 == rows \cup new
           o2 == Record(o, frame, FALSE)
<1>1. /\ s \in Nat /\ o.epoch \in Nat /\ e \in Nat
      /\ o.expected_next_seq \in Nat \cup {NoSeq}
      /\ m \in Nat /\ m <= s
      /\ o.total_expected \in Nat /\ o.total_missing \in Nat /\ o.total_reordered \in Nat
      /\ frame = [run |-> frame.run, seq |-> s]
  BY DEF Frame, Observation, EpochOf, Missing, First, NoSeq
<1>2. /\ o2.epoch = e
      /\ o2.expected_next_seq = IF Late(o, s) THEN o.expected_next_seq ELSE s + 1
      /\ o2.total_expected = o.total_expected + IF Late(o, s) THEN 0 ELSE 1 + m
      /\ o2.total_missing = o.total_missing + m
      /\ o2.total_reordered = o.total_reordered + (IF Late(o, s) THEN 1 ELSE 0)
  BY DEF Record, ExpectedDelta
<1>3. e = o.epoch \/ (e = o.epoch + 1 /\ Restarted(o, s))
  BY DEF EpochOf
<1>4. \A r \in new : /\ r.epoch = e
                     /\ r.status = "delivered" => ~Late(o, s) /\ r.seq = s
                     /\ r.status = "reordered" => Late(o, s) /\ r.seq = s /\ r.run = frame.run
                     /\ r.status = "lost" => r.seq \in Skipped(o, s)
                     /\ r.status \in {"delivered", "reordered", "lost"}
  BY DEF RowsFor
<1>5. \A r \in rows2 : r.epoch \in Nat /\ r.seq \in Nat
  BY RowsForType DEF TransitRow
<1>6. Late(o, s) => m = 0 /\ e = o.epoch
  BY <1>1 DEF Late, Missing, EpochOf
<1>7. /\ IsFiniteSet(With(new, "delivered")) /\ IsFiniteSet(With(new, "reordered"))
      /\ IsFiniteSet(With(new, "lost"))
      /\ Cardinality(With(new, "delivered")) = (IF Late(o, s) THEN 0 ELSE 1)
      /\ Cardinality(With(new, "reordered")) = (IF Late(o, s) THEN 1 ELSE 0)
      /\ Cardinality(With(new, "lost")) = m
  <2>1. IsFiniteSet(With(new, "lost")) /\ Cardinality(With(new, "lost")) = m
    BY GapRows
  <2>2. IF Late(o, s)
        THEN (\E q : With(new, "reordered") = {q}) /\ With(new, "delivered") = {}
        ELSE (\E q : With(new, "delivered") = {q}) /\ With(new, "reordered") = {}
    BY OwnRow
  <2> HIDE DEF s, m, new
  <2>3. /\ \A S : (\E q : S = {q}) => IsFiniteSet(S) /\ Cardinality(S) = 1
        /\ \A S : S = {} => IsFiniteSet(S) /\ Cardinality(S) = 0
    <3>1. \A q : IsFiniteSet({q}) /\ Cardinality({q}) = 1
      BY FS_Singleton
    <3>2. IsFiniteSet({}) /\ Cardinality({}) = 0
      BY FS_EmptySet
    <3> QED
      BY <3>1, <3>2, Zenon
  <2>4. CASE Late(o, s)
    BY <2>1, <2>2, <2>3, <2>4
  <2>5. CASE ~Late(o, s)
    BY <2>1, <2>2, <2>3, <2>5
  <2> QED
    BY <2>4, <2>5
<1>8. IsFiniteSet(new)
  <2>1. new = With(new, "delivered") \cup With(new, "reordered") \cup With(new, "lost")
    BY OwnRow
  <2> HIDE DEF new
  <2>2. IsFiniteSet(With(new, "delivered") \cup With(new, "reordered"))
    BY <1>7, FS_Union
  <2>3. IsFiniteSet(With(new, "delivered") \cup With(new, "reordered") \cup With(new, "lost"))
    BY <1>7, <2>2, FS_Union
  <2> QED
    BY <2>1, <2>3
<1> HIDE DEF s, e, m, new, rows2, o2
<1>9. IsFiniteSet(rows)
  BY DEF RowsBehindBaseline
<1>10. ASSUME NEW r \in rows, r \in new, r.status # "reordered" PROVE FALSE
  <2>1. r.epoch <= o.epoch /\ r.epoch = e /\ r.epoch \in Nat /\ r.seq \in Nat
    BY <1>4, <1>5, <1>10 DEF RowsBehindBaseline, rows2
  <2>2. e = o.epoch /\ ~Restarted(o, s)
    BY <1>1, <1>3, <2>1 DEF EpochOf, e
  <2>3. r.seq < o.expected_next_seq /\ o.expected_next_seq \in Nat
    BY <1>1, <1>10, <2>1, <2>2 DEF RowsBehindBaseline
  <2>4. CASE r.status = "delivered"
    BY <1>1, <1>4, <1>10, <2>2, <2>3, <2>4 DEF Late, First, NoSeq
  <2>5. CASE r.status = "lost"
    <3>1. r.seq \in Skipped(o, s)
      BY <1>4, <1>10, <2>5
    <3>2. s >= o.expected_next_seq
      BY <1>1, <2>3, <3>1 DEF Skipped, Missing, First, NoSeq, s
    <3>3. Skipped(o, s) = o.expected_next_seq .. (s - 1)
      <4>1. Missing(o, s) = s - o.expected_next_seq
        BY <1>1, <2>3, <3>2 DEF Missing, First, NoSeq
      <4> QED
        BY <1>1, <2>3, <4>1 DEF Skipped
    <3> QED
      BY <2>1, <2>3, <3>1, <3>3
  <2> QED
    BY <1>4, <1>10, <2>4, <2>5
<1>11. ASSUME NEW r \in rows, r \in new, r.status = "reordered" PROVE FALSE
  BY <1>1, <1>4, <1>11 DEF LateArrived
<1>12. /\ Cardinality(With(rows2, "delivered")) = Cardinality(With(rows, "delivered"))
                                                  + Cardinality(With(new, "delivered"))
       /\ Cardinality(With(rows2, "reordered")) = Cardinality(With(rows, "reordered"))
                                                  + Cardinality(With(new, "reordered"))
       /\ Cardinality(With(rows2, "lost")) = Cardinality(With(rows, "lost"))
                                             + Cardinality(With(new, "lost"))
  <2>1. /\ With(rows, "delivered") \cap With(new, "delivered") = {}
        /\ With(rows, "reordered") \cap With(new, "reordered") = {}
        /\ With(rows, "lost") \cap With(new, "lost") = {}
    BY <1>10, <1>11 DEF With
  <2> QED
    BY <1>7, <1>9, <2>1, WithAdds DEF rows2
<1>13. Totalled(o2, rows2)
  <2>1. /\ Cardinality(With(rows, "delivered")) \in Nat
        /\ Cardinality(With(rows, "reordered")) \in Nat
        /\ Cardinality(With(rows, "lost")) \in Nat
    <3>1. /\ With(rows, "delivered") \in SUBSET rows
          /\ With(rows, "reordered") \in SUBSET rows
          /\ With(rows, "lost") \in SUBSET rows
      BY DEF With
    <3> QED
      BY <1>9, <3>1, FS_Subset, FS_CardinalityType
  <2> QED
    BY <1>1, <1>2, <1>6, <1>7, <1>12, <2>1 DEF Totalled
<1>14. RowsBehindBaseline(o2, rows2)
  <2>1. IsFiniteSet(rows2)
    BY <1>8, <1>9, FS_Union DEF rows2
  <2>2. o2.expected_next_seq \in Nat
    BY <1>1, <1>2 DEF Late, First
  <2>3. \A r \in rows2 : r.epoch <= o2.epoch
    <3>1. \A r \in rows : r.epoch <= o.epoch
      BY DEF RowsBehindBaseline
    <3> QED
      BY <1>1, <1>2, <1>3, <1>4, <1>5, <3>1 DEF rows2
  <2>4. ASSUME NEW r \in rows2, r.epoch = o2.epoch, r.status # "reordered"
        PROVE  r.seq < o2.expected_next_seq
    <3>1. r.seq \in Nat /\ r.epoch = e
      BY <1>2, <1>5, <2>4
    <3>2. CASE r \in new
      <4>1. CASE Late(o, s)
        <5>1. r.seq \in Skipped(o, s)
          BY <1>4, <2>4, <3>2, <4>1
        <5>2. Skipped(o, s) = {}
          BY <1>1, <1>6, <4>1 DEF Skipped, m
        <5> QED
          BY <5>1, <5>2
      <4>2. CASE ~Late(o, s)
        <5>1. r.seq = s \/ r.seq \in Skipped(o, s)
          BY <1>4, <2>4, <3>2
        <5>2. r.seq <= s
          BY <1>1, <5>1 DEF Skipped, m
        <5> QED
          BY <1>1, <1>2, <3>1, <4>2, <5>2
      <4> QED
        BY <4>1, <4>2
    <3>3. CASE r \in rows
      <4>1. r.epoch <= o.epoch
        BY <3>3 DEF RowsBehindBaseline
      <4>2. e = o.epoch /\ ~Restarted(o, s)
        BY <1>1, <1>3, <3>1, <4>1 DEF EpochOf, e
      <4>3. r.seq < o.expected_next_seq /\ o.expected_next_seq \in Nat
        BY <1>1, <2>4, <3>1, <3>3, <4>2 DEF RowsBehindBaseline
      <4>4. ~Late(o, s) => s >= o.expected_next_seq
        BY <1>1, <4>2, <4>3 DEF Late, First, NoSeq
      <4> QED
        BY <1>1, <1>2, <3>1, <4>3, <4>4
    <3> QED
      BY <3>2, <3>3 DEF rows2
  <2> QED
    BY <2>1, <2>2, <2>3, <2>4 DEF RowsBehindBaseline, NoSeq
<1>15. LateArrived(rows2, frames \cup {frame})
  BY <1>1, <1>4 DEF LateArrived, rows2
<1> QED
  BY <1>13, <1>14, <1>15 DEF rows2, new, o2

------------------------------------------------------------------------------
\* A frame on the link has not arrived yet, and no process numbers two frames
\* alike: the next one it wraps is new.
FreshFrames ==
    /\ link \cap arrived = {}
    /\ \A f \in link \cup arrived : f.run < run \/ (f.run = run /\ f.seq < next_seq)

LEMMA FreshFramesInductive == Spec => []FreshFrames
<1>1. Init => FreshFrames
  BY DEF Init, FreshFrames
<1>2. TypeOK /\ FreshFrames /\ [Next]_vars => FreshFrames'
  <2> SUFFICES ASSUME TypeOK, FreshFrames, [Next]_vars PROVE FreshFrames'
    OBVIOUS
  <2>0. /\ run \in Nat /\ next_seq \in Nat
        /\ \A f \in link \cup arrived : f.run \in Nat /\ f.seq \in Nat
    BY DEF TypeOK, Frame
  <2>1. CASE Wrap
    <3> DEFINE frame == [run |-> run, seq |-> next_seq]
    <3>1. frame \notin arrived
      BY <2>0 DEF FreshFrames
    <3>2. link' \subseteq link \cup {frame} /\ arrived' = arrived
          /\ run' = run /\ next_seq' = next_seq + 1
      BY <2>1 DEF Wrap
    <3>3. frame.run = run /\ frame.seq = next_seq
      OBVIOUS
    <3>4. link' \cap arrived' = {}
      BY <3>1, <3>2 DEF FreshFrames
    <3> HIDE DEF frame
    <3>5. \A f \in link' \cup arrived' : f.run < run' \/ (f.run = run' /\ f.seq < next_seq')
      BY <2>0, <3>2, <3>3 DEF FreshFrames
    <3> QED
      BY <3>4, <3>5 DEF FreshFrames
  <2>2. CASE PeerRestart
    BY <2>0, <2>2 DEF PeerRestart, FreshFrames
  <2>3. ASSUME NEW frame \in link, Lose(frame) \/ Deliver(frame) PROVE FreshFrames'
    <3>1. /\ link' = link \ {frame} /\ arrived' \subseteq arrived \cup {frame}
          /\ run' = run /\ next_seq' = next_seq
      BY <2>3 DEF Lose, Deliver
    <3> QED
      BY <3>1 DEF FreshFrames
  <2>4. ASSUME NEW s \in Side, WriteStatus(s) \/ WriteStatusFails(s) PROVE FreshFrames'
    BY <2>4 DEF WriteStatus, WriteStatusFails, FreshFrames
  <2>5. CASE UNCHANGED vars
    BY <2>5 DEF vars, FreshFrames
  <2> QED
    BY <2>1, <2>2, <2>3, <2>4, <2>5 DEF Next
<1> QED
  BY <1>1, <1>2, TypeCorrect, PTL DEF Spec

\* What makes TotalsMatchRows inductive: rows added by the next frame are new
\* rows, because gaps and deliveries lie behind the baseline and late frames
\* arrive once.
TotalsInv ==
    failed_writes = 0 =>
        /\ Totalled(obs["com_in"], Recorded("com_in"))
        /\ RowsBehindBaseline(obs["com_in"], Recorded("com_in"))
        /\ LateArrived(Recorded("com_in"), arrived)

\* The totals a peer's status reports (loss_total_pct is their ratio) count
\* exactly the rows of its event file: whatever the link loses, delays and
\* reorders, and however often the sending peer restarts.
THEOREM TotalsAreRows == Spec => []TotalsMatchRows
<1>1. Init => TotalsInv
  <2> SUFFICES ASSUME Init PROVE TotalsInv
    OBVIOUS
  <2>1. /\ Recorded("com_in") = {} /\ arrived = {} /\ obs["com_in"] = NewObservation
    BY DEF Init, Recorded, NewObservation, Side
  <2>2. \A status : With({}, status) = {}
    BY DEF With
  <2>3. Totalled(NewObservation, {})
    BY <2>2, FS_EmptySet DEF Totalled, NewObservation
  <2> QED
    BY <2>1, <2>3, FS_EmptySet DEF TotalsInv, RowsBehindBaseline, LateArrived
<1>2. TypeOK /\ FreshFrames /\ TotalsInv /\ [Next]_vars => TotalsInv'
  <2> SUFFICES ASSUME TypeOK, FreshFrames, TotalsInv, [Next]_vars PROVE TotalsInv'
    OBVIOUS
  <2>1. ASSUME NEW s \in Side, WriteStatusFails(s) PROVE TotalsInv'
    BY <2>1, FailureIsCounted DEF TotalsInv
  <2>2. ASSUME NEW frame \in link,
               obs'["com_in"] = Record(obs["com_in"], frame, FALSE),
               Recorded("com_in")' = Recorded("com_in") \cup RowsFor(obs["com_in"], frame, FALSE),
               arrived' = arrived \cup {frame},
               failed_writes' = failed_writes
        PROVE  TotalsInv'
    <3>1. /\ frame \in Frame /\ obs["com_in"] \in Observation
          /\ Recorded("com_in") \in SUBSET TransitRow
          /\ frame \notin arrived
      BY DEF TypeOK, Side, Recorded, Observation, FreshFrames
    <3> QED
      BY <2>2, <3>1, RecordKeepsTotals DEF TotalsInv
  <2>3. ASSUME SameCounters(obs'["com_in"], obs["com_in"]),
               Recorded("com_in")' = Recorded("com_in"),
               UNCHANGED <<arrived, failed_writes>>
        PROVE  TotalsInv'
    BY <2>3 DEF TotalsInv, Totalled, RowsBehindBaseline, LateArrived, SameCounters
  <2> QED
    BY <2>1, <2>2, <2>3, RecordedSteps
<1>3. TotalsInv => TotalsMatchRows
  BY DEF TotalsInv, Totalled, With, TotalsMatchRows
<1> QED
  BY <1>1, <1>2, <1>3, TypeCorrect, FreshFramesInductive, PTL DEF Spec

------------------------------------------------------------------------------
(* The unwrapper's log *)

\* BreadcrumbAgrees is not inductive: the two baselines are not the same number.
\* The log's is the last frame heard, which lies at most the reordering below
\* the highest; the observer's is one past the highest.
BaselineInv ==
    /\ breadcrumb.restarts = obs["com_in"].epoch
    /\ heard.run = 0 => breadcrumb.last_seq = NoSeq
    /\ heard.run > 0 => /\ breadcrumb.last_seq \in Nat
                        /\ breadcrumb.last_seq <= heard.high
                        /\ breadcrumb.last_seq + ReorderDepth >= heard.high

\* From either baseline a delivery is read as a restart or it is not
\* (_check_sequence and StageObservation.record, under LogOrder).
LEMMA DeliverKeepsBaseline ==
    ASSUME FieldOrder, LogOrder, TypeOK, EpochInv, BaselineInv,
           NEW frame \in link, Deliver(frame)
    PROVE  BaselineInv'
<1> DEFINE o == obs["com_in"]
           s == frame.seq
           last == breadcrumb.last_seq
           expected == IF last = NoSeq THEN NoSeq ELSE last + 1
<1>1. /\ frame.run \in Nat /\ s \in Nat /\ s > 0
      /\ heard.run \in Nat /\ o.epoch \in Nat
      /\ frame.run >= heard.run /\ frame.run > 0
      /\ ReorderDepth \in Nat /\ MinRun \in Nat /\ LastMatched \in Nat /\ Tolerance \in Nat
  BY DEF TypeOK, Frame, Side, Observation, EpochInv, FieldOrder, Deliver, InOrderEnough
<1>2. /\ breadcrumb'.last_seq = s
      /\ breadcrumb'.restarts = breadcrumb.restarts
                                + (IF IsSequenceEpochReset(s, expected) THEN 1 ELSE 0)
      /\ heard'.run = frame.run
      /\ heard'.high = IF frame.run = heard.run /\ s < heard.high THEN heard.high ELSE s
  BY DEF Deliver, CheckSequence
<1>3. obs'["com_in"].epoch = IF Restarted(o, s) THEN o.epoch + 1 ELSE o.epoch
  <2>1. obs'["com_in"] = Record(o, frame, FALSE)
    BY DEF Deliver, TypeOK, Side
  <2> QED
    BY <2>1 DEF Record, EpochOf
<1>4. /\ heard'.high \in Nat /\ s <= heard'.high /\ s + ReorderDepth >= heard'.high
  <2>1. CASE frame.run = heard.run
    <3>1. heard.high \in Nat /\ s + ReorderDepth >= heard.high
      BY <1>1, <2>1 DEF EpochInv, Deliver, InOrderEnough
    <3> QED
      BY <1>1, <1>2, <3>1
  <2>2. CASE frame.run # heard.run
    BY <1>1, <1>2, <2>2
  <2> QED
    BY <2>1, <2>2
<1>5. IsSequenceEpochReset(s, expected) <=> Restarted(o, s)
  <2>1. CASE heard.run = 0
    BY <2>1 DEF BaselineInv, EpochInv, Restarted, IsSequenceEpochReset
  <2>2. CASE heard.run > 0
    <3>1. /\ heard.high \in Nat /\ last \in Nat /\ expected = last + 1
          /\ last <= heard.high /\ last + ReorderDepth >= heard.high
      BY <2>2 DEF EpochInv, BaselineInv, NoSeq
    <3>2. Restarted(o, s) <=> frame.run > heard.run
      BY <2>2, ResetIsARestart DEF Deliver
    <3>3. CASE frame.run = heard.run
      <4>1. s + ReorderDepth >= heard.high /\ ReorderDepth < Tolerance
        BY <3>3 DEF Deliver, InOrderEnough, FieldOrder
      <4>2. last + 1 - s <= Tolerance
        BY <1>1, <3>1, <4>1
      <4> QED
        BY <1>1, <3>1, <3>2, <3>3, <4>2 DEF IsSequenceEpochReset
    <3>4. CASE frame.run > heard.run
      <4>1. frame.run <= run /\ heard.run < run
        BY <1>1, <3>4 DEF EpochInv, TypeOK
      <4>2. heard.high >= MinRun /\ s <= LastMatched
        BY <2>2, <3>4, <4>1 DEF EpochInv, Deliver, InOrderEnough
      <4>3. MinRun + 1 > LastMatched + Tolerance + ReorderDepth
        BY DEF LogOrder
      <4>4. last + 1 - s > Tolerance
        BY <1>1, <3>1, <4>2, <4>3
      <4> QED
        BY <1>1, <3>1, <3>2, <3>4, <4>4 DEF IsSequenceEpochReset, NoSeq
    <3> QED
      BY <1>1, <3>3, <3>4
  <2> QED
    BY <1>1, <2>1, <2>2
<1> HIDE DEF o, s, last, expected
<1>6. breadcrumb'.restarts = obs'["com_in"].epoch
  BY <1>1, <1>2, <1>3, <1>5 DEF BaselineInv, o
<1> QED
  BY <1>1, <1>2, <1>4, <1>6 DEF BaselineInv

\* The restarts the unwrapper warns of are the epochs the observer counts, for
\* every loss, delay and reordering the transport keeps within LogOrder; below
\* it a last frame that came out of order hides the restart from the log alone.
THEOREM TheLogAgrees == ASSUME FieldOrder, LogOrder PROVE Spec => []BreadcrumbAgrees
<1>1. Init => BaselineInv
  BY DEF Init, BaselineInv, NewObservation, Side
<1>2. TypeOK /\ EpochInv /\ BaselineInv /\ [Next]_vars => BaselineInv'
  <2> SUFFICES ASSUME TypeOK, EpochInv, BaselineInv, [Next]_vars PROVE BaselineInv'
    OBVIOUS
  <2>1. ASSUME NEW frame \in link, Deliver(frame) PROVE BaselineInv'
    BY <2>1, DeliverKeepsBaseline
  <2>2. ASSUME ~ \E frame \in link : Deliver(frame) PROVE BaselineInv'
    <3>1. UNCHANGED <<breadcrumb, heard>>
      BY <2>2 DEF Next, Wrap, PeerRestart, Lose, WriteStatus, WriteStatusFails, vars
    <3>2. obs'["com_in"].epoch = obs["com_in"].epoch
      <4>1. CASE \E s \in Side : WriteStatusFails(s)
        BY <4>1 DEF WriteStatusFails, DrainTransitRecords, TypeOK, Side, Observation
      <4>2. CASE ~ \E s \in Side : WriteStatusFails(s)
        BY <2>2, <4>2, RecordedSteps DEF SameCounters
      <4> QED
        BY <4>1, <4>2
    <3> QED
      BY <3>1, <3>2 DEF BaselineInv
  <2> QED
    BY <2>1, <2>2
<1>3. BaselineInv => BreadcrumbAgrees
  BY DEF BaselineInv, BreadcrumbAgrees
<1> QED
  BY <1>1, <1>2, <1>3, EpochInvInductive, PTL DEF Spec

------------------------------------------------------------------------------
(* The rows of both files *)

\* What the joined record can be read by.  A row of the sender's file never says
\* what became of a message; a row of the receiver's carries the process its
\* epoch stands for, and, unless it says lost, a frame that arrived.
RowsInv ==
    /\ \A r \in Recorded("com_out") : r.status \in SenderStatus
    /\ \A r \in Recorded("com_in") :
          /\ r.status \in ReceiverStatus
          /\ r.run = r.epoch + 1
          /\ r.status # "lost" => [run |-> r.run, seq |-> r.seq] \in arrived
    /\ IsFiniteSet(arrived)

\* The rows one record adds, of either observer.
LEMMA RowsSay ==
    ASSUME NEW o, NEW frame \in Frame, NEW outbound \in BOOLEAN,
           NEW r \in RowsFor(o, frame, outbound)
    PROVE  /\ r.run = frame.run /\ r.epoch = EpochOf(o, frame.seq)
           /\ outbound => r.status \in SenderStatus
           /\ ~outbound => /\ r.status \in ReceiverStatus
                           /\ r.status # "lost" => r.seq = frame.seq
BY DEF RowsFor, SenderStatus, ReceiverStatus

\* No step adds a row to the sender's file but a frame it wrapped, and a tick
\* that cannot write adds none to either.
LEMMA RecordedGrows ==
    ASSUME TypeOK, [Next]_vars
    PROVE  /\ \A r \in Recorded("com_out")' \ Recorded("com_out") :
                 Wrap /\ r \in RowsFor(obs["com_out"], [run |-> run, seq |-> next_seq], TRUE)
           /\ \A s \in Side : WriteStatusFails(s) =>
                 Recorded("com_in")' \subseteq Recorded("com_in") /\ arrived' = arrived
<1>0. /\ obs \in [Side -> Observation] /\ events \in [Side -> SUBSET TransitRow]
      /\ "com_in" \in Side /\ "com_out" \in Side
  BY DEF TypeOK, Side
<1>1. ASSUME NEW s \in Side, WriteStatus(s) \/ WriteStatusFails(s)
      PROVE  Recorded("com_out")' \subseteq Recorded("com_out")
             /\ (WriteStatusFails(s) => Recorded("com_in")' \subseteq Recorded("com_in"))
  <2>1. /\ obs' = [obs EXCEPT ![s] = DrainTransitRecords(@)]
        /\ \/ events' = events
           \/ events' = [events EXCEPT ![s] = @ \cup obs[s].transit_records]
        /\ WriteStatusFails(s) => events' = events
    BY <1>1 DEF WriteStatus, WriteStatusFails
  <2>2. DrainTransitRecords(obs[s]).transit_records = {}
    BY <1>0 DEF DrainTransitRecords, Observation
  <2> QED
    BY <1>0, <2>1, <2>2 DEF Recorded
<1>2. ASSUME NEW r \in Recorded("com_out")', r \notin Recorded("com_out"), Wrap
      PROVE  r \in RowsFor(obs["com_out"], [run |-> run, seq |-> next_seq], TRUE)
  <2> DEFINE frame == [run |-> run, seq |-> next_seq]
  <2>1. events' = events /\ \/ obs' = obs
                            \/ obs' = [obs EXCEPT !["com_out"] = Record(@, frame, TRUE)]
    BY <1>2 DEF Wrap
  <2>2. Record(obs["com_out"], frame, TRUE).transit_records
          = obs["com_out"].transit_records \cup RowsFor(obs["com_out"], frame, TRUE)
    BY DEF Record
  <2> QED
    BY <1>0, <1>2, <2>1, <2>2 DEF Recorded
<1>3. CASE PeerRestart
  <2>1. NewObservation.transit_records = {}
    BY DEF NewObservation
  <2>2. Recorded("com_out")' = {}
    BY <1>0, <1>3, <2>1 DEF PeerRestart, Recorded
  <2>3. \A s \in Side : ~ WriteStatusFails(s)
    BY <1>3 DEF PeerRestart, WriteStatusFails, TypeOK
  <2> QED
    BY <2>2, <2>3
<1>4. ASSUME NEW frame \in link, Lose(frame) \/ Deliver(frame)
      PROVE  Recorded("com_out")' = Recorded("com_out")
  BY <1>0, <1>4 DEF Lose, Deliver, Recorded
<1>5. CASE UNCHANGED vars
  BY <1>5 DEF vars, Recorded
<1>6. \A s \in Side : WriteStatusFails(s) =>
          Recorded("com_in")' \subseteq Recorded("com_in") /\ arrived' = arrived
  BY <1>1 DEF WriteStatusFails
<1>7. \A r \in Recorded("com_out")' \ Recorded("com_out") :
          Wrap /\ r \in RowsFor(obs["com_out"], [run |-> run, seq |-> next_seq], TRUE)
  BY <1>1, <1>2, <1>3, <1>4, <1>5 DEF Next
<1> QED
  BY <1>6, <1>7
\* RowsInv holds of every state in which the epochs follow the runs.
LEMMA RowsInvInductive == ASSUME FieldOrder PROVE Spec => []RowsInv
<1>1. Init => RowsInv
  <2> SUFFICES ASSUME Init PROVE RowsInv
    OBVIOUS
  <2>1. Recorded("com_in") = {} /\ Recorded("com_out") = {} /\ arrived = {}
    BY DEF Init, Recorded, NewObservation, Side
  <2> QED
    BY <2>1, FS_EmptySet DEF RowsInv
<1>2. TypeOK /\ EpochInv /\ EpochInv' /\ RowsInv /\ [Next]_vars => RowsInv'
  <2> SUFFICES ASSUME TypeOK, EpochInv, EpochInv', RowsInv, [Next]_vars PROVE RowsInv'
    OBVIOUS
  <2>1. ASSUME NEW r \in Recorded("com_out")' PROVE r.status \in SenderStatus
    <3>1. CASE r \in Recorded("com_out")
      BY <3>1 DEF RowsInv
    <3>2. CASE r \notin Recorded("com_out")
      <4>1. r \in RowsFor(obs["com_out"], [run |-> run, seq |-> next_seq], TRUE)
        BY <2>1, <3>2, RecordedGrows
      <4>2. [run |-> run, seq |-> next_seq] \in Frame
        BY DEF TypeOK, Frame
      <4> QED
        BY <4>1, <4>2, RowsSay
    <3> QED
      BY <3>1, <3>2
  <2>2. IsFiniteSet(arrived') /\ arrived \subseteq arrived'
    <3>1. arrived' = arrived \/ \E frame \in link : arrived' = arrived \cup {frame}
      BY DEF Next, Wrap, PeerRestart, Lose, Deliver, WriteStatus, WriteStatusFails, vars
    <3> QED
      BY <3>1, FS_AddElement DEF RowsInv
  <2>3. ASSUME NEW r \in Recorded("com_in")'
        PROVE  /\ r.status \in ReceiverStatus
               /\ r.run = r.epoch + 1
               /\ r.status # "lost" => [run |-> r.run, seq |-> r.seq] \in arrived'
    <3>1. CASE r \in Recorded("com_in")
      BY <2>2, <3>1 DEF RowsInv
    <3>2. ASSUME NEW frame \in link, Deliver(frame),
                 obs'["com_in"] = Record(obs["com_in"], frame, FALSE),
                 r \in RowsFor(obs["com_in"], frame, FALSE),
                 arrived' = arrived \cup {frame}
          PROVE  /\ r.status \in ReceiverStatus
                 /\ r.run = r.epoch + 1
                 /\ r.status # "lost" => [run |-> r.run, seq |-> r.seq] \in arrived'
      <4>1. frame \in Frame /\ frame.run \in Nat /\ frame.run > 0
            /\ frame = [run |-> frame.run, seq |-> frame.seq]
        BY DEF TypeOK, Frame
      <4>2. /\ r.run = frame.run /\ r.epoch = EpochOf(obs["com_in"], frame.seq)
            /\ r.status \in ReceiverStatus
            /\ r.status # "lost" => r.seq = frame.seq
        BY <3>2, <4>1, RowsSay
      <4>3. obs'["com_in"].epoch = r.epoch
        BY <3>2, <4>2 DEF Record
      <4>4. obs'["com_in"].epoch = frame.run - 1
        <5>1. heard'.run = frame.run
          BY <3>2 DEF Deliver
        <5> QED
          BY <4>1, <5>1 DEF EpochInv
      <4> QED
        BY <3>2, <4>1, <4>2, <4>3, <4>4
    <3> QED
      BY <2>3, <3>1, <3>2, RecordedSteps, RecordedGrows
  <2> QED
    BY <2>1, <2>2, <2>3 DEF RowsInv
<1> QED
  BY <1>1, <1>2, EpochInvInductive, PTL DEF Spec

\* A measurement window takes in no loss from outside it: every lost message it
\* keeps was published inside, wherever the window lies and however the losses
\* fall on both sides of a restart of the peer.
THEOREM WindowsAreFair == ASSUME FieldOrder PROVE Spec => []WindowKeepsItsOwnLosses
<1>1. TypeOK /\ RowsInv => WindowKeepsItsOwnLosses
  <2> DEFINE rows == events["com_in"]
  <2> SUFFICES ASSUME TypeOK, RowsInv,
                      NEW from \in arrived, NEW to \in arrived,
                      NEW k \in KeptInWindow(rows, from, to),
                      JoinedStatus(rows, k) = "lost"
               PROVE  PublishedIn([run |-> k[1] + 1, seq |-> k[2]], from, to)
    BY DEF WindowKeepsItsOwnLosses
  <2>1. \A r \in rows : /\ r.run = r.epoch + 1
                        /\ r.epoch \in Nat /\ r.seq \in Nat
    BY DEF TypeOK, RowsInv, Recorded, Side, TransitRow
  <2>2. /\ from.run \in Nat /\ from.seq \in Nat
        /\ to.run \in Nat /\ to.seq \in Nat
    BY DEF TypeOK, Frame
  <2>3. PICK q \in rows : k = <<q.epoch, q.seq>>
    <3>1. TimedKeys(rows, from, to) \subseteq Keys(rows)
      BY DEF TimedKeys, Keys
    <3> QED
      BY <3>1 DEF KeptInWindow, Keys
  <2>4. k \in Keys(rows)
    BY <2>3 DEF Keys
  <2>5. PICK a \in TimedKeys(rows, from, to), b \in TimedKeys(rows, from, to) :
           a[1] = k[1] /\ b[1] = k[1] /\ a[2] <= k[2] /\ k[2] <= b[2]
    BY <2>4 DEF KeptInWindow
  <2>6. /\ \E r \in rows : a = <<r.epoch, r.seq>> /\ PublishedIn(r, from, to)
        /\ \E r \in rows : b = <<r.epoch, r.seq>> /\ PublishedIn(r, from, to)
    BY <2>5 DEF TimedKeys, Keys
  <2>7. PICK ra \in rows : a = <<ra.epoch, ra.seq>> /\ PublishedIn(ra, from, to)
    BY <2>6
  <2>8. PICK rb \in rows : b = <<rb.epoch, rb.seq>> /\ PublishedIn(rb, from, to)
    BY <2>6
  <2>9. /\ ra.epoch = q.epoch /\ rb.epoch = q.epoch
        /\ ra.seq <= q.seq /\ q.seq <= rb.seq
    BY <2>3, <2>5, <2>7, <2>8
  <2>10. /\ ra.run > from.run \/ (ra.run = from.run /\ ra.seq >= from.seq)
         /\ to.run > rb.run \/ (to.run = rb.run /\ to.seq >= rb.seq)
    BY <2>7, <2>8 DEF PublishedIn
  <2> DEFINE n == q.epoch + 1
  <2>11. n = ra.run /\ n = rb.run /\ n \in Nat
    BY <2>1, <2>9
  <2>12. /\ n > from.run \/ (n = from.run /\ q.seq >= from.seq)
         /\ to.run > n \/ (to.run = n /\ to.seq >= q.seq)
    BY <2>1, <2>2, <2>9, <2>10, <2>11
  <2>13. k[1] + 1 = n /\ k[2] = q.seq
    BY <2>3
  <2> HIDE DEF n
  <2> QED
    BY <2>12, <2>13 DEF PublishedIn
<1> QED
  BY <1>1, TypeCorrect, RowsInvInductive, PTL

------------------------------------------------------------------------------
(* The joined record *)

\* A sender's rows rank below every receiver's, so they take no verdict from the
\* receiver's file when the two are joined (join_transit_records).
LEMMA SenderRowsRankBelow ==
    ASSUME NEW in \in SUBSET TransitRow, NEW out \in SUBSET TransitRow,
           \A r \in in : r.status \in ReceiverStatus,
           \A r \in out : r.status \in SenderStatus,
           NEW key \in Keys(in)
    PROVE  JoinedStatus(in \cup out, key) = JoinedStatus(in, key)
<1> DEFINE both == in \cup out
           J == JoinedStatus(both, key)
           j == JoinedStatus(in, key)
<1>1. PICK r \in in : key = <<r.epoch, r.seq>>
  BY DEF Keys
<1>2. r \in RowsAt(in, key) /\ r \in RowsAt(both, key)
  BY <1>1 DEF RowsAt
<1>3. both \in SUBSET TransitRow
  OBVIOUS
<1>4. PICK q \in RowsAt(both, key) : q.status = J
  BY <1>2, <1>3, JoinedIsTheRichest
<1>5. PICK p \in RowsAt(in, key) : p.status = j
  BY <1>2, JoinedIsTheRichest
<1>6. p \in RowsAt(both, key) /\ p.status \in ReceiverStatus /\ r.status \in ReceiverStatus
  BY <1>1, <1>5 DEF RowsAt
<1>7. StatusRank[J] >= StatusRank[r.status] /\ StatusRank[J] >= StatusRank[p.status]
  BY <1>2, <1>3, <1>6, JoinedIsTheRichest
<1>8. /\ StatusRank["delivered"] = 2 /\ StatusRank["reordered"] = 1
      /\ StatusRank["lost"] = 0
      /\ StatusRank["sent"] = -1 /\ StatusRank["unobserved"] = -1
  BY DEF StatusRank
<1>9. J \in ReceiverStatus \cup SenderStatus
  BY <1>2, <1>3, JoinedIsTheRichest
<1> HIDE DEF J, j, both
<1>10. J \in ReceiverStatus
  BY <1>6, <1>7, <1>8, <1>9 DEF ReceiverStatus, SenderStatus
<1>11. q \in RowsAt(in, key)
  <2>1. q.status \notin SenderStatus
    BY <1>4, <1>10 DEF ReceiverStatus, SenderStatus
  <2> QED
    BY <1>4, <2>1 DEF RowsAt, both
<1>12. StatusRank[j] >= StatusRank[J]
  BY <1>4, <1>11, JoinedIsTheRichest DEF j
<1>13. j \in ReceiverStatus /\ StatusRank[J] >= StatusRank[j]
  BY <1>5, <1>6, <1>7
<1>14. J = j
  BY <1>8, <1>10, <1>12, <1>13 DEF ReceiverStatus
<1> QED
  BY <1>14 DEF J, j, both

\* A key only a receiver's row can call delivered, reordered or lost is a key of
\* the receiver's file.
LEMMA VerdictsAreTheReceivers ==
    ASSUME NEW in \in SUBSET TransitRow, NEW out \in SUBSET TransitRow,
           \A r \in out : r.status \in SenderStatus,
           NEW key \in Keys(in \cup out),
           JoinedStatus(in \cup out, key) \in ReceiverStatus
    PROVE  \E q \in in : /\ key = <<q.epoch, q.seq>>
                         /\ q.status = JoinedStatus(in \cup out, key)
<1> DEFINE both == in \cup out
<1>1. PICK r \in both : key = <<r.epoch, r.seq>>
  BY DEF Keys
<1>2. r \in RowsAt(both, key) /\ both \in SUBSET TransitRow
  BY <1>1 DEF RowsAt
<1>3. PICK q \in RowsAt(both, key) : q.status = JoinedStatus(both, key)
  BY <1>2, JoinedIsTheRichest
<1>4. q \in both /\ q.epoch = key[1] /\ q.seq = key[2]
  BY <1>3 DEF RowsAt
<1>5. q \notin out
  BY <1>3 DEF ReceiverStatus, SenderStatus
<1>6. key = <<q.epoch, q.seq>>
  BY <1>1, <1>4
<1> QED
  BY <1>3, <1>4, <1>5, <1>6

\* The joined record is the receiver's verdict and counts the arrivals: joining
\* in the sender's file, whose epochs are numbered apart, changes no verdict and
\* no count, and with every row written as many messages are delivered as arrived.
THEOREM TheSummaryIsTrue == ASSUME FieldOrder PROVE Spec => []SummaryCountsArrivals
<1>1. TypeOK /\ RowsInv /\ LostNeverArrived => SummaryCountsArrivals
  <2> DEFINE in == events["com_in"]
             out == events["com_out"]
             both == in \cup out
             frameOf(key) == [run |-> key[1] + 1, seq |-> key[2]]
  <2> SUFFICES ASSUME TypeOK, RowsInv, LostNeverArrived
               PROVE  /\ \A key \in Keys(in) :
                            /\ JoinedStatus(both, key) = JoinedStatus(in, key)
                            /\ JoinedStatus(both, key) \in {"delivered", "reordered"} =>
                                  frameOf(key) \in arrived
                      /\ (failed_writes = 0 /\ \A s \in Side : obs[s].transit_records = {}) =>
                            SummarizeTransitRecords(both).delivered = Cardinality(arrived)
    BY DEF SummaryCountsArrivals
  <2>1. /\ in \in SUBSET TransitRow /\ out \in SUBSET TransitRow
        /\ \A r \in in : /\ r.status \in ReceiverStatus /\ r.run = r.epoch + 1
                         /\ r.epoch \in Nat /\ r.seq \in Nat
                         /\ r.status # "lost" => [run |-> r.run, seq |-> r.seq] \in arrived
        /\ \A r \in out : r.status \in SenderStatus
    BY DEF TypeOK, RowsInv, Recorded, Side, TransitRow
  <2> HIDE DEF in, out
  <2>2. \A key \in Keys(in) : JoinedStatus(both, key) = JoinedStatus(in, key)
    BY <2>1, SenderRowsRankBelow
  <2>3. ASSUME NEW key \in Keys(both), JoinedStatus(both, key) \in {"delivered", "reordered"}
        PROVE  /\ frameOf(key) \in arrived
               /\ key = <<frameOf(key).run - 1, frameOf(key).seq>>
    <3>1. PICK q \in in : key = <<q.epoch, q.seq>> /\ q.status = JoinedStatus(both, key)
      BY <2>1, <2>3, VerdictsAreTheReceivers DEF ReceiverStatus
    <3>2. [run |-> q.run, seq |-> q.seq] \in arrived /\ q.run = q.epoch + 1
          /\ q.epoch \in Nat
      BY <2>1, <2>3, <3>1
    <3>3. key[1] = q.epoch /\ key[2] = q.seq
      BY <3>1
    <3> QED
      BY <3>1, <3>2, <3>3
  <2>4. \A key \in Keys(in) : key \in Keys(both)
    BY DEF Keys
  <2>5. ASSUME failed_writes = 0, \A s \in Side : obs[s].transit_records = {}
        PROVE  SummarizeTransitRecords(both).delivered = Cardinality(arrived)
    <3> DEFINE told == {key \in Keys(both) : JoinedStatus(both, key) \in {"delivered", "reordered"}}
               keyOf == [f \in arrived |-> <<f.run - 1, f.seq>>]
    <3>1. SummarizeTransitRecords(both).delivered = Cardinality(told)
      <4> DEFINE receiver == {k \in Keys(both) : JoinedStatus(both, k) \in ReceiverStatus}
                 lost == {k \in Keys(both) : JoinedStatus(both, k) = "lost"}
      <4>1. receiver \ lost = told
        BY DEF ReceiverStatus
      <4>2. SummarizeTransitRecords(both).delivered = Cardinality(receiver \ lost)
        BY DEF SummarizeTransitRecords
      <4> QED
        BY <4>1, <4>2
    <3>2. ASSUME NEW f \in arrived PROVE keyOf[f] \in told
      <4>1. Recorded("com_in") = in
        BY <2>5 DEF Recorded, Side, in
      <4>2. /\ <<f.run - 1, f.seq>> \in Keys(in)
            /\ JoinedStatus(in, <<f.run - 1, f.seq>>) \in {"delivered", "reordered"}
        BY <2>5, <4>1 DEF LostNeverArrived
      <4> QED
        BY <2>2, <2>4, <4>2
    <3>3. ASSUME NEW f \in arrived, NEW g \in arrived, keyOf[f] = keyOf[g] PROVE f = g
      <4>1. /\ f = [run |-> f.run, seq |-> f.seq] /\ f.run \in Nat
            /\ g = [run |-> g.run, seq |-> g.seq] /\ g.run \in Nat
        BY DEF TypeOK, Frame
      <4>2. f.run - 1 = g.run - 1 /\ f.seq = g.seq
        BY <3>3
      <4> QED
        BY <4>1, <4>2
    <3>4. ASSUME NEW key \in told PROVE \E f \in arrived : keyOf[f] = key
      BY <2>3
    <3>5. keyOf \in Bijection(arrived, told)
      <4>1. keyOf \in [arrived -> told]
        BY <3>2
      <4>2. keyOf \in Injection(arrived, told)
        BY <3>3, <4>1 DEF Injection, IsInjective
      <4>3. keyOf \in Surjection(arrived, told)
        BY <3>4, <4>1 DEF Surjection
      <4> QED
        BY <4>2, <4>3 DEF Bijection
    <3>6. ExistsBijection(arrived, told) /\ IsFiniteSet(arrived)
      BY <3>5 DEF ExistsBijection, RowsInv
    <3> HIDE DEF told
    <3> QED
      BY <3>1, <3>6, FS_Bijection
  <2> QED
    BY <2>2, <2>3, <2>4, <2>5
<1> QED
  BY <1>1, TypeCorrect, RowsInvInductive, LossIsReal, PTL
===============================================================================
