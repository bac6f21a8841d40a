---------------------------- MODULE SequenceEpoch ----------------------------
(***************************************************************************)
(* How a consumer of a wrapped topic tells reordering from a restart of    *)
(* the sending peer.  universal_ota_wrapper numbers the frames of a topic  *)
(* from zero; the number starts again when the wrapper's process does.     *)
(***************************************************************************)
EXTENDS Integers

CONSTANT Tolerance  \* SEQUENCE_REORDER_TOLERANCE, 64 in the code

ASSUME ToleranceAssumption == Tolerance \in Nat

NoSeq == -1         \* Python's None: no frame of the topic seen yet

\* Mutant: the tolerance counted inclusively.
ResetAtTolerance(seq, expected) ==
    /\ expected # NoSeq
    /\ seq < expected
    /\ \/ seq = 0
       \/ expected - seq >= Tolerance

\* A backward jump begins a new epoch when it lands on zero or is larger than
\* the transport can reorder.
IsSequenceEpochReset(seq, expected) ==
    /\ expected # NoSeq
    /\ seq < expected
    /\ \/ seq = 0
       \/ expected - seq > Tolerance
==============================================================================
