------------------------------ MODULE TransitJoin ------------------------------
(***************************************************************************)
(* The offline side of the accounting (transit.py): rows of one source and *)
(* topic, read from the event files of any number of peers, joined on      *)
(* (epoch, seq).  The code keeps the richest row per key; a row here is    *)
(* reduced to the status that survives.                                    *)
(***************************************************************************)
EXTENDS StageObservation

StatusRank == [unobserved |-> -1, sent |-> -1, lost |-> 0, reordered |-> 1, delivered |-> 2]

Keys(rows) == {<<r.epoch, r.seq>> : r \in rows}

\* The rows the join folds into one.
RowsAt(rows, key) == {r \in rows : r.epoch = key[1] /\ r.seq = key[2]}

\* Mutant: the join keeps the lowest status instead of the highest.
WorstStatus(rows, key) ==
    LET seen == {r.status : r \in RowsAt(rows, key)}
    IN  CHOOSE s \in seen : \A t \in seen : StatusRank[s] <= StatusRank[t]

\* A status replaces a lower ranked one; sender statuses rank below every
\* receiver status.  (Between two sender statuses the first read stays: the
\* order of the files decides, and nothing below tells them apart.)
JoinedStatus(rows, key) ==
    LET seen == {r.status : r \in RowsAt(rows, key)}
    IN  CHOOSE s \in seen : \A t \in seen : StatusRank[s] >= StatusRank[t]

\* Publish stamps order the frames of a topic: by process, then by number.
PublishedIn(r, from, to) ==
    LET notBefore(a, b) == a.run > b.run \/ (a.run = b.run /\ a.seq >= b.seq)
    IN  notBefore(r, from) /\ notBefore(to, r)

\* Keys whose joined record carries a publish stamp inside the window.
TimedKeys(rows, from, to) ==
    Keys({r \in rows : r.status \in {"delivered", "reordered", "sent"}
                       /\ PublishedIn(r, from, to)})

\* Mutant: losses bounded across epochs, as when the key had no epoch.
WindowAcrossEpochs(rows, from, to) ==
    LET timed == TimedKeys(rows, from, to)
        lost  == {k \in Keys(rows) : JoinedStatus(rows, k) = "lost"}
    IN  (timed \ lost)
        \cup {k \in lost : \E a, b \in timed : a[2] <= k[2] /\ k[2] <= b[2]}

\* filter_transit_records_by_publish_window: the keys that survive.  A lost
\* record has no stamp; it is kept between two stamped ones of its own epoch.
KeptInWindow(rows, from, to) ==
    LET timed == TimedKeys(rows, from, to)
        lost  == {k \in Keys(rows) : JoinedStatus(rows, k) = "lost"}
    IN  (timed \ lost)
        \cup {k \in lost : \E a, b \in timed :
                  /\ a[1] = k[1] /\ b[1] = k[1]
                  /\ a[2] <= k[2] /\ k[2] <= b[2]}

\* Mutant: sender rows counted as delivered, the report issue 294 is about.
DeliveredOrSent(rows) ==
    LET keys == Keys(rows)
        lost == {k \in keys : JoinedStatus(rows, k) = "lost"}
    IN  [expected    |-> Cardinality(keys),
         delivered   |-> Cardinality(keys \ lost),
         lost        |-> Cardinality(lost),
         unconfirmed |-> 0,
         epochs      |-> Cardinality({k[1] : k \in keys})]

\* Per topic: only a receiver's row says a message arrived or was lost.
SummarizeTransitRecords(rows) ==
    LET keys     == Keys(rows)
        receiver == {k \in keys : JoinedStatus(rows, k) \in ReceiverStatus}
        lost     == {k \in keys : JoinedStatus(rows, k) = "lost"}
    IN  [expected    |-> Cardinality(keys),
         delivered   |-> Cardinality(receiver \ lost),
         lost        |-> Cardinality(lost),
         unconfirmed |-> Cardinality(keys \ receiver),
         epochs      |-> Cardinality({k[1] : k \in keys})]
================================================================================
