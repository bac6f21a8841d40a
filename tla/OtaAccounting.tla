----------------------------- MODULE OtaAccounting -----------------------------
(***************************************************************************)
(* One wrapped topic from the sending peer to the receiving peer.          *)
(*                                                                         *)
(*   universal_ota_wrapper --> com_out observer         (sending peer)     *)
(*            |                                                            *)
(*          link   loses, delays, reorders              (the network)      *)
(*            |                                                            *)
(*            +--> universal_ota_unwrapper, com_in observer  (receiver)    *)
(*                                                                         *)
(* Every status tick drains an observer's transit rows into its peer's     *)
(* events.jsonl; transit.py joins the files after the session.             *)
(***************************************************************************)
EXTENDS TransitJoin

CONSTANTS
    MaxRun,           \* bound: processes of the wrapper, restarts plus one
    MaxSeq,           \* bound: frames the first process wraps
    MaxSeqLater,      \* bound: frames a later process wraps
    MaxInFlight,      \* bound: frames on the link at a time
    MaxFailedWrites,  \* bound: status ticks whose write raises
    SenderObserves,   \* does the sending peer's observer see com_out?
    ReorderDepth,     \* a frame is overtaken by fewer numbers than this
    FirstMatched,     \* the reader matches the writer at this frame: the
                      \* earlier ones of a run were written to nobody
    LastMatched,      \* and the first arrival of a run is this one at latest
    MinRun            \* a peer that restarts had got at least this far

ASSUME BoundsAssumption ==
    /\ MaxRun \in Nat \ {0}
    /\ {MaxSeq, MaxSeqLater, MaxInFlight, MaxFailedWrites, ReorderDepth} \subseteq Nat
    /\ {FirstMatched, LastMatched, MinRun} \subseteq Nat
    /\ SenderObserves \in BOOLEAN

\* The order the field instance has: reordering is smaller than the tolerance,
\* and a restart lands further back than it.  Number zero never arrives.
FieldOrder ==
    /\ ReorderDepth < Tolerance
    /\ MinRun + 1 > LastMatched + Tolerance
    /\ 0 < FirstMatched

\* And the order the unwrapper's log needs: its baseline lags behind the highest
\* number by the reordering, so a restart lands further back by that much too.
LogOrder == MinRun + 1 > LastMatched + Tolerance + ReorderDepth

Side  == {"com_out", "com_in"}
Frame == [run : 1..MaxRun, seq : Nat]

VARIABLES
    run,           \* which process of the wrapper is up
    next_seq,      \* its sequence_by_topic entry
    link,          \* frames in flight
    obs,           \* the two observers
    breadcrumb,    \* the unwrapper's _last_seq and its restart warnings
    events,        \* transit rows in the events.jsonl of each peer's instance
    failed_writes, \* ticks whose rows were drained and not written
    heard,         \* history: run and highest number that reached the receiver
    arrived        \* history: frames that reached the receiver

vars == <<run, next_seq, link, obs, breadcrumb, events, failed_writes, heard, arrived>>

Init ==
    /\ run = 1
    /\ next_seq = 0
    /\ link = {}
    /\ obs = [s \in Side |-> NewObservation]
    /\ breadcrumb = [last_seq |-> NoSeq, restarts |-> 0]
    /\ events = [s \in Side |-> {}]
    /\ failed_writes = 0
    /\ heard = [run |-> 0, high |-> NoSeq]
    /\ arrived = {}

------------------------------------------------------------------------------
(* The sending peer *)

\* wrapper_callback: serialize, take the next number, publish.  The local
\* com_out observer sees the frame, or is not subscribed yet and misses it.
Wrap ==
    /\ next_seq < (IF run = 1 THEN MaxSeq ELSE MaxSeqLater)
    /\ Cardinality(link) < MaxInFlight
    /\ LET frame == [run |-> run, seq |-> next_seq]
       IN  /\ next_seq' = next_seq + 1
           /\ link' = IF next_seq < FirstMatched THEN link ELSE link \cup {frame}
           /\ \E observed \in {FALSE, SenderObserves} :
                 obs' = IF observed
                        THEN [obs EXCEPT !["com_out"] = Record(@, frame, TRUE)]
                        ELSE obs
    /\ UNCHANGED <<run, breadcrumb, events, failed_writes, heard, arrived>>

\* The peer's session restarts: wrapper and observer begin again in a new
\* instance directory, and rows the observer had not written are gone.
PeerRestart ==
    /\ run < MaxRun
    /\ heard.run = run
    /\ heard.high >= MinRun
    /\ run' = run + 1
    /\ next_seq' = 0
    /\ obs' = [obs EXCEPT !["com_out"] = NewObservation]
    /\ events' = [events EXCEPT !["com_out"] = {}]
    /\ UNCHANGED <<link, breadcrumb, failed_writes, heard, arrived>>

------------------------------------------------------------------------------
(* The network *)

Lose(frame) ==
    /\ frame \in link
    /\ link' = link \ {frame}
    /\ UNCHANGED <<run, next_seq, obs, breadcrumb, events, failed_writes, heard, arrived>>

\* What the transport promises about order.  A frame of an older process never
\* comes after one of a newer process: a restart takes seconds.
InOrderEnough(frame) ==
    /\ frame.run >= heard.run
    /\ frame.run = heard.run => frame.seq + ReorderDepth >= heard.high
    /\ frame.run > heard.run => frame.seq <= LastMatched

------------------------------------------------------------------------------
(* The receiving peer *)

\* Mutant: every backward jump is logged as reordering.
CheckWithoutReset(b, seq) == [b EXCEPT !.last_seq = seq]

\* _check_sequence: the baseline is the last frame, whatever its number.
CheckSequence(b, seq) ==
    LET expected == IF b.last_seq = NoSeq THEN NoSeq ELSE b.last_seq + 1
    IN  [last_seq |-> seq,
         restarts |-> b.restarts
                      + (IF IsSequenceEpochReset(seq, expected) THEN 1 ELSE 0)]

\* A frame arrives.  The unwrapper and the com_in observer subscribe to the
\* same topic and share no state, so their callbacks are one step.
Deliver(frame) ==
    /\ frame \in link
    /\ InOrderEnough(frame)
    /\ link' = link \ {frame}
    /\ breadcrumb' = CheckSequence(breadcrumb, frame.seq)
    /\ obs' = [obs EXCEPT !["com_in"] = Record(@, frame, FALSE)]
    /\ heard' = [run  |-> frame.run,
                 high |-> IF frame.run = heard.run /\ frame.seq < heard.high
                          THEN heard.high ELSE frame.seq]
    /\ arrived' = arrived \cup {frame}
    /\ UNCHANGED <<run, next_seq, events, failed_writes>>

------------------------------------------------------------------------------
(* Either peer's status tick *)

\* StatusAggregator.write: the rows leave the observer, then reach the file.
WriteStatus(s) ==
    /\ obs[s].transit_records # {}
    /\ obs' = [obs EXCEPT ![s] = DrainTransitRecords(@)]
    /\ events' = [events EXCEPT ![s] = @ \cup obs[s].transit_records]
    /\ UNCHANGED <<run, next_seq, link, breadcrumb, failed_writes, heard, arrived>>

\* The same tick when the file cannot be written: the handler logs and goes
\* on, with the rows already drained.
WriteStatusFails(s) ==
    /\ obs[s].transit_records # {}
    /\ failed_writes < MaxFailedWrites
    /\ failed_writes' = failed_writes + 1
    /\ obs' = [obs EXCEPT ![s] = DrainTransitRecords(@)]
    /\ UNCHANGED <<run, next_seq, link, breadcrumb, events, heard, arrived>>

Next ==
    \/ Wrap
    \/ PeerRestart
    \/ \E frame \in link : Lose(frame) \/ Deliver(frame)
    \/ \E s \in Side : WriteStatus(s) \/ WriteStatusFails(s)

Spec == Init /\ [][Next]_vars

------------------------------------------------------------------------------
(* Properties *)

TypeOK ==
    /\ run \in 1..MaxRun
    /\ next_seq \in Nat
    /\ link \subseteq Frame
    /\ obs \in [Side -> Observation]
    /\ breadcrumb \in [last_seq : Nat \cup {NoSeq}, restarts : Nat]
    /\ events \in [Side -> SUBSET TransitRow]
    /\ failed_writes \in Nat
    /\ heard \in [run : 0..MaxRun, high : Nat \cup {NoSeq}]
    /\ arrived \subseteq Frame

\* The rows an observer has recorded, written or still pending.
Recorded(s) == obs[s].transit_records \cup events[s]

\* Between two frames that arrived in their turn in one epoch, every number
\* has a row: no gap is forgotten, whatever the link does.
GapsAreAccounted ==
    failed_writes = 0 =>
        \A a, b \in {r \in Recorded("com_in") : r.status = "delivered"} :
            a.epoch = b.epoch =>
                \A seq \in a.seq .. b.seq : <<a.epoch, seq>> \in Keys(Recorded("com_in"))

\* The running totals behind loss_total_pct count the same messages as the
\* rows: every expected number is one row, delivered in its turn or lost, and
\* no gap or late frame is counted twice, through any number of epochs.
TotalsMatchRows ==
    LET rows(status) == Cardinality({r \in Recorded("com_in") : r.status = status})
        o == obs["com_in"]
    IN  failed_writes = 0 =>
            /\ o.total_expected = rows("delivered") + rows("lost")
            /\ o.total_missing = rows("lost")
            /\ o.total_reordered = rows("reordered")

\* The receiver's epoch is the number of restarts of the peer it has heard
\* from: reordering is not taken for a restart, nor a restart for reordering.
EpochFollowsRun ==
    obs["com_in"].epoch = IF heard.run = 0 THEN 0 ELSE heard.run - 1

\* A message the joined record calls lost never arrived; one that arrived is
\* delivered or reordered, however late it came and however the rows were
\* split between ticks.
LostNeverArrived ==
    failed_writes = 0 =>
        \A frame \in arrived :
            LET key == <<frame.run - 1, frame.seq>>
            IN  /\ key \in Keys(Recorded("com_in"))
                /\ JoinedStatus(Recorded("com_in"), key) \in {"delivered", "reordered"}

\* Joining the sender's file with the receiver's changes no verdict the receiver
\* gave, though the two number their epochs independently.  What the record calls
\* delivered or reordered did arrive, even when ticks fail to write; with
\* everything written, the summary delivers as many messages as arrived.
SummaryCountsArrivals ==
    LET both == events["com_in"] \cup events["com_out"]
    IN  /\ \A key \in Keys(events["com_in"]) :
              /\ JoinedStatus(both, key) = JoinedStatus(events["com_in"], key)
              /\ JoinedStatus(both, key) \in {"delivered", "reordered"} =>
                    [run |-> key[1] + 1, seq |-> key[2]] \in arrived
        /\ (failed_writes = 0 /\ \A s \in Side : obs[s].transit_records = {}) =>
              SummarizeTransitRecords(both).delivered = Cardinality(arrived)

\* A measurement window never takes in a loss from outside it: every lost
\* message it keeps was published inside the window.  (What a window keeps
\* depends on the arrivals in it, so windows that begin and end at one do.)
WindowKeepsItsOwnLosses ==
    obs["com_in"].transit_records = {} =>
        \A from, to \in arrived :
            \A k \in KeptInWindow(events["com_in"], from, to) :
                JoinedStatus(events["com_in"], k) = "lost" =>
                    PublishedIn([run |-> k[1] + 1, seq |-> k[2]], from, to)

\* The unwrapper's log and the live accounting call the same jumps restarts,
\* although their baselines part while the link reorders.
BreadcrumbAgrees == breadcrumb.restarts = obs["com_in"].epoch
================================================================================
