----------------------------- MODULE PlayoutPacer -----------------------------
(***************************************************************************)
(* The receiver-side playout pacer (playout_pacer.py and its core): every  *)
(* message of a stamped stream is held until stamp + delay floor + budget, *)
(* the floor and the adaptive budget taken over a window of delays.        *)
(*                                                                         *)
(* Times are whole ticks.  A delay, arrival - stamp, contains the unknown  *)
(* offset between the two peers' clocks, so any integer is possible.       *)
(***************************************************************************)
EXTENDS Integers, Sequences, FiniteSets

CONSTANTS
    Config,      \* PacerConfig values the node may be started with
    MaxHold,     \* no configuration allows a larger budget
    Window,      \* PacerConfig.window, 400 in the node
    MinDelay, MaxDelay,  \* range of arrival - stamp
    MaxMessages, \* bound: messages that arrive
    MaxTime,     \* bound: the clock, and arrivals end MaxHold before it
    None         \* Python's None

\* The largest budget a configuration allows.
HoldLimit(c) == IF c.adaptive THEN c.max ELSE c.target

\* PacerConfig.__post_init__, and parameters that are not negative.
ASSUME ConfigAssumption ==
    /\ Config \subseteq [adaptive : BOOLEAN, target : Nat, min : Nat, max : Nat,
                         percentile : 1..99, margin : Nat]
    /\ \A c \in Config : c.min <= c.max /\ HoldLimit(c) <= MaxHold

ASSUME BoundsAssumption ==
    /\ Window \in Nat \ {0}
    /\ MinDelay \in Int /\ MaxDelay \in Int
    /\ MaxMessages \in Nat /\ MaxTime \in Nat /\ MaxHold \in Nat
    /\ None \notin Int

VARIABLES
    config,        \* constant once the node is up
    now,           \* the receiver's clock
    delays,        \* PlayoutSchedule._d
    last_release,  \* PlayoutSchedule._last_release
    queue,         \* scheduled messages, not yet published
    published      \* history: messages handed on, in order

vars == <<config, now, delays, last_release, queue, published>>

Delay == MinDelay..MaxDelay
Stamp == -MaxDelay..(MaxTime - MinDelay)

------------------------------------------------------------------------------
(* PlayoutSchedule *)

Values(w) == {w[i] : i \in DOMAIN w}

\* Mutant: nothing leaves the window, so the floor can only fall.
RememberAll(w, d) == Append(w, d)

\* deque(maxlen = window): the oldest delay makes room.
Remember(w, d) == IF Len(w) < Window THEN Append(w, d) ELSE Append(Tail(w), d)

Floor(w) == CHOOSE d \in Values(w) : \A e \in Values(w) : d <= e

\* Entry min(len - 1, percentile * len) of the sorted window, counted from 0:
\* the least delay that more than that many entries do not exceed.
Rank(w, c) == LET k == (c.percentile * Len(w)) \div 100
              IN  IF k < Len(w) THEN k ELSE Len(w) - 1

Ranked(w, k) == {d \in Values(w) : Cardinality({i \in DOMAIN w : w[i] <= d}) > k}

Percentile(w, c) == CHOOSE d \in Ranked(w, Rank(w, c)) :
                        \A e \in Ranked(w, Rank(w, c)) : d <= e

Budget(w, c) ==
    LET wanted == Percentile(w, c) - Floor(w) + c.margin
    IN  IF ~c.adaptive THEN c.target
        ELSE IF wanted > c.max THEN c.max
        ELSE IF wanted < c.min THEN c.min
        ELSE wanted

Deadline(w, c, stamp) == stamp + Floor(w) + Budget(w, c)

\* Mutant: the previous release is not looked at.
ReleaseByDeadline(deadline, arrival, last) == IF deadline < arrival THEN arrival ELSE deadline

\* Mutant: two messages never leave in the same tick.
ReleaseApart(deadline, arrival, last) ==
    LET release == IF deadline < arrival THEN arrival ELSE deadline
    IN  IF last # None /\ release <= last THEN last + 1 ELSE release

\* Late: at once.  Never before the message in front.
Release(deadline, arrival, last) ==
    LET release == IF deadline < arrival THEN arrival ELSE deadline
    IN  IF last # None /\ release < last THEN last ELSE release

------------------------------------------------------------------------------
(* The node *)

Init ==
    /\ config \in Config
    /\ now = 0
    /\ delays = <<>>
    /\ last_release = None
    /\ queue = <<>>
    /\ published = <<>>

\* _on_message.  The stamp is the header's: a looping replay takes it back.
OnMessage(stamp) ==
    /\ Len(published) + Len(queue) < MaxMessages
    /\ now + MaxHold <= MaxTime
    /\ now - stamp \in Delay
    /\ LET window   == Remember(delays, now - stamp)
           deadline == Deadline(window, config, stamp)
           release  == Release(deadline, now, last_release)
       IN  /\ delays' = window
           /\ last_release' = release
           /\ queue' = Append(queue, [stamp    |-> stamp,
                                      arrival  |-> now,
                                      deadline |-> deadline,  \* history
                                      release  |-> release])
    /\ UNCHANGED <<config, now, published>>

\* Mutant: a late message is left for somebody else to drop.
DueOnTime(m) == m.release <= now /\ m.deadline >= m.arrival

Due(m) == m.release <= now

\* _release_due: the loop pops every head that is due.
ReleaseDue ==
    /\ \E n \in 1..Len(queue) :
          /\ \A i \in 1..n : Due(queue[i])
          /\ n < Len(queue) => ~Due(queue[n + 1])
          /\ published' = published \o SubSeq(queue, 1, n)
          /\ queue' = SubSeq(queue, n + 1, Len(queue))
    /\ UNCHANGED <<config, now, delays, last_release>>

TimePasses ==
    /\ now < MaxTime
    /\ now' = now + 1
    /\ UNCHANGED <<config, delays, last_release, queue, published>>

Next ==
    \/ \E stamp \in (now - MaxDelay)..(now - MinDelay) : OnMessage(stamp)
    \/ ReleaseDue
    \/ TimePasses

Spec == Init /\ [][Next]_vars

\* The release timer fires and the clock advances.
FairSpec == Spec /\ WF_vars(ReleaseDue) /\ WF_vars(TimePasses)

------------------------------------------------------------------------------
(* Properties *)

Message == [stamp : Stamp, arrival : 0..MaxTime, deadline : Int, release : 0..MaxTime]

TypeOK ==
    /\ config \in Config
    /\ now \in 0..MaxTime
    /\ delays \in Seq(Delay) /\ Len(delays) <= Window
    /\ last_release \in 0..MaxTime \cup {None}
    /\ queue \in Seq(Message)
    /\ published \in Seq(Message)

\* Every message so far, in the order of arrival.
Accepted == published \o queue

\* Pacing never drops or reorders, and holds no message longer than any
\* configuration allows: the node is a delay line, whatever the delays do.
Bare(m) == [stamp |-> m.stamp, arrival |-> m.arrival, release |-> m.release]

Line == INSTANCE DelayLine
        WITH line   <- [i \in DOMAIN queue |-> Bare(queue[i])],
             output <- [i \in DOMAIN published |-> Bare(published[i])]

ImplementsDelayLine == Line!Spec

\* The hold is bounded by the node's own budget, however the floor moves and
\* whatever the clocks' offset is: nothing that waits in front adds to it.
HoldBounded ==
    \A i \in DOMAIN Accepted :
        Accepted[i].release - Accepted[i].arrival \in 0..HoldLimit(config)

\* With a fixed budget a late message passes at once, however the floor moved
\* before it, unless the stream has gone back behind a message that is held
\* still and was stamped later: it leaves with that one.  (With an adaptive
\* budget that has just shrunk it may wait for any message in front.)
LateWaitsOnlyForNewer ==
    ~config.adaptive =>
        \A i \in DOMAIN Accepted :
            LET m == Accepted[i]
            IN  m.deadline < m.arrival =>
                    \/ m.release = m.arrival
                    \/ \E j \in 1..(i - 1) : /\ Accepted[j].stamp > m.stamp
                                            /\ Accepted[j].release = m.release

\* The floor can rise again: after a window of messages on a path whose jitter
\* fits the smallest budget, no message is late, whatever the path was before.
ReAnchored ==
    LET spread == IF config.adaptive THEN config.min ELSE config.target
        d(i)   == Accepted[i].arrival - Accepted[i].stamp
    IN  \A i \in Window..Len(Accepted) :
            (\A j, k \in (i - Window + 1)..i : d(j) - d(k) <= spread)
                => Accepted[i].deadline >= Accepted[i].arrival

\* Every message is handed on.
EveryMessageLeaves ==
    \A n \in 1..MaxMessages : Len(Accepted) >= n ~> Len(published) >= n
===============================================================================
