------------------------------- MODULE LivePoint -------------------------------
(***************************************************************************)
(* One live point of a local benchmark (run_point): two containers on a     *)
(* network of their own, a publisher in the first, the profile armed on     *)
(* both once the stream flows, a measurement window, and a finally.  What   *)
(* is counted afterwards is chosen by publish stamp.                        *)
(***************************************************************************)
EXTENDS Integers, Sequences

CONSTANTS
    Timeline,       \* the steps of a timeline profile
    Duration,       \* how long a profile without steps is measured
    Drain,          \* wait between the last publication and the revert
    Delay,          \* the longest the profile holds a message back
    WarmUp,         \* how long the point waits for the stream to flow
    Life,           \* when the publisher ends by itself
    StartTime,      \* what the clock says as the command starts
    MaxMessages     \* bound on the messages published

ASSUME LivePointAssumption ==
    /\ Timeline \in Seq([lasts : Nat, outage : BOOLEAN]) \ {<<>>}
    /\ Duration \in Nat /\ Drain \in Nat /\ Delay \in Nat /\ WarmUp \in Nat /\ Life \in Nat
    /\ StartTime \in Nat \ {0} /\ MaxMessages \in Nat

VARIABLES
    step,           \* where the point is
    now, wake,      \* the clock, and when the present sleep ends
    up, returned,   \* containers that run, and those whose start returned
    net,            \* the network exists
    timeline,       \* the profile has steps
    armed, legs,    \* registered shapers, and the step each egress is at
    pub,            \* when the publisher ends
    stream,         \* the messages published
    window          \* the measurement window, whole once the point has drained

clock   == <<now, wake>>
lab     == <<up, returned, net>>
shaping == <<timeline, armed, legs>>
traffic == <<pub, stream>>
pointVars == <<step, clock, lab, shaping, traffic, window>>

LabPeer == {"a", "b"}
Unshaped == 0
Dropped  == 0       \* by the profile
Cut      == -1      \* with the queue of the profile, when it is removed

Try          == {"network", "start", "publish", "discover", "arm", "open", "measure", "close", "drain"}
PointFinally == {"revert", "stop"}
PointEnded   == {"summarized", "raised", "left"}

PointInit ==
    /\ step = "network"
    /\ now = StartTime /\ wake = StartTime
    /\ up = {} /\ returned = {} /\ net = FALSE
    /\ timeline \in BOOLEAN
    /\ armed = {} /\ legs = [p \in LabPeer |-> Unshaped]
    /\ pub = 0 /\ stream = <<>>
    /\ window = [from |-> 0, to |-> 0, whole |-> FALSE]

\* The peers are handled one after the other.
NextOf(S) == IF "a" \in S THEN "a" ELSE "b"

(***************************************************************************)
(* The containers and the stream                                           *)
(***************************************************************************)
CreateNetwork ==
    /\ step = "network"
    /\ net' = TRUE
    /\ step' = "start"
    /\ UNCHANGED <<clock, up, returned, shaping, traffic, window>>

StartLabPeer ==
    /\ step = "start"
    /\ LET p == NextOf(LabPeer \ returned)
       IN  /\ up' = up \union {p} /\ returned' = returned \union {p}
           /\ step' = IF p = "b" THEN "publish" ELSE "start"
    /\ UNCHANGED <<clock, net, shaping, traffic, window>>

\* start_session raises, before or after docker run made the container; its
\* name is not returned.
StartRaises ==
    /\ step = "start"
    /\ up' \in {up, up \union {NextOf(LabPeer \ returned)}}
    /\ step' = "revert"
    /\ UNCHANGED <<clock, returned, net, shaping, traffic, window>>

StartPublishers ==
    /\ step = "publish"
    /\ pub' = now + Life
    /\ wake' = now + WarmUp
    /\ step' = "discover"
    /\ UNCHANGED <<now, lab, shaping, stream, window>>

\* netem holds a message back or drops it; an outage drops them all.
Fates(leg) ==
    CASE leg = Unshaped -> {now}
      [] leg # Unshaped /\ timeline /\ Timeline[leg].outage -> {Dropped}
      [] OTHER -> {Dropped} \union now..(now + Delay)

Publish ==
    /\ step \in Try \union PointFinally /\ "a" \in up /\ now < pub
    /\ Len(stream) < MaxMessages
    /\ stream # <<>> => stream[Len(stream)].at < now
    /\ \E due \in Fates(legs["a"]) :
          stream' = Append(stream, [at |-> now, due |-> due, legs |-> legs])
    /\ UNCHANGED <<step, clock, lab, shaping, pub, window>>

Arrived(i) == stream[i].due \notin {Dropped, Cut} /\ stream[i].due <= now

\* The wait for the first delivery ends, seen or not.
Discovered ==
    /\ step = "discover"
    /\ now = wake \/ \E i \in DOMAIN stream : Arrived(i)
    /\ wake' = now
    /\ step' = "arm"
    /\ UNCHANGED <<now, lab, shaping, traffic, window>>

(***************************************************************************)
(* The profile and the window                                              *)
(***************************************************************************)
\* A timeline begins with a clean slate on both; other profiles are armed.
Arm ==
    /\ step = "arm"
    /\ IF timeline
       THEN armed' = LabPeer /\ step' = "open" /\ UNCHANGED legs
       ELSE LET p == NextOf(LabPeer \ armed)
            IN  /\ armed' = armed \union {p}
                /\ legs' = [legs EXCEPT ![p] = 1]
                /\ step' = IF p = "b" THEN "open" ELSE "arm"
    /\ UNCHANGED <<clock, lab, timeline, traffic, window>>

\* A command of the profile fails, the first or a later one; the shaper is
\* registered by then.
ArmRaises ==
    /\ step = "arm" /\ ~timeline
    /\ LET p == NextOf(LabPeer \ armed)
       IN  /\ armed' = armed \union {p}
           /\ legs' \in {legs, [legs EXCEPT ![p] = 1]}
    /\ step' = "revert"
    /\ UNCHANGED <<clock, lab, timeline, traffic, window>>

\* Mutant: the window holds the warm-up too.
OpenFromTheStart ==
    /\ step = "open"
    /\ now' = now + 1
    /\ wake' = now' + (IF timeline THEN 0 ELSE Duration)
    /\ window' = [window EXCEPT !.from = StartTime]
    /\ step' = "measure"
    /\ UNCHANGED <<lab, shaping, traffic>>

\* Two readings of the clock differ, so what was published before is outside.
OpenWindow ==
    /\ step = "open"
    /\ now' = now + 1
    /\ wake' = now' + (IF timeline THEN 0 ELSE Duration)
    /\ window' = [window EXCEPT !.from = now']
    /\ step' = "measure"
    /\ UNCHANGED <<lab, shaping, traffic>>

\* One step of the timeline on the first container, then on the second, and
\* the sleep until the next; qdiscs are replaced in place and keep their queue.
ApplyTimelineStep ==
    /\ step = "measure" /\ timeline /\ now = wake
    /\ \/ /\ legs["a"] = legs["b"] /\ legs["a"] < Len(Timeline)
          /\ legs' = [legs EXCEPT !["a"] = @ + 1]
          /\ UNCHANGED wake
       \/ /\ legs["b"] < legs["a"]
          /\ legs' = [legs EXCEPT !["b"] = legs["a"]]
          /\ wake' = now + Timeline[legs["a"]].lasts
    /\ UNCHANGED <<step, now, lab, timeline, armed, traffic, window>>

CloseWindow ==
    /\ step = "measure" /\ now = wake
    /\ timeline => \A p \in LabPeer : legs[p] = Len(Timeline)
    /\ window' = [window EXCEPT !.to = now]
    /\ now' = now + 1 /\ wake' = now'
    /\ step' = "close"
    /\ UNCHANGED <<lab, shaping, traffic>>

\* pkill in the publisher's container; nobody looks whether it worked.
StopPublishers ==
    /\ step = "close"
    /\ pub' \in {0, pub}
    /\ wake' = now + Drain
    /\ step' = "drain"
    /\ UNCHANGED <<now, lab, shaping, stream, window>>

Drained ==
    /\ step = "drain" /\ now = wake
    /\ window' = [window EXCEPT !.whole = TRUE]
    /\ step' = "revert"
    /\ UNCHANGED <<clock, lab, shaping, traffic>>

Tick ==
    /\ step \in Try /\ now < wake
    /\ now' = now + 1
    /\ UNCHANGED <<step, wake, lab, shaping, traffic, window>>

\* A command raises, or the operator interrupts it.
Raise ==
    /\ step \in Try
    /\ step' = "revert"
    /\ UNCHANGED <<clock, lab, shaping, traffic, window>>

(***************************************************************************)
(* The finally                                                             *)
(***************************************************************************)
\* A teardown that fails is passed over.  What waits in a qdisc goes with it.
Teardown ==
    /\ step = "revert"
    /\ \E reverted \in SUBSET armed :
        /\ legs' = [p \in LabPeer |-> IF p \in reverted THEN Unshaped ELSE legs[p]]
        /\ stream' = [i \in DOMAIN stream |->
                        IF stream[i].due > now /\ "a" \in reverted
                        THEN [stream[i] EXCEPT !.due = Cut] ELSE stream[i]]
    /\ step' = "stop"
    /\ UNCHANGED <<clock, lab, timeline, armed, pub, window>>

\* The shaping of a container goes with it.
StopLabPeer ==
    /\ step = "stop" /\ up \intersect returned # {}
    /\ LET p == NextOf(up \intersect returned)
       IN  /\ up' = up \ {p}
           /\ legs' = [legs EXCEPT ![p] = Unshaped]
    /\ UNCHANGED <<step, clock, returned, net, timeline, armed, traffic, window>>

StopRaises ==
    /\ step = "stop" /\ up \intersect returned # {}
    /\ step' = "left"
    /\ UNCHANGED <<clock, lab, shaping, traffic, window>>

\* docker keeps a network with a container on it; nobody looks at the answer.
RemoveNetwork ==
    /\ step = "stop" /\ up \intersect returned = {}
    /\ net' = (net /\ up # {})
    /\ step' = IF window.whole THEN "summarized" ELSE "raised"
    /\ UNCHANGED <<clock, up, returned, shaping, traffic, window>>

PointNext ==
    \/ CreateNetwork \/ StartLabPeer \/ StartRaises \/ StartPublishers \/ Discovered
    \/ Arm \/ ArmRaises \/ OpenWindow \/ ApplyTimelineStep \/ CloseWindow \/ StopPublishers \/ Drained
    \/ Publish \/ Tick \/ Raise
    \/ Teardown \/ StopLabPeer \/ StopRaises \/ RemoveNetwork

PointSpec == PointInit /\ [][PointNext]_pointVars

(***************************************************************************)
(* What the summary counts (transit.py): the records of the receiver alone, *)
(* or joined with those of the sender, which stamp what was lost as well.   *)
(***************************************************************************)
Lost(i) == ~Arrived(i) /\ \E j \in DOMAIN stream : j > i /\ Arrived(j)

Timed(i, joined) ==
    /\ joined \/ Arrived(i)
    /\ window.from <= stream[i].at /\ stream[i].at <= window.to

Counted(i, joined) ==
    IF Lost(i)
    THEN \E j, k \in DOMAIN stream :
            j <= i /\ i <= k /\ Timed(j, joined) /\ Timed(k, joined)
    ELSE Timed(i, joined)

(***************************************************************************)
(* Properties                                                              *)
(***************************************************************************)
\* README: "--duration is the shaped publish window".  Nothing of the unshaped
\* warm-up is counted, nor what a publisher sends that survived its pkill; of a
\* timeline only what was published between the opening of the window and the
\* first step is counted unshaped.
CountedUnderProfile ==
    step = "summarized" =>
        \A i \in DOMAIN stream, joined \in BOOLEAN : Counted(i, joined) =>
            \A p \in LabPeer : stream[i].legs[p] # Unshaped
                            \/ (timeline /\ stream[i].at = window.from)

\* README: "delayed in-flight messages are not miscounted as loss".  A counted
\* loss was dropped by the profile, never by its removal, if the drain covers
\* the longest delay.
LostInTheProfile ==
    step = "summarized" /\ Delay <= Drain =>
        \A i \in DOMAIN stream, joined \in BOOLEAN :
            Counted(i, joined) /\ Lost(i) => stream[i].due = Dropped

\* A point that was measured leaves no container and no network; one that raised
\* leaves at most a container whose start did not return, and the network only
\* with that.
LeavesNothing ==
    /\ step = "summarized" => up = {} /\ ~net
    /\ step = "raised" => up \intersect returned = {} /\ (up = {} => ~net)

\* What a local point reports, and what it leaves behind.
PointIsSound == CountedUnderProfile /\ LostInTheProfile /\ LeavesNothing
================================================================================
