---------------------------- MODULE LivePoint_proofs ----------------------------
(***************************************************************************)
(* For any timeline, durations, clocks and number of messages, whatever    *)
(* raises where: a point that was measured counts only what its profile    *)
(* carried, loses nothing by its own teardown and leaves nothing behind.   *)
(***************************************************************************)
EXTENDS LivePoint, TLAPS

(***************************************************************************)
(* Typing                                                                  *)
(***************************************************************************)
Leg == 0..Len(Timeline)

Message == [at : Nat \ {0}, due : Int, legs : [LabPeer -> Leg]]

TypeOK ==
    /\ step \in Try \union PointFinally \union PointEnded
    /\ now \in Nat \ {0} /\ wake \in Nat
    /\ up \in SUBSET LabPeer /\ returned \in SUBSET LabPeer /\ net \in BOOLEAN
    /\ timeline \in BOOLEAN
    /\ armed \in SUBSET LabPeer
    /\ legs \in [LabPeer -> Leg]
    /\ pub \in Nat
    /\ stream \in Seq(Message)
    /\ window \in [from : Nat, to : Nat, whole : BOOLEAN]

LEMMA TimelineFacts ==
    /\ Len(Timeline) \in Nat \ {0}
    /\ 0 \in Leg /\ 1 \in Leg
    /\ \A n \in 1..Len(Timeline) : Timeline[n].lasts \in Nat
    /\ Duration \in Nat /\ Drain \in Nat /\ Delay \in Nat
    /\ WarmUp \in Nat /\ Life \in Nat /\ StartTime \in Nat \ {0}
<1> DEFINE S == [lasts : Nat, outage : BOOLEAN]
<1>1. Timeline \in Seq(S) /\ Timeline # <<>>
  BY LivePointAssumption
<1>2. Len(Timeline) \in Nat \ {0} /\ \A n \in 1..Len(Timeline) : Timeline[n] \in S
  <2> HIDE DEF S
  <2> QED
    BY <1>1
<1> QED
  BY <1>2, LivePointAssumption DEF Leg

LEMMA PeersAre == \A S : NextOf(S) \in LabPeer
  BY DEF NextOf, LabPeer

LEMMA FatesAre ==
    ASSUME TypeOK, NEW leg, NEW due \in Fates(leg)
    PROVE  due = Dropped \/ due \in now..(now + Delay)
<1>1. now \in Nat /\ Delay \in Nat
  BY TimelineFacts DEF TypeOK
<1>2. CASE leg = Unshaped
  BY <1>1, <1>2 DEF Fates
<1>3. CASE leg # Unshaped
  BY <1>3 DEF Fates
<1> QED
  BY <1>2, <1>3

LEMMA TypeCorrect == PointSpec => []TypeOK
<1>1. PointInit => TypeOK
  <2> SUFFICES ASSUME PointInit PROVE TypeOK
    OBVIOUS
  <2>1. stream \in Seq(Message)
    BY DEF PointInit
  <2>2. window \in [from : Nat, to : Nat, whole : BOOLEAN]
    BY DEF PointInit
  <2>3. step \in Try /\ legs \in [LabPeer -> Leg]
    BY TimelineFacts DEF PointInit, Try, Unshaped
  <2> QED
    BY <2>1, <2>2, <2>3, TimelineFacts DEF PointInit, TypeOK, Try, LabPeer
<1>2. TypeOK /\ [PointNext]_pointVars => TypeOK'
  <2> SUFFICES ASSUME TypeOK, [PointNext]_pointVars PROVE TypeOK'
    OBVIOUS
  <2> USE TimelineFacts DEF TypeOK, clock, lab, shaping, traffic
  <2>1. CASE CreateNetwork
    BY <2>1 DEF CreateNetwork, Try
  <2>2. CASE StartLabPeer
    BY <2>2, PeersAre DEF StartLabPeer, Try
  <2>3. CASE StartRaises
    BY <2>3, PeersAre DEF StartRaises, PointFinally
  <2>4. CASE StartPublishers
    BY <2>4 DEF StartPublishers, Try
  <2>5. CASE Discovered
    BY <2>5 DEF Discovered, Try
  <2>6. CASE Arm
    BY <2>6, PeersAre DEF Arm, Try
  <2>7. CASE ArmRaises
    BY <2>7, PeersAre DEF ArmRaises, PointFinally
  <2>8. CASE OpenWindow
    <3>1. now' \in Nat \ {0} /\ wake' \in Nat
      BY <2>8 DEF OpenWindow
    <3> QED
      BY <2>8, <3>1 DEF OpenWindow, Try
  <2>9. CASE ApplyTimelineStep
    <3>1. UNCHANGED <<step, now, up, returned, net, timeline, armed, pub, stream, window>>
      BY <2>9 DEF ApplyTimelineStep
    <3>2. legs["a"] \in 0..Len(Timeline) /\ legs["b"] \in 0..Len(Timeline)
      BY DEF LabPeer, Leg
    <3>3. legs' \in [LabPeer -> Leg] /\ wake' \in Nat
      <4>1. CASE /\ legs["a"] = legs["b"] /\ legs["a"] < Len(Timeline)
                 /\ legs' = [legs EXCEPT !["a"] = @ + 1]
                 /\ UNCHANGED wake
        <5>1. legs["a"] + 1 \in Leg
          BY <3>2, <4>1, TimelineFacts DEF Leg
        <5> QED
          BY <4>1, <5>1
      <4>2. CASE /\ legs["b"] < legs["a"]
                 /\ legs' = [legs EXCEPT !["b"] = legs["a"]]
                 /\ wake' = now + Timeline[legs["a"]].lasts
        <5>1. legs["a"] \in 1..Len(Timeline)
          BY <3>2, <4>2
        <5>2. Timeline[legs["a"]].lasts \in Nat
          BY <5>1
        <5>3. wake' \in Nat
          <6>1. PICK n \in Nat : n = Timeline[legs["a"]].lasts
            BY <5>2
          <6>2. wake' = now + n /\ now \in Nat
            BY <4>2, <6>1
          <6> QED
            BY <6>2
        <5>4. legs["a"] \in Leg
          BY <3>2 DEF Leg
        <5>5. legs' \in [LabPeer -> Leg]
          BY <4>2, <5>4
        <5> QED
          BY <5>3, <5>5
      <4> QED
        BY <2>9, <4>1, <4>2 DEF ApplyTimelineStep
    <3> QED
      BY <3>1, <3>3
  <2>10. CASE CloseWindow
    <3>1. now' \in Nat \ {0} /\ wake' \in Nat
      BY <2>10 DEF CloseWindow
    <3> QED
      BY <2>10, <3>1 DEF CloseWindow, Try
  <2>11. CASE StopPublishers
    BY <2>11 DEF StopPublishers, Try
  <2>12. CASE Drained
    BY <2>12 DEF Drained, PointFinally
  <2>13. CASE Publish
    <3>1. PICK due \in Fates(legs["a"]) :
             stream' = Append(stream, [at |-> now, due |-> due, legs |-> legs])
      BY <2>13 DEF Publish
    <3>2. due \in Int
      BY <3>1, FatesAre DEF Dropped
    <3>3. [at |-> now, due |-> due, legs |-> legs] \in Message
      BY <3>2 DEF Message
    <3>4. stream' \in Seq(Message)
      BY <3>1, <3>3
    <3> QED
      BY <2>13, <3>4 DEF Publish
  <2>14. CASE Tick
    BY <2>14 DEF Tick
  <2>15. CASE Raise
    BY <2>15 DEF Raise, PointFinally
  <2>16. CASE Teardown
    <3>1. PICK reverted \in SUBSET armed :
            /\ legs' = [p \in LabPeer |-> IF p \in reverted THEN Unshaped ELSE legs[p]]
            /\ stream' = [i \in DOMAIN stream |->
                            IF stream[i].due > now /\ "a" \in reverted
                            THEN [stream[i] EXCEPT !.due = Cut] ELSE stream[i]]
      BY <2>16 DEF Teardown
    <3>2. legs' \in [LabPeer -> Leg]
      BY <3>1 DEF Unshaped
    <3>3. \A i \in DOMAIN stream : stream[i] \in Message /\ [stream[i] EXCEPT !.due = Cut] \in Message
      <4>1. ASSUME NEW i \in DOMAIN stream PROVE stream[i] \in Message
        OBVIOUS
      <4>2. \A m \in Message : [m EXCEPT !.due = Cut] \in Message
        <5>1. Cut \in Int
          BY DEF Cut
        <5> QED
          BY <5>1 DEF Message
      <4> QED
        BY <4>1, <4>2
    <3>4. stream' \in Seq(Message)
      <4>1. DOMAIN stream = 1..Len(stream) /\ Len(stream) \in Nat
        OBVIOUS
      <4>2. stream' \in [1..Len(stream) -> Message]
        BY <3>1, <3>3, <4>1
      <4> QED
        BY <4>1, <4>2
    <3> QED
      BY <2>16, <3>2, <3>4 DEF Teardown, PointFinally
  <2>17. CASE StopLabPeer
    BY <2>17, PeersAre DEF StopLabPeer, Unshaped
  <2>18. CASE StopRaises
    BY <2>18 DEF StopRaises, PointEnded
  <2>19. CASE RemoveNetwork
    BY <2>19 DEF RemoveNetwork, PointEnded
  <2>20. CASE UNCHANGED pointVars
    BY <2>20 DEF pointVars
  <2> QED
    BY <2>1, <2>2, <2>3, <2>4, <2>5, <2>6, <2>7, <2>8, <2>9, <2>10, <2>11, <2>12, <2>13,
       <2>14, <2>15, <2>16, <2>17, <2>18, <2>19, <2>20 DEF PointNext
<1> QED
  BY <1>1, <1>2, PTL DEF PointSpec

(***************************************************************************)
(* The invariants of a point                                               *)
(***************************************************************************)
\* Both containers were started before anything was published, and a window is
\* whole only once the point has drained.
StartedInv ==
    /\ step = "start" => returned \in {{}, {"a"}}
    /\ step = "network" => returned = {}
    /\ step \in Try \ {"network", "start"} \/ window.whole => returned = LabPeer
    /\ window.whole => step \notin Try
    /\ step = "summarized" => window.whole

\* Messages are stamped in order, and held back no longer than the profile says.
StreamInv ==
    /\ \A i \in DOMAIN stream : stream[i].at <= now
    /\ \A i, j \in DOMAIN stream : i < j => stream[i].at < stream[j].at
    /\ \A i \in DOMAIN stream :
          stream[i].due \in {Dropped, Cut} \/ stream[i].due <= stream[i].at + Delay

\* A profile is on both egresses before the window opens; a timeline follows on
\* at the reading of the clock that opened it.
ArmedInv ==
    /\ step \in {"network", "start", "publish", "discover"} => armed = {}
    /\ step \in Try \ {"measure", "close", "drain"} /\ timeline =>
          \A p \in LabPeer : legs[p] = Unshaped
    /\ step = "arm" /\ ~timeline =>
          armed \in {{}, {"a"}} /\ \A p \in armed : legs[p] = 1
    /\ step \in {"open", "measure"} /\ ~timeline => \A p \in LabPeer : legs[p] = 1
    /\ step = "measure" /\ timeline =>
          /\ legs["b"] <= legs["a"]
          /\ legs["b"] = Unshaped => now = window.from /\ wake = now

\* What was stamped in the window was shaped, and neither what was published
\* before it nor what is published after it carries a stamp of it.
Shaped(i) ==
    \A p \in LabPeer : stream[i].legs[p] # Unshaped
                    \/ (timeline /\ stream[i].at = window.from)

Closed == window.whole \/ step \in {"close", "drain"}

WindowInv ==
    /\ step = "measure" =>
          /\ window.from <= now
          /\ \A i \in DOMAIN stream : stream[i].at >= window.from => Shaped(i)
    /\ Closed =>
          /\ window.to < now
          /\ \A i \in DOMAIN stream :
                window.from <= stream[i].at /\ stream[i].at <= window.to => Shaped(i)

\* The shaping is removed only after the drain, when all that was published in
\* the window has come out of it.
DrainedInv ==
    /\ step \in Try \union {"revert"} => \A i \in DOMAIN stream : stream[i].due # Cut
    /\ step = "drain" => wake > window.to + Drain
    /\ window.whole => now > window.to + Drain
    /\ window.whole /\ Delay <= Drain =>
          \A i \in DOMAIN stream : stream[i].at <= window.to => stream[i].due # Cut

PointInv ==
    TypeOK /\ StartedInv /\ StreamInv /\ ArmedInv /\ WindowInv /\ DrainedInv /\ LeavesNothing

(***************************************************************************)
(* What a step does to the stream                                          *)
(***************************************************************************)
LEMMA Published ==
    ASSUME TypeOK, Publish
    PROVE  /\ DOMAIN stream \subseteq DOMAIN stream' /\ DOMAIN stream = 1..Len(stream)
           /\ Len(stream) + 1 \in DOMAIN stream'
           /\ \A i \in DOMAIN stream' : i \notin DOMAIN stream => i = Len(stream) + 1
           /\ \A i \in DOMAIN stream : stream'[i] = stream[i]
           /\ LET m == stream'[Len(stream) + 1]
              IN  /\ m.at = now /\ m.legs = legs
                  /\ m.due = Dropped \/ m.due \in now..(now + Delay)
           /\ stream # <<>> => stream[Len(stream)].at < now
           /\ now' = now /\ step' = step /\ wake' = wake /\ window' = window
           /\ UNCHANGED <<lab, shaping>>
           /\ step \in Try \union PointFinally /\ "a" \in up
<1>1. PICK due \in Fates(legs["a"]) :
         stream' = Append(stream, [at |-> now, due |-> due, legs |-> legs])
  BY DEF Publish
<1> DEFINE m == [at |-> now, due |-> due, legs |-> legs]
<1>2. m.at = now /\ m.legs = legs /\ m.due = due
  OBVIOUS
<1>3. due = Dropped \/ due \in now..(now + Delay)
  BY <1>1, FatesAre
<1>4. stream \in Seq(Message) /\ Len(stream) \in Nat
  BY DEF TypeOK
<1> HIDE DEF m
<1>5. stream' = Append(stream, m)
  BY <1>1 DEF m
<1>6. /\ DOMAIN stream = 1..Len(stream) /\ DOMAIN stream' = 1..(Len(stream) + 1)
      /\ \A i \in 1..Len(stream) : stream'[i] = stream[i]
      /\ stream'[Len(stream) + 1] = m
  BY <1>4, <1>5
<1> QED
  BY <1>2, <1>3, <1>4, <1>6 DEF Publish, clock

\* Only a publication and the removal of the shaping touch the stream.
LEMMA StreamStays ==
    ASSUME [PointNext]_pointVars, ~Publish, ~Teardown
    PROVE  UNCHANGED stream
BY DEF PointNext, pointVars, CreateNetwork, StartLabPeer, StartRaises, StartPublishers, Discovered, Arm,
       ArmRaises, OpenWindow, ApplyTimelineStep, CloseWindow, StopPublishers, Drained, Tick, Raise,
       StopLabPeer, StopRaises, RemoveNetwork, traffic

LEMMA Reverted ==
    ASSUME TypeOK, Teardown
    PROVE  /\ DOMAIN stream' = DOMAIN stream
           /\ \A i \in DOMAIN stream :
                 /\ stream'[i].at = stream[i].at /\ stream'[i].legs = stream[i].legs
                 /\ stream'[i].due = stream[i].due \/ (stream'[i].due = Cut /\ stream[i].due > now)
           /\ step = "revert" /\ step' = "stop"
           /\ UNCHANGED <<now, wake, up, returned, net, timeline, armed, window>>
<1>1. PICK reverted \in SUBSET armed :
        stream' = [i \in DOMAIN stream |->
                     IF stream[i].due > now /\ "a" \in reverted
                     THEN [stream[i] EXCEPT !.due = Cut] ELSE stream[i]]
  BY DEF Teardown
<1>2. \A i \in DOMAIN stream : stream[i] \in Message
  BY DEF TypeOK
<1>3. \A m \in Message : LET c == [m EXCEPT !.due = Cut]
                         IN  c.at = m.at /\ c.legs = m.legs /\ c.due = Cut
  BY DEF Message
<1>4. DOMAIN stream' = DOMAIN stream
  BY <1>1
<1>5. ASSUME NEW i \in DOMAIN stream
      PROVE  /\ stream'[i].at = stream[i].at /\ stream'[i].legs = stream[i].legs
             /\ stream'[i].due = stream[i].due \/ (stream'[i].due = Cut /\ stream[i].due > now)
  <2>1. CASE stream[i].due > now /\ "a" \in reverted
    <3>1. stream'[i] = [stream[i] EXCEPT !.due = Cut]
      BY <1>1, <2>1
    <3> QED
      BY <1>2, <1>3, <2>1, <3>1
  <2>2. CASE ~(stream[i].due > now /\ "a" \in reverted)
    BY <1>1, <2>2
  <2> QED
    BY <2>1, <2>2
<1> QED
  BY <1>4, <1>5 DEF Teardown, clock, lab

\* The clock does not step back.
LEMMA TimeGoesOn ==
    ASSUME TypeOK, [PointNext]_pointVars
    PROVE  now' >= now
BY DEF TypeOK, PointNext, pointVars, CreateNetwork, StartLabPeer, StartRaises, StartPublishers, Discovered, Arm,
       ArmRaises, OpenWindow, ApplyTimelineStep, CloseWindow, StopPublishers, Drained, Tick, Raise,
       StopLabPeer, StopRaises, RemoveNetwork, Publish, Teardown, clock

LEMMA MessageFacts ==
    ASSUME TypeOK, NEW i \in DOMAIN stream
    PROVE  /\ i \in 1..Len(stream) /\ Len(stream) \in Nat
           /\ stream[i].at \in Nat \ {0} /\ stream[i].due \in Int
           /\ stream[i].legs \in [LabPeer -> Leg]
<1>1. stream[i] \in Message
  BY DEF TypeOK
<1> QED
  BY <1>1 DEF TypeOK, Message

LEMMA StreamStep ==
    ASSUME TypeOK, TypeOK', StreamInv, [PointNext]_pointVars
    PROVE  StreamInv'
<1>0. now \in Nat /\ now' \in Nat /\ now' >= now /\ Delay \in Nat
  BY TimeGoesOn, TimelineFacts DEF TypeOK
<1>1. CASE Publish
  <2> DEFINE n == Len(stream) + 1
             m == stream'[n]
  <2>1. /\ m.at = now /\ now' = now
        /\ m.due = Dropped \/ m.due \in now..(now + Delay)
    BY <1>1, Published
  <2>2. \A i \in DOMAIN stream : stream[i].at < now /\ i < n /\ i \in Nat
    <3> SUFFICES ASSUME NEW i \in DOMAIN stream PROVE stream[i].at < now /\ i < n /\ i \in Nat
      OBVIOUS
    <3>1. i \in 1..Len(stream) /\ Len(stream) \in Nat /\ Len(stream) \in DOMAIN stream
      BY MessageFacts, <1>1, Published
    <3>2. stream[Len(stream)].at < now
      BY <1>1, <3>1, Published DEF TypeOK
    <3>3. i = Len(stream) \/ stream[i].at < stream[Len(stream)].at
      BY <3>1 DEF StreamInv
    <3>4. stream[i].at \in Nat /\ stream[Len(stream)].at \in Nat
      BY <3>1, MessageFacts
    <3> QED
      BY <1>0, <3>1, <3>2, <3>3, <3>4
  <2>3. \A i \in DOMAIN stream' : i = n \/ (i \in DOMAIN stream /\ stream'[i] = stream[i])
    BY <1>1, Published
  <2> HIDE DEF m
  <2>4. \A i \in DOMAIN stream' : stream'[i].at <= now'
    BY <1>0, <2>1, <2>3 DEF StreamInv, m
  <2>5. ASSUME NEW i \in DOMAIN stream', NEW j \in DOMAIN stream', i < j
        PROVE  stream'[i].at < stream'[j].at
    <3>1. n \in Nat
      BY <1>1, Published DEF TypeOK
    <3>2. CASE j = n
      <4>1. i # n
        BY <2>5, <3>1, <3>2
      <4> QED
        BY <2>1, <2>2, <2>3, <3>2, <4>1 DEF m
    <3>3. CASE j # n
      <4>1. j \in DOMAIN stream /\ j < n /\ j \in Nat
        BY <2>2, <2>3, <3>3
      <4>2. i # n
        BY <2>5, <3>1, <4>1
      <4> QED
        BY <2>3, <2>5, <4>1, <4>2 DEF StreamInv
    <3> QED
      BY <3>2, <3>3
  <2>6. ASSUME NEW i \in DOMAIN stream'
        PROVE  stream'[i].due \in {Dropped, Cut} \/ stream'[i].due <= stream'[i].at + Delay
    <3>1. CASE i = n
      BY <1>0, <2>1, <3>1 DEF m
    <3>2. CASE i # n
      BY <2>3, <3>2 DEF StreamInv
    <3> QED
      BY <3>1, <3>2
  <2> QED
    BY <2>4, <2>5, <2>6 DEF StreamInv
<1>2. CASE Teardown
  <2>1. /\ DOMAIN stream' = DOMAIN stream
        /\ \A i \in DOMAIN stream :
              /\ stream'[i].at = stream[i].at
              /\ stream'[i].due = stream[i].due \/ stream'[i].due = Cut
    BY <1>2, Reverted
  <2>2. now' = now
    BY <1>2, Reverted
  <2> QED
    BY <2>1, <2>2 DEF StreamInv
<1>3. CASE ~Publish /\ ~Teardown
  <2>1. UNCHANGED stream
    BY <1>3, StreamStays
  <2>2. \A i \in DOMAIN stream : stream[i].at \in Nat
    BY MessageFacts
  <2>3. \A i \in DOMAIN stream : stream[i].at <= now'
    BY <1>0, <2>2 DEF StreamInv
  <2> QED
    BY <2>1, <2>3 DEF StreamInv
<1> QED
  BY <1>1, <1>2, <1>3

LEMMA StartedStep ==
    ASSUME TypeOK, StartedInv, [PointNext]_pointVars
    PROVE  StartedInv'
<1> USE DEF StartedInv, TypeOK, Try, PointFinally, PointEnded, clock, lab, shaping, traffic
<1>1. CASE CreateNetwork
  BY <1>1 DEF CreateNetwork
<1>2. CASE StartLabPeer
  <2>1. returned \in {{}, {"a"}}
    BY <1>2 DEF StartLabPeer
  <2>2. CASE returned = {}
    BY <1>2, <2>2 DEF StartLabPeer, NextOf, LabPeer
  <2>3. CASE returned = {"a"}
    BY <1>2, <2>3 DEF StartLabPeer, NextOf, LabPeer
  <2> QED
    BY <2>1, <2>2, <2>3
<1>3. CASE StartRaises
  BY <1>3 DEF StartRaises
<1>4. CASE StartPublishers
  BY <1>4 DEF StartPublishers
<1>5. CASE Discovered
  BY <1>5 DEF Discovered
<1>6. CASE Arm
  BY <1>6 DEF Arm
<1>7. CASE ArmRaises
  BY <1>7 DEF ArmRaises
<1>8. CASE OpenWindow
  BY <1>8 DEF OpenWindow
<1>9. CASE ApplyTimelineStep
  BY <1>9 DEF ApplyTimelineStep
<1>10. CASE CloseWindow
  BY <1>10 DEF CloseWindow
<1>11. CASE StopPublishers
  BY <1>11 DEF StopPublishers
<1>12. CASE Drained
  BY <1>12 DEF Drained
<1>13. CASE Publish
  BY <1>13 DEF Publish
<1>14. CASE Tick
  BY <1>14 DEF Tick
<1>15. CASE Raise
  BY <1>15 DEF Raise
<1>16. CASE Teardown
  BY <1>16 DEF Teardown
<1>17. CASE StopLabPeer
  BY <1>17 DEF StopLabPeer
<1>18. CASE StopRaises
  BY <1>18 DEF StopRaises
<1>19. CASE RemoveNetwork
  BY <1>19 DEF RemoveNetwork
<1>20. CASE UNCHANGED pointVars
  BY <1>20 DEF pointVars
<1> QED
  BY <1>1, <1>2, <1>3, <1>4, <1>5, <1>6, <1>7, <1>8, <1>9, <1>10, <1>11, <1>12, <1>13,
     <1>14, <1>15, <1>16, <1>17, <1>18, <1>19, <1>20 DEF PointNext

\* A point that has its verdict is over, so what it left is what it leaves.
LEMMA LeavesStep ==
    ASSUME TypeOK, StartedInv, LeavesNothing, [PointNext]_pointVars
    PROVE  LeavesNothing'
<1>1. CASE RemoveNetwork
  <2>1. /\ up \intersect returned = {} /\ net' = (net /\ up # {}) /\ up' = up
        /\ returned' = returned
        /\ step' = IF window.whole THEN "summarized" ELSE "raised"
    BY <1>1 DEF RemoveNetwork
  <2>2. window.whole => up = {}
    BY <2>1 DEF StartedInv, TypeOK
  <2> QED
    BY <2>1, <2>2 DEF LeavesNothing
<1>2. CASE UNCHANGED pointVars
  BY <1>2 DEF pointVars, lab, LeavesNothing
<1>3. CASE ~RemoveNetwork /\ PointNext
  <2>1. step' \notin {"summarized", "raised"}
    BY <1>3 DEF PointNext, CreateNetwork, StartLabPeer, StartRaises, StartPublishers, Discovered, Arm,
         ArmRaises, OpenWindow, ApplyTimelineStep, CloseWindow, StopPublishers, Drained, Publish, Tick,
         Raise, Teardown, StopLabPeer, StopRaises, Try, PointFinally
  <2> QED
    BY <2>1 DEF LeavesNothing
<1> QED
  BY <1>1, <1>2, <1>3


LEMMA ArmedStep ==
    ASSUME TypeOK, ArmedInv, [PointNext]_pointVars
    PROVE  ArmedInv'
<1> USE DEF ArmedInv, TypeOK, Try, PointFinally, PointEnded, clock, lab, shaping, traffic
<1>1. CASE CreateNetwork
  BY <1>1 DEF CreateNetwork
<1>2. CASE StartLabPeer
  BY <1>2 DEF StartLabPeer
<1>3. CASE StartRaises
  BY <1>3 DEF StartRaises
<1>4. CASE StartPublishers
  BY <1>4 DEF StartPublishers
<1>5. CASE Discovered
  BY <1>5 DEF Discovered
<1>6. CASE Arm
  <2>1. CASE timeline
    BY <1>6, <2>1 DEF Arm
  <2>2. CASE ~timeline
    <3> DEFINE p == NextOf(LabPeer \ armed)
    <3>1. /\ armed \in {{}, {"a"}} /\ \A q \in armed : legs[q] = 1
          /\ armed' = armed \union {p} /\ legs' = [legs EXCEPT ![p] = 1]
          /\ step' = IF p = "b" THEN "open" ELSE "arm"
          /\ UNCHANGED <<now, wake, window, timeline>>
      BY <1>6, <2>2 DEF Arm
    <3>2. CASE armed = {}
      <4>1. p = "a"
        BY <3>2 DEF NextOf, LabPeer
      <4> QED
        BY <2>2, <3>1, <3>2, <4>1 DEF LabPeer
    <3>3. CASE armed = {"a"}
      <4>1. p = "b"
        BY <3>3 DEF NextOf, LabPeer
      <4>2. \A q \in LabPeer : legs'[q] = 1
        BY <3>1, <3>3, <4>1 DEF LabPeer
      <4> QED
        BY <2>2, <3>1, <4>1, <4>2
    <3> QED
      BY <3>1, <3>2, <3>3
  <2> QED
    BY <2>1, <2>2
<1>7. CASE ArmRaises
  BY <1>7 DEF ArmRaises
<1>8. CASE OpenWindow
  <2>1. /\ step = "open" /\ step' = "measure" /\ legs' = legs /\ timeline' = timeline
        /\ now' = window'.from /\ (timeline => wake' = now' + 0)
    BY <1>8 DEF OpenWindow
  <2>2. now' \in Nat /\ legs["a"] \in Nat /\ legs["b"] \in Nat
    <3>1. "a" \in LabPeer /\ "b" \in LabPeer /\ Leg \subseteq Nat
      BY TimelineFacts DEF LabPeer, Leg
    <3> QED
      BY <3>1, <1>8 DEF OpenWindow
  <2>3. timeline => legs["a"] = 0 /\ legs["b"] = 0
    BY <2>1 DEF LabPeer, Unshaped
  <2> QED
    BY <2>1, <2>2, <2>3
<1>9. CASE ApplyTimelineStep
  <2>1. /\ step = "measure" /\ step' = "measure" /\ timeline /\ timeline' /\ now' = now
        /\ window' = window /\ armed' = armed
    BY <1>9 DEF ApplyTimelineStep
  <2>2. legs["a"] \in Nat /\ legs["b"] \in Nat
    <3>1. "a" \in LabPeer /\ "b" \in LabPeer /\ Leg \subseteq Nat
      BY TimelineFacts DEF LabPeer, Leg
    <3> QED
      BY <3>1
  <2>3. /\ legs'["b"] <= legs'["a"]
        /\ legs'["b"] = Unshaped => now' = window'.from /\ wake' = now'
    <3>1. CASE /\ legs["a"] = legs["b"] /\ legs' = [legs EXCEPT !["a"] = @ + 1]
               /\ UNCHANGED wake
      <4>1. legs'["b"] = legs["b"] /\ legs'["a"] = legs["a"] + 1
        BY <3>1 DEF LabPeer
      <4> QED
        BY <2>1, <2>2, <3>1, <4>1
    <3>2. CASE legs["b"] < legs["a"] /\ legs' = [legs EXCEPT !["b"] = legs["a"]]
      <4>1. legs'["b"] = legs["a"] /\ legs'["a"] = legs["a"]
        BY <3>2 DEF LabPeer
      <4> QED
        BY <2>1, <2>2, <3>2, <4>1 DEF Unshaped
    <3> QED
      BY <1>9, <3>1, <3>2 DEF ApplyTimelineStep
  <2> QED
    BY <2>1, <2>3
<1>10. CASE CloseWindow
  BY <1>10 DEF CloseWindow
<1>11. CASE StopPublishers
  BY <1>11 DEF StopPublishers
<1>12. CASE Drained
  BY <1>12 DEF Drained
<1>13. CASE Publish
  BY <1>13 DEF Publish
<1>14. CASE Tick
  <2>1. step' = step /\ wake' = wake /\ now < wake /\ window' = window
        /\ UNCHANGED <<timeline, armed, legs>>
    BY <1>14 DEF Tick
  <2>2. step = "measure" /\ timeline => legs["b"] # Unshaped
    BY <2>1
  <2> QED
    BY <2>1, <2>2
<1>15. CASE Raise
  BY <1>15 DEF Raise
<1>16. CASE Teardown
  BY <1>16 DEF Teardown
<1>17. CASE StopLabPeer
  BY <1>17 DEF StopLabPeer
<1>18. CASE StopRaises
  BY <1>18 DEF StopRaises
<1>19. CASE RemoveNetwork
  BY <1>19 DEF RemoveNetwork
<1>20. CASE UNCHANGED pointVars
  BY <1>20 DEF pointVars
<1> QED
  BY <1>1, <1>2, <1>3, <1>4, <1>5, <1>6, <1>7, <1>8, <1>9, <1>10, <1>11, <1>12, <1>13,
     <1>14, <1>15, <1>16, <1>17, <1>18, <1>19, <1>20 DEF PointNext

\* What a step does to the window, and what it then still has to say of time.
LEMMA WindowSteps ==
    ASSUME [PointNext]_pointVars
    PROVE  /\ window' = window \/ OpenWindow \/ CloseWindow \/ Drained
           /\ step' = "measure" => step = "measure" \/ OpenWindow
           /\ step' \in {"close", "drain"} => step \in {"close", "drain"} \/ CloseWindow
           /\ timeline' = timeline
BY DEF PointNext, CreateNetwork, StartLabPeer, StartRaises, StartPublishers, Discovered, Arm,
       ArmRaises, OpenWindow, ApplyTimelineStep, CloseWindow, StopPublishers, Drained, Publish, Tick,
       Raise, Teardown, StopLabPeer, StopRaises, RemoveNetwork, Try, pointVars, shaping

\* A message keeps its stamp and what carried it.
LEMMA StampsStay ==
    ASSUME TypeOK, [PointNext]_pointVars
    PROVE  /\ DOMAIN stream \subseteq DOMAIN stream'
           /\ \A i \in DOMAIN stream :
                 stream'[i].at = stream[i].at /\ stream'[i].legs = stream[i].legs
           /\ ~Publish => DOMAIN stream' = DOMAIN stream
<1>1. CASE Publish
  BY <1>1, Published
<1>2. CASE Teardown
  BY <1>2, Reverted DEF Publish, Teardown, Try, PointFinally
<1>3. CASE ~Publish /\ ~Teardown
  BY <1>3, StreamStays
<1> QED
  BY <1>1, <1>2, <1>3

LEMMA WindowStep ==
    ASSUME TypeOK, TypeOK', StartedInv, StreamInv, ArmedInv, WindowInv,
           [PointNext]_pointVars
    PROVE  WindowInv'
<1>0. /\ now \in Nat /\ now' \in Nat /\ now' >= now
      /\ window.from \in Nat /\ window.to \in Nat /\ window'.from \in Nat /\ window'.to \in Nat
      /\ \A i \in DOMAIN stream : stream[i].at \in Nat
  BY TimeGoesOn, MessageFacts DEF TypeOK
<1>1. CASE OpenWindow
  <2>1. /\ step' = "measure" /\ now' = now + 1 /\ window' = [window EXCEPT !.from = now']
        /\ step = "open" /\ stream' = stream
    BY <1>1 DEF OpenWindow, traffic
  <2>2. window'.from = now' /\ window'.whole = window.whole
    BY <2>1 DEF TypeOK
  <2>3. ~window'.whole
    BY <2>1, <2>2 DEF StartedInv, Try
  <2>4. \A i \in DOMAIN stream : ~(stream[i].at >= window'.from)
    BY <1>0, <2>1, <2>2 DEF StreamInv
  <2> QED
    BY <1>0, <2>1, <2>2, <2>3, <2>4 DEF WindowInv, Closed
<1>2. CASE CloseWindow
  <2>1. /\ step = "measure" /\ step' = "close" /\ window' = [window EXCEPT !.to = now]
        /\ now' = now + 1 /\ stream' = stream /\ timeline' = timeline
    BY <1>2 DEF CloseWindow, traffic, shaping
  <2>2. window'.to = now /\ window'.from = window.from
    BY <2>1 DEF TypeOK
  <2>3. \A i \in DOMAIN stream : stream[i].at >= window.from => Shaped(i)
    BY <2>1 DEF WindowInv
  <2> QED
    BY <1>0, <2>1, <2>2, <2>3 DEF WindowInv, Closed, Shaped
<1>3. CASE ~OpenWindow /\ ~CloseWindow
  <2>1. /\ window'.from = window.from /\ window'.to = window.to
        /\ Closed' => Closed /\ (step' = "measure" => step = "measure")
    <3>1. CASE Drained
      BY <3>1 DEF Drained, TypeOK, Closed
    <3>2. CASE ~Drained
      BY <1>3, <3>2, WindowSteps DEF Closed
    <3> QED
      BY <3>1, <3>2
  <2>2. step' = "measure" => step = "measure"
    BY <1>3, WindowSteps
  <2>3. timeline' = timeline
    BY WindowSteps
  <2>4. CASE ~Publish
    <3>1. /\ DOMAIN stream' = DOMAIN stream
          /\ \A i \in DOMAIN stream :
                stream'[i].at = stream[i].at /\ stream'[i].legs = stream[i].legs
      BY <2>4, StampsStay
    <3>2. \A i \in DOMAIN stream : Shaped(i) => Shaped(i)'
      BY <2>1, <2>3, <3>1 DEF Shaped
    <3> QED
      BY <1>0, <2>1, <2>2, <3>1, <3>2 DEF WindowInv
  <2>5. CASE Publish
    <3>0. PICK n : n = Len(stream) + 1
      OBVIOUS
    <3>1. /\ \A i \in DOMAIN stream : stream'[i] = stream[i]
          /\ \A i \in DOMAIN stream' : i \in DOMAIN stream \/ i = n
          /\ stream'[n].at = now /\ stream'[n].legs = legs
          /\ UNCHANGED <<now, wake, step, window>>
      BY <2>5, <3>0, Published
    <3>2. \A i \in DOMAIN stream : Shaped(i) => Shaped(i)'
      BY <2>1, <2>3, <3>1 DEF Shaped
    <3>3. ASSUME step = "measure", stream'[n].at >= window.from
          PROVE  Shaped(n)'
      <4>1. CASE ~timeline
        BY <2>3, <3>1, <3>3, <4>1 DEF ArmedInv, Shaped, Unshaped
      <4>2. CASE timeline /\ legs["b"] = Unshaped
        BY <2>3, <3>1, <3>3, <4>2 DEF ArmedInv, Shaped
      <4>3. CASE timeline /\ legs["b"] # Unshaped
        <5>1. legs["b"] <= legs["a"] /\ legs["a"] \in Nat /\ legs["b"] \in Nat
          <6>1. "a" \in LabPeer /\ "b" \in LabPeer /\ Leg \subseteq Nat
            BY TimelineFacts DEF LabPeer, Leg
          <6> QED
            BY <3>3, <4>3, <6>1 DEF ArmedInv, TypeOK
        <5>2. \A p \in LabPeer : legs[p] # Unshaped
          BY <4>3, <5>1 DEF LabPeer, Unshaped
        <5> QED
          BY <3>1, <5>2 DEF Shaped
      <4> QED
        BY <4>1, <4>2, <4>3
    <3>4. Closed => ~(stream'[n].at <= window.to)
      BY <1>0, <3>1 DEF WindowInv
    <3> QED
      BY <1>0, <2>1, <2>2, <3>1, <3>2, <3>3, <3>4 DEF WindowInv
  <2> QED
    BY <2>4, <2>5
<1> QED
  BY <1>1, <1>2, <1>3

LEMMA DrainedStep ==
    ASSUME TypeOK, TypeOK', StartedInv, StreamInv, WindowInv, DrainedInv,
           [PointNext]_pointVars
    PROVE  DrainedInv'
<1>0. /\ now \in Nat /\ now' \in Nat /\ now' >= now /\ wake \in Nat /\ wake' \in Nat
      /\ window.to \in Nat /\ window'.to \in Nat /\ Drain \in Nat /\ Delay \in Nat
      /\ \A i \in DOMAIN stream : stream[i].at \in Nat /\ stream[i].due \in Int
  BY TimeGoesOn, MessageFacts, TimelineFacts DEF TypeOK
<1>1. CASE Publish
  <2>0. PICK n : n = Len(stream) + 1
    OBVIOUS
  <2>1. /\ \A i \in DOMAIN stream : stream'[i] = stream[i]
        /\ \A i \in DOMAIN stream' : i \in DOMAIN stream \/ i = n
        /\ stream'[n].at = now
        /\ stream'[n].due = Dropped \/ stream'[n].due \in now..(now + Delay)
        /\ UNCHANGED <<now, wake, step, window>>
    BY <1>1, <2>0, Published
  <2>2. stream'[n].due # Cut
    BY <1>0, <2>1 DEF Dropped, Cut
  <2> QED
    BY <1>0, <2>1, <2>2 DEF DrainedInv
<1>2. CASE Teardown
  <2>1. /\ DOMAIN stream' = DOMAIN stream
        /\ \A i \in DOMAIN stream :
              /\ stream'[i].at = stream[i].at
              /\ stream'[i].due = stream[i].due \/ (stream'[i].due = Cut /\ stream[i].due > now)
        /\ step' = "stop" /\ window' = window /\ now' = now
    BY <1>2, Reverted
  <2>2. ASSUME window.whole, Delay <= Drain, NEW i \in DOMAIN stream, stream[i].at <= window.to
        PROVE  stream'[i].due # Cut
    <3>1. stream[i].due \in {Dropped, Cut} \/ stream[i].due <= stream[i].at + Delay
      BY DEF StreamInv
    <3>2. now > window.to + Drain /\ stream[i].due # Cut
      BY <2>2 DEF DrainedInv
    <3>3. ~(stream[i].due > now)
      <4>1. CASE stream[i].due \in {Dropped, Cut}
        BY <1>0, <4>1 DEF Dropped, Cut
      <4>2. CASE stream[i].due <= stream[i].at + Delay
        BY <1>0, <2>2, <3>2, <4>2
      <4> QED
        BY <3>1, <4>1, <4>2
    <3> QED
      BY <2>1, <3>2, <3>3
  <2> QED
    BY <1>0, <2>1, <2>2 DEF DrainedInv, Try
<1>3. CASE ~Publish /\ ~Teardown
  <2>1. stream' = stream
    BY <1>3, StreamStays
  <2>2. CASE StopPublishers
    <3>1. /\ step = "close" /\ step' = "drain" /\ wake' = now + Drain /\ UNCHANGED <<window, now>>
      BY <2>2 DEF StopPublishers
    <3>2. window.to < now
      BY <3>1 DEF WindowInv, Closed
    <3> QED
      BY <1>0, <2>1, <3>1, <3>2 DEF DrainedInv, Try
  <2>3. CASE Drained
    <3>1. /\ step = "drain" /\ step' = "revert" /\ now = wake /\ now' = now
          /\ window' = [window EXCEPT !.whole = TRUE]
      BY <2>3 DEF Drained, clock
    <3>2. window'.to = window.to
      BY <3>1 DEF TypeOK
    <3>3. now' > window'.to + Drain
      BY <3>1, <3>2 DEF DrainedInv
    <3>4. \A i \in DOMAIN stream : stream[i].due # Cut
      BY <3>1 DEF DrainedInv, Try
    <3> QED
      BY <2>1, <3>1, <3>3, <3>4 DEF DrainedInv
  <2>4. CASE OpenWindow \/ CloseWindow
    <3>1. /\ step \in Try /\ step' \in {"measure", "close"} /\ ~window.whole
      BY <2>4 DEF OpenWindow, CloseWindow, Try, StartedInv
    <3>2. window'.whole = window.whole
      BY <2>4 DEF OpenWindow, CloseWindow, TypeOK
    <3> QED
      BY <2>1, <3>1, <3>2 DEF DrainedInv
  <2>5. CASE ~StopPublishers /\ ~Drained /\ ~OpenWindow /\ ~CloseWindow
    <3>1. window' = window
      BY <2>5, WindowSteps
    <3>2. /\ step' \in Try \union {"revert"} => step \in Try \union {"revert"}
          /\ step' = "drain" => step = "drain" /\ wake' = wake
      BY <1>3, <2>5 DEF PointNext, CreateNetwork, StartLabPeer, StartRaises, StartPublishers, Discovered,
           Arm, ArmRaises, ApplyTimelineStep, Tick, Raise, StopLabPeer, StopRaises, RemoveNetwork, Try, pointVars,
           clock
    <3>3. window.whole => now' > window.to + Drain
      BY <1>0 DEF DrainedInv
    <3> QED
      BY <2>1, <3>1, <3>2, <3>3 DEF DrainedInv
  <2> QED
    BY <2>2, <2>3, <2>4, <2>5
<1> QED
  BY <1>1, <1>2, <1>3

(***************************************************************************)
(* What the point reports                                                  *)
(***************************************************************************)
\* Whatever the summary counts was stamped in the window, the losses too: they
\* lie between two messages that were.
LEMMA CountedInTheWindow ==
    ASSUME TypeOK, StreamInv, NEW i \in DOMAIN stream, NEW joined \in BOOLEAN, Counted(i, joined)
    PROVE  window.from <= stream[i].at /\ stream[i].at <= window.to
<1>1. CASE ~Lost(i)
  BY <1>1 DEF Counted, Timed
<1>2. CASE Lost(i)
  <2>1. PICK j \in DOMAIN stream, k \in DOMAIN stream :
           j <= i /\ i <= k /\ Timed(j, joined) /\ Timed(k, joined)
    BY <1>2 DEF Counted
  <2>2. /\ j \in Int /\ i \in Int /\ k \in Int
        /\ stream[j].at \in Nat /\ stream[i].at \in Nat /\ stream[k].at \in Nat
        /\ window.from \in Nat /\ window.to \in Nat
    BY MessageFacts DEF TypeOK
  <2>3. j = i \/ stream[j].at < stream[i].at
    BY <2>1, <2>2 DEF StreamInv
  <2>4. i = k \/ stream[i].at < stream[k].at
    BY <2>1, <2>2 DEF StreamInv
  <2>5. window.from <= stream[j].at /\ stream[k].at <= window.to
    BY <2>1 DEF Timed
  <2> QED
    BY <2>2, <2>3, <2>4, <2>5
<1> QED
  BY <1>1, <1>2

LEMMA PointIsSoundFrom ==
    ASSUME PointInv
    PROVE  PointIsSound
<1>1. step = "summarized" => window.whole
  BY DEF PointInv, StartedInv
<1>2. CountedUnderProfile
  <2> SUFFICES ASSUME step = "summarized", NEW i \in DOMAIN stream, NEW joined \in BOOLEAN,
                      Counted(i, joined)
               PROVE  Shaped(i)
    BY DEF CountedUnderProfile, Shaped
  <2> QED
    BY <1>1, CountedInTheWindow DEF PointInv, WindowInv, Closed
<1>3. LostInTheProfile
  <2> SUFFICES ASSUME step = "summarized", Delay <= Drain, NEW i \in DOMAIN stream,
                      NEW joined \in BOOLEAN, Counted(i, joined), Lost(i)
               PROVE  stream[i].due = Dropped
    BY DEF LostInTheProfile
  <2>1. stream[i].at <= window.to
    BY CountedInTheWindow DEF PointInv
  <2>2. stream[i].due # Cut /\ now > window.to + Drain
    BY <1>1, <2>1 DEF PointInv, DrainedInv
  <2>3. stream[i].due \in {Dropped, Cut} \/ stream[i].due <= stream[i].at + Delay
    BY DEF PointInv, StreamInv
  <2>4. /\ stream[i].at \in Nat /\ stream[i].due \in Int /\ window.to \in Nat /\ now \in Nat
        /\ Delay \in Nat /\ Drain \in Nat
    BY MessageFacts, TimelineFacts DEF PointInv, TypeOK
  <2>5. CASE stream[i].due <= stream[i].at + Delay
    <3>1. stream[i].due <= now
      BY <2>1, <2>2, <2>4, <2>5
    <3>2. stream[i].due = Dropped
      BY <2>2, <3>1 DEF Lost, Arrived
    <3> QED
      BY <3>2
  <2> QED
    BY <2>2, <2>3, <2>5
<1> QED
  BY <1>2, <1>3 DEF PointIsSound, PointInv

LEMMA PointInductive == PointSpec => []PointInv
<1>1. PointInit => StartedInv /\ StreamInv /\ ArmedInv /\ WindowInv /\ DrainedInv /\ LeavesNothing
  <2> SUFFICES ASSUME PointInit
               PROVE  StartedInv /\ StreamInv /\ ArmedInv /\ WindowInv /\ DrainedInv /\ LeavesNothing
    OBVIOUS
  <2>1. DOMAIN stream = {} /\ step = "network" /\ ~window.whole
    BY DEF PointInit
  <2>2. StartedInv /\ ArmedInv /\ LeavesNothing
    BY <2>1 DEF PointInit, StartedInv, ArmedInv, LeavesNothing, Try, LabPeer
  <2>3. StreamInv /\ WindowInv /\ DrainedInv
    BY <2>1 DEF StreamInv, WindowInv, DrainedInv, Closed
  <2> QED
    BY <2>2, <2>3
<1>2. PointInv /\ TypeOK' /\ [PointNext]_pointVars => PointInv'
  BY StreamStep, StartedStep, LeavesStep, ArmedStep, WindowStep, DrainedStep DEF PointInv
<1> QED
  BY <1>1, <1>2, TypeCorrect, PTL DEF PointSpec, PointInv

\* A point counts only what was published under its profile, the losses it
\* counts are the profile's own, and when it is over nothing of it is left,
\* whatever failed on the way (run_point and what transit.py counts of it).
THEOREM ThePointIsSound == PointSpec => []PointIsSound
<1> QED
  BY PointInductive, PointIsSoundFrom, PTL
=================================================================================
