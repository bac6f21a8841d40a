---------------------------- MODULE SessionWiring ----------------------------
(***************************************************************************)
(* One stream of messages followed through the nodes of a generated        *)
(* session: from the topic the sending application (or the heartbeat node) *)
(* publishes on peer "a", through preprocessing, the forwarding nodes, the *)
(* link and the postprocessing of peer "b".                                *)
(*                                                                         *)
(* carried grows by one topic per step: a node whose input topic carries   *)
(* the stream publishes it, transformed, on its output topic.  Nodes start *)
(* and discover each other in any order, so any enabled node may be next.  *)
(***************************************************************************)
EXTENDS SessionNames

CONSTANT Plans      \* the session definitions considered, each with a stream

PlansAssumption ==
    Plans \subseteq [plan : Plan, stream : {"topic", "heartbeat"}]

VARIABLES
    session,    \* the session definition and which stream is followed
    carried     \* where the stream appears: place, topic, payload, writer and its input

vars == <<session, carried>>

plan   == session.plan
Tracked == IF session.stream = "topic" THEN plan.forward ELSE Heartbeat("a")

\* The type of a payload is that of its outermost layer.
TypeOf(payload) ==
    CASE Last(payload) = "ota_stamped" -> "OtaStamped"
      [] Last(payload) = "ffmpeg"      -> "Packet"
      [] Last(payload) = "bz2"         -> "Compressed"
      [] Last(payload) = "image"       -> "Image"
      [] OTHER                         -> "Base"

\* What a kind of node takes: an encoder needs an image, a decoder its own format.
Accepts(kind, payload) ==
    CASE kind = "decode"         -> Last(payload) = "ffmpeg"
      [] kind = "decompress"     -> Last(payload) = "bz2"
      [] kind = "unwrap"         -> Last(payload) = "ota_stamped"
      [] kind = "ffmpeg"         -> Last(payload) \in {"base", "globalframe"}
      [] OTHER                   -> TRUE

Transformed(kind, payload) ==
    CASE kind \in {"globalframe", "bz2", "ffmpeg", "ota_stamped"} -> Append(payload, kind)
      [] kind \in {"decompress", "unwrap"}                        -> Front(payload)
      [] kind = "decode"         -> Append(Front(payload), "image")
      [] kind = "to_local_frame" -> SelectSeq(payload, LAMBDA l : l # "globalframe")
      [] OTHER                   -> payload

\* The topic and payload of the sending application, which publishes under the
\* prefixes its settings declare; heartbeat_echo adds the target prefix only.
Source ==
    [place   |-> Place(plan, "a", "local"),
     topic   |-> CASE session.stream = "heartbeat" ->
                          TargetPrefix(plan, "a") \o Tracked.base
                   [] session.stream = "topic" ->
                          RelayOutSub(plan, "a", Tracked.base
                              \o When(Bridged(Tracked), "globalframe")),
     payload |-> <<"base">> \o When(Bridged(Tracked), "globalframe"),
     writer  |-> "application",
     input   |-> <<>>]

Init == session \in Plans /\ carried = {Source}

Reads(node, c) ==
    c.place = node.from /\ c.topic = node.in /\ Accepts(node.kind, c.payload)

Output(node, c) ==
    [place |-> node.to, topic |-> node.out,
     payload |-> Transformed(node.kind, c.payload),
     writer |-> node.kind, input |-> node.in]

\* One node publishes for the first time what it reads.
Publish(node) ==
    \E c \in carried :
        /\ Reads(node, c)
        /\ Output(node, c) \notin carried
        /\ carried' = carried \union {Output(node, c)}
        /\ UNCHANGED session

\* The OTA transport delivers a topic to the other host's readers of it.
Readers(p, topic) ==
    {n \in BridgeIn(plan, p) : n.in = topic /\ n.from = Place(plan, p, "ota")}

Crossing(p, c) ==
    [c EXCEPT !.place = Place(plan, Other(p), "ota"), !.writer = "transport", !.input = c.topic]

Link(p) ==
    \E c \in carried :
        /\ c.place = Place(plan, p, "ota")
        /\ c.writer = "bridge_out"
        /\ Readers(Other(p), c.topic) # {}
        /\ Crossing(p, c) \notin carried
        /\ carried' = carried \union {Crossing(p, c)}
        /\ UNCHANGED session

Preprocess  == \E p \in Peer : \E n \in Preprocessing(plan, p) : Publish(n)
PreviewOwn  == \E p \in Peer : \E n \in Preview(plan, p)       : Publish(n)
SendOut     == \E p \in Peer : \E n \in RelayOut(plan, p)      : Publish(n)
CrossDomain == \E p \in Peer : \E n \in DomainBridge(plan, p)  : Publish(n)
BridgeToOta == \E p \in Peer : \E n \in BridgeOut(plan, p)     : Publish(n)
Transport   == \E p \in Peer : Link(p)
BridgeFromOta == \E p \in Peer : \E n \in BridgeIn(plan, p)    : Publish(n)
HandIn      == \E p \in Peer : \E n \in RelayIn(plan, p)       : Publish(n)
Unwrap      == \E p \in Peer : \E n \in Unwrapper(plan, p)     : Publish(n)
Pace        == \E p \in Peer : \E n \in Pacer(plan, p)         : Publish(n)
Decode      == \E p \in Peer : \E n \in Decoder(plan, p)       : Publish(n)
Decompress  == \E p \in Peer : \E n \in Decompressor(plan, p)  : Publish(n)
ToLocalFrame == \E p \in Peer : \E n \in FrameBridge(plan, p)  : Publish(n)
Normalize   == \E p \in Peer : \E n \in Normalizer(plan, p)    : Publish(n)
Trickle     == \E p \in Peer : \E n \in Trickler(plan, p)      : Publish(n)

Next == Preprocess \/ PreviewOwn \/ SendOut \/ CrossDomain \/ BridgeToOta \/ Transport
        \/ BridgeFromOta \/ HandIn \/ Unwrap \/ Pace \/ Decode \/ Decompress
        \/ ToLocalFrame \/ Normalize \/ Trickle

\* Every node is a process that keeps running, so some enabled one publishes.
Spec == Init /\ [][Next]_vars /\ WF_vars(Next)

(***************************************************************************)
(* Properties                                                              *)
(***************************************************************************)
\* Nothing that reads the stream has still to publish it.
Settled ==
    /\ \A n \in Nodes(plan) : \A c \in carried : Reads(n, c) => Output(n, c) \in carried
    /\ \A p \in Peer : \A c \in carried :
        /\ c.place = Place(plan, p, "ota")
        /\ c.writer = "bridge_out"
        /\ Readers(Other(p), c.topic) # {}
        => Crossing(p, c) \in carried

Stages == OutboundStages(plan, "a", Tracked) \union InboundStages(plan, "a", Tracked)

\* Every stage the status overview is told to expect, on either peer, is a
\* topic the stream really appears on, there and with the declared type: a
\* stage nothing publishes would be reported missing for ever, and a stage of
\* another type would never be read (_build_status_pipeline_spec).
StagesCarryTheStream ==
    Settled => \A s \in Stages : \E c \in carried :
        /\ c.place = Place(plan, s.peer, s.side)
        /\ c.topic = s.topic
        /\ TypeOf(c.payload) = s.type

\* A topic of a peer has one writer: no node republishes a stream into a topic
\* that already carries it, so the application gets each message once and the
\* stream of a never comes back to be sent again by b.
OneWriterPerTopic ==
    \A c, d \in carried : c.place = d.place /\ c.topic = d.topic => c = d

\* The topic the receiving application reads, and what it finds there: every
\* layer the session put on undone, except those it asked the receiver to keep.
ApplicationTopic ==
    CASE session.stream = "heartbeat" -> Kept(plan, "a", Tracked.base)
      [] session.stream = "topic" /\ Tracked.proc.normalize -> Tracked.base
      [] session.stream = "topic" /\ ~Tracked.proc.normalize ->
             Kept(plan, "a", PostprocessedTopic(Tracked))

ApplicationPayload ==
    <<"base">>
    \o When(Tracked.proc.framebridge = "local_to_global", "globalframe")
    \o When(Tracked.proc.transport, IF Decoded(Tracked) THEN "image" ELSE "ffmpeg")

\* The stream reaches the application of the other peer, intact.
Delivered ==
    \E c \in carried :
        /\ c.place = Place(plan, "b", "local")
        /\ c.topic = ApplicationTopic
        /\ c.payload = ApplicationPayload

EventuallyDelivered == <>Delivered
===============================================================================
