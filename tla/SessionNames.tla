----------------------------- MODULE SessionNames -----------------------------
(***************************************************************************)
(* What the session generator derives from a session definition: the name  *)
(* a topic has after every processing stage, the stages the status         *)
(* overview is told to expect on each peer, and the nodes (with the topics *)
(* they read and write) that the plugin files start.                       *)
(*                                                                         *)
(* A topic name is the sequence of its path segments.  A session definition*)
(* is reduced to the topic one direction configures (forward, from peer    *)
(* "a" to peer "b"), the topic of the opposite direction, if any, and the  *)
(* prefix settings.  Payload types are those the generator distinguishes.  *)
(***************************************************************************)
EXTENDS Sequences, SequencesExt

Peer == {"a", "b"}
Other(p) == IF p = "a" THEN "b" ELSE "a"

\* The segment that addresses a peer, and every segment re.sub('^to_') strips.
To == [p \in Peer |-> IF p = "a" THEN "to_a" ELSE "to_b"]
Targeted == {"to_a", "to_b", "to_map"}

(***************************************************************************)
(* A topic's processing mapping, and the order its stages run in           *)
(***************************************************************************)
RateStage == {"restamped", "latched", "drop1of2", "max5hz", "wsvga"}

Processing ==
    [stages      : SUBSET RateStage,
     framebridge : {"none", "local_to_global", "global_to_local"},
     compress    : BOOLEAN,
     transport   : BOOLEAN,
     local_republish  : BOOLEAN,
     remote_republish : BOOLEAN,
     playout     : {"none", "paced", "unpaced", "both"},
     ota_wrap    : BOOLEAN,
     normalize   : BOOLEAN,
     trickle     : BOOLEAN]

Plain == [stages |-> {}, framebridge |-> "none", compress |-> FALSE,
          transport |-> FALSE, local_republish |-> FALSE,
          remote_republish |-> FALSE, playout |-> "none", ota_wrap |-> FALSE,
          normalize |-> FALSE, trickle |-> FALSE]

\* The generator rejects a republish or a playout without what it applies to.
Accepted(proc) ==
    /\ proc.local_republish \/ proc.remote_republish => proc.transport
    /\ proc.playout # "none" => proc.remote_republish

StageOrder == << "restamped", "latched", "drop1of2", "max5hz", "wsvga",
                 "globalframe", "bz2", "ffmpeg", "ota_stamped", "final" >>

Enabled(proc) ==
    proc.stages \union {s \in {"globalframe", "bz2", "ffmpeg", "ota_stamped"} :
        \/ s = "globalframe" /\ proc.framebridge # "none"
        \/ s = "bz2"         /\ proc.compress
        \/ s = "ffmpeg"      /\ proc.transport
        \/ s = "ota_stamped" /\ proc.ota_wrap}

Bridged(e)    == e.proc.framebridge = "global_to_local"
Decoded(e)    == e.proc.transport /\ e.proc.remote_republish

\* The topic a stage reads: the base with the suffix of every stage before it.
\* global_to_local starts again from the base, its sender publishes the global
\* topic itself.
NameBefore(e, stage) ==
    LET before   == SubSeq(StageOrder, 1, SelectInSeq(StageOrder, LAMBDA s : s = stage) - 1)
        suffixes == SelectSeq(before, LAMBDA s : s \in Enabled(e.proc))
        restart  == Bridged(e) /\ Contains(before, "globalframe")
    IN  e.base \o IF restart THEN SelectSeq(suffixes, LAMBDA s : s \notin RateStage)
                             ELSE suffixes

Final(e) == NameBefore(e, "final")

\* Mutant: an encoded stream is delivered as the packets that crossed.
DeliveredPackets(e) ==
    IF Bridged(e) THEN e.base
    ELSE IF e.proc.compress THEN NameBefore(e, "bz2") ELSE NameBefore(e, "ota_stamped")

\* What the receiver's chain ends on, walked backwards from the OTA topic.
DeliveredTopic(e) ==
    CASE Bridged(e)         -> e.base
      [] ~Bridged(e) /\ Decoded(e)
                            -> Append(NameBefore(e, "ota_stamped"), "compressed")
      [] ~Bridged(e) /\ ~Decoded(e) /\ e.proc.compress
                            -> NameBefore(e, "bz2")
      [] OTHER              -> NameBefore(e, "ota_stamped")

PostprocessedTopic(e) ==
    DeliveredTopic(e) \o IF e.proc.trickle THEN <<"trickle">> ELSE <<>>

FinalType(e) ==
    CASE e.proc.ota_wrap                         -> "OtaStamped"
      [] ~e.proc.ota_wrap /\ e.proc.transport    -> "Packet"
      [] ~e.proc.ota_wrap /\ ~e.proc.transport /\ e.proc.compress -> "Compressed"
      [] OTHER                                   -> "Base"

(***************************************************************************)
(* A session definition.  Peer a's outbound prefixes (target, source) and  *)
(* peer b's inbound.keep_source_prefix vary; the other peer's are off.     *)
(***************************************************************************)
Plan ==
    [forward : [base : {<<"image">>, <<"to_map", "image">>}, proc : Processing],
     back    : {"none", "same", "other"},
     target  : BOOLEAN,     \* outbound.target_prefix.use_target_prefix of a
     source  : BOOLEAN,     \* outbound.source_prefix.native_have_source_prefix of a
     keep    : BOOLEAN,     \* inbound.keep_source_prefix of b
     split   : BOOLEAN]     \* domain ids set: domain_bridge between two domains

Heartbeat(p) == [base |-> <<IF p = "a" THEN "heartbeat_a" ELSE "heartbeat_b">>,
                 proc |-> Plain]

\* The topics configured from p to the other peer; use_heartbeat adds one each way.
Configured(plan, p) ==
    CASE p = "a"                       -> {plan.forward}
      [] p = "b" /\ plan.back = "none" -> {}
      [] OTHER -> {[base |-> IF plan.back = "same" THEN plan.forward.base ELSE <<"other">>,
                    proc |-> Plain]}
TopicList(plan, p) == Configured(plan, p) \union {Heartbeat(p)}

When(flag, segment) == IF flag THEN <<segment>> ELSE <<>>

TargetPrefix(plan, p) == When(p = "a" /\ plan.target, To[Other(p)])
SourcePrefix(plan, p) == When(p = "a" /\ plan.source, p)

\* The name a topic of p has between the peers, and on the receiver.
Forward(plan, p, e) == TargetPrefix(plan, p) \o Final(e)
Kept(plan, p, topic) == When(p = "a" /\ plan.keep, p) \o topic

(***************************************************************************)
(* topic_resolution.py: what each forwarding node reads and writes         *)
(***************************************************************************)
ComOut(plan, p, e) == <<"com", "out", p>> \o Forward(plan, p, e)
Ota(plan, p, e)    == <<"ota", p>> \o Forward(plan, p, e)
ComIn(plan, p, e)  == <<"com", "in", p>> \o Forward(plan, p, e)

\* relay_out subscribes to the topic with its target expansion, under the source name.
RelayOutSub(plan, p, topic) ==
    SourcePrefix(plan, p) \o TargetPrefix(plan, p) \o topic

StripTarget(topic) == IF Head(topic) \in Targeted THEN Tail(topic) ELSE topic

RelayInPub(plan, p, e) == Kept(plan, p, StripTarget(Forward(plan, p, e)))

(***************************************************************************)
(* _build_status_pipeline_spec: the stages each peer is told to expect     *)
(***************************************************************************)
Stage(peer, side, topic, type) ==
    [peer |-> peer, side |-> side, topic |-> topic, type |-> type]

OutboundStages(plan, p, e) ==
    LET named(topic) == TargetPrefix(plan, p) \o SourcePrefix(plan, p) \o topic
    IN  {IF Bridged(e) THEN Stage(p, "local", named(Final(e)), FinalType(e))
                       ELSE Stage(p, "local", named(e.base), "Base"),
         Stage(p, "local", ComOut(plan, p, e), FinalType(e)),
         Stage(p, "ota", Ota(plan, p, e), FinalType(e))}
        \union IF Final(e) # e.base /\ ~Bridged(e)
               THEN {Stage(p, "local", named(Final(e)), FinalType(e))} ELSE {}

InboundStages(plan, p, e) ==
    LET q == Other(p)
    IN  {Stage(q, "ota", Ota(plan, p, e), FinalType(e)),
         Stage(q, "local", ComIn(plan, p, e), FinalType(e)),
         Stage(q, "local", Kept(plan, p, Final(e)), FinalType(e))}
        \union IF PostprocessedTopic(e) # Final(e)
               THEN {Stage(q, "local", Kept(plan, p, PostprocessedTopic(e)),
                           IF Decoded(e) THEN "Image" ELSE "Base")}
               ELSE {}

(***************************************************************************)
(* The nodes the plugin files start, each a reader of one topic and a      *)
(* writer of another.  The OTA side is a domain of its own when split.     *)
(***************************************************************************)
Place(plan, p, side) == <<p, IF plan.split THEN side ELSE "local">>

Node(kind, from, in, to, out) ==
    [kind |-> kind, from |-> from, in |-> in, to |-> to, out |-> out]
LocalNode(plan, p, kind, in, out) ==
    Node(kind, Place(plan, p, "local"), in, Place(plan, p, "local"), out)
OtaNode(plan, p, kind, in, out) ==
    Node(kind, Place(plan, p, "ota"), in, Place(plan, p, "ota"), out)

\* The sending side: one node per stage, each on the name the stages before it
\* made; global_to_local has none.  The preview decodes what was just encoded.
Preprocessing(plan, p) == UNION {
    {LocalNode(plan, p, s, NameBefore(e, s), Append(NameBefore(e, s), s)) :
        s \in {s \in Enabled(e.proc) : s = "globalframe" => ~Bridged(e)}}
    : e \in Configured(plan, p)}

Preview(plan, p) ==
    {LocalNode(plan, p, "decode", NameBefore(e, "ota_stamped"),
               Append(NameBefore(e, "ota_stamped"), "compressed")) :
        e \in {e \in Configured(plan, p) : e.proc.local_republish}}

\* Between the peers: relay, domain bridge, bridge, and the same backwards.
RelayOut(plan, p) ==
    {LocalNode(plan, p, "relay_out", RelayOutSub(plan, p, Final(e)), ComOut(plan, p, e)) :
        e \in TopicList(plan, p)}

BridgeOut(plan, p) ==
    {OtaNode(plan, p, "bridge_out", ComOut(plan, p, e), Ota(plan, p, e)) :
        e \in TopicList(plan, p)}

BridgeIn(plan, q) ==
    {OtaNode(plan, q, "bridge_in", Ota(plan, Other(q), e), ComIn(plan, Other(q), e)) :
        e \in TopicList(plan, Other(q))}

RelayIn(plan, q) ==
    {LocalNode(plan, q, "relay_in", ComIn(plan, Other(q), e), RelayInPub(plan, Other(q), e)) :
        e \in TopicList(plan, Other(q))}

DomainBridge(plan, p) ==
    IF ~plan.split THEN {}
    ELSE {Node("domain_bridge", <<p, "local">>, ComOut(plan, p, e),
               <<p, "ota">>, ComOut(plan, p, e)) : e \in TopicList(plan, p)}
         \union
         {Node("domain_bridge", <<p, "ota">>, ComIn(plan, Other(p), e),
               <<p, "local">>, ComIn(plan, Other(p), e)) : e \in TopicList(plan, Other(p))}

\* The receiving side, from the lists the plugin file of q derives from the
\* entries of the other peer.
Unwrapper(plan, q) ==
    {LocalNode(plan, q, "unwrap",
               Append(Kept(plan, Other(q), NameBefore(e, "ota_stamped")), "ota_stamped"),
               Kept(plan, Other(q), NameBefore(e, "ota_stamped"))) :
        e \in {e \in Configured(plan, Other(q)) : e.proc.ota_wrap}}

Pacer(plan, q) ==
    {LocalNode(plan, q, "pace", topic, Append(topic, "paced")) :
        topic \in {Kept(plan, Other(q), NameBefore(e, "ota_stamped")) :
            e \in {e \in Configured(plan, Other(q)) : e.proc.playout # "none"}}}

\* Mutant: the comparison decode of "both" keeps the delivered name.
DecoderWithoutOwnName(plan, q) == UNION {
    LET topic == Kept(plan, Other(q), NameBefore(e, "ota_stamped"))
        reads == CASE e.proc.playout = "both"  -> {topic, Append(topic, "paced")}
                   [] e.proc.playout = "paced" -> {Append(topic, "paced")}
                   [] OTHER                    -> {topic}
    IN  {LocalNode(plan, q, "decode", source, Append(topic, "compressed")) : source \in reads}
    : e \in {e \in Configured(plan, Other(q)) : Decoded(e)}}

\* The decode an application reads keeps its name in every playout mode; only
\* what feeds it moves.  "both" adds a decode under a name of its own.
Decoder(plan, q) == UNION {
    LET topic  == Kept(plan, Other(q), NameBefore(e, "ota_stamped"))
        source == IF e.proc.playout \in {"paced", "both"} THEN Append(topic, "paced") ELSE topic
    IN  {LocalNode(plan, q, "decode", source, Append(topic, "compressed"))}
        \union
        {LocalNode(plan, q, "decode", topic, topic \o <<"unpaced", "compressed">>) :
            x \in {x \in {e} : x.proc.playout = "both"}}
    : e \in {e \in Configured(plan, Other(q)) : Decoded(e)}}

\* Mutant: the list of compressed topics forgets a kept source prefix.
DecompressorUnprefixed(plan, q) ==
    {LocalNode(plan, q, "decompress", Append(NameBefore(e, "bz2"), "bz2"), NameBefore(e, "bz2")) :
        e \in {e \in Configured(plan, Other(q)) : e.proc.compress}}

Decompressor(plan, q) ==
    {LocalNode(plan, q, "decompress",
               Append(Kept(plan, Other(q), NameBefore(e, "bz2")), "bz2"),
               Kept(plan, Other(q), NameBefore(e, "bz2"))) :
        e \in {e \in Configured(plan, Other(q)) : e.proc.compress}}

FrameBridge(plan, q) ==
    {LocalNode(plan, q, "to_local_frame", Append(e.base, "globalframe"), e.base) :
        e \in {e \in Configured(plan, Other(q)) : Bridged(e)}}

Normalizer(plan, q) ==
    {LocalNode(plan, q, "normalize", Kept(plan, Other(q), DeliveredTopic(e)), e.base) :
        e \in {e \in Configured(plan, Other(q)) : e.proc.normalize}}

Trickler(plan, q) ==
    {LocalNode(plan, q, "trickle", Kept(plan, Other(q), DeliveredTopic(e)),
               Append(Kept(plan, Other(q), DeliveredTopic(e)), "trickle")) :
        e \in {e \in Configured(plan, Other(q)) : e.proc.trickle}}

Nodes(plan) == UNION {
    Preprocessing(plan, p) \union Preview(plan, p) \union RelayOut(plan, p)
    \union BridgeOut(plan, p) \union BridgeIn(plan, p) \union RelayIn(plan, p)
    \union DomainBridge(plan, p) \union Unwrapper(plan, p) \union Pacer(plan, p)
    \union Decoder(plan, p) \union Decompressor(plan, p) \union FrameBridge(plan, p)
    \union Normalizer(plan, p) \union Trickler(plan, p) : p \in Peer}
===============================================================================
