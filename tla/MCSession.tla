------------------------------- MODULE MCSession -------------------------------
(***************************************************************************)
(* The forwarding nodes of a session, in two views, one per behaviour: a   *)
(* state topic through a running chain, whose nodes restart and whose link *)
(* loses copies; and a stream through the nodes that the generator wires   *)
(* from a session definition.  Of the five rate and size stages, which     *)
(* only rename, three subsets stand for all.                               *)
(***************************************************************************)
EXTENDS RelayChain

CONSTANT Plans

VARIABLES session, carried

wiringVars == <<session, carried>>

Wiring == INSTANCE SessionWiring
Names  == INSTANCE SessionNames

\* The four forwarding nodes are named in topic_types.yaml, the latch and the
\* trickle look at the graph.
ForwardingHops == RelayOut..RelayIn

MCProcessing ==
    [stages : {{}, {"restamped", "max5hz"}, {"latched", "drop1of2", "wsvga"}},
     framebridge : {"none", "local_to_global", "global_to_local"},
     compress : BOOLEAN, transport : BOOLEAN, local_republish : BOOLEAN,
     remote_republish : BOOLEAN, playout : {"none", "paced", "unpaced", "both"},
     ota_wrap : BOOLEAN, normalize : BOOLEAN, trickle : BOOLEAN]

\* Definitions whose parts fit together.  The generator accepts the others too;
\* the README lists what each conjunct rules out and why.
Connects(p) ==
    LET e    == p.forward
        proc == p.forward.proc
    IN  /\ e.base # <<"to_map", "image">>
        /\ ~(p.target /\ p.source)
        /\ p.target \/ p.source =>
               \A s \in Names!Enabled(proc) : s = "globalframe" /\ Names!Bridged(e)
        /\ ~(proc.compress /\ proc.transport)
        /\ ~(Names!Bridged(e) /\ (p.keep \/ proc.transport))
        /\ proc.transport /\ ~proc.remote_republish => ~proc.ota_wrap /\ ~proc.trickle
        /\ proc.normalize => p.keep \/ Names!DeliveredTopic(e) # e.base
        /\ p.back = "same" => p.keep /\ ~proc.normalize

Sessions(procs, flags, back, streams) ==
    {s \in [plan : [forward : [base : {<<"image">>}, proc : {x \in procs : Names!Accepted(x)}],
                    back : back, target : flags, source : flags, keep : BOOLEAN,
                    split : flags],
            stream : streams] : Connects(s.plan)}

Plain == Names!Plain

\* Every processing with the default prefixes, every prefix setting with few.
FewProcessing ==
    {Plain, [Plain EXCEPT !.framebridge = "global_to_local"],
     [Plain EXCEPT !.compress = TRUE, !.ota_wrap = TRUE, !.normalize = TRUE],
     [Plain EXCEPT !.transport = TRUE, !.remote_republish = TRUE, !.playout = "both"]}

MCPlans ==
    Sessions(MCProcessing, {FALSE}, {"none"}, {"topic"})
    \union Sessions(FewProcessing, BOOLEAN, {"none", "same", "other"}, {"topic"})
    \union {s \in Sessions({Plain}, BOOLEAN, {"other"}, {"heartbeat"}) : ~s.plan.source}

ASSUME Wiring!PlansAssumption

\* The chain carries its state topic while no stream is followed.
NoSession == [stream |-> "none"]
Chained == session = NoSession

MCInit == Init /\ (Wiring!Init \/ (session = NoSession /\ carried = {}))

\* A stream ends where no node is left to publish it, and only there.
StreamEnds == ~Chained /\ Wiring!Settled /\ UNCHANGED <<vars, wiringVars>>

MCNext ==
    \/ Chained /\ Next /\ UNCHANGED wiringVars
    \/ ~Chained /\ Wiring!Next /\ UNCHANGED vars
    \/ StreamEnds

\* RelayChain!Fairness while the chain is followed, and that of SessionWiring.
MCFairness ==
    /\ \A h \in Hop : WF_vars(Chained /\ TryInitialize(h))
    /\ WF_vars(Chained /\ RepeatValue)
    /\ WF_vars(Chained /\ ForwardChange) /\ WF_vars(Chained /\ DropRepetition)
    /\ WF_vars(Chained /\ Keepalive)
    /\ \A h \in {RelayOut, BridgeIn, RelayIn} : WF_vars(Chained /\ Forward(h))
    /\ SF_vars(Chained /\ Forward(BridgeOut))
    /\ WF_vars(Chained /\ ShowArrival)
    /\ WF_wiringVars(~Chained /\ Wiring!Next)

MCSpec == MCInit /\ [][MCNext]_<<vars, wiringVars>> /\ MCFairness

(* What SessionWiring states, with the comments there. *)
StagesCarryTheStream == ~Chained => Wiring!StagesCarryTheStream
OneWriterPerTopic    == Wiring!OneWriterPerTopic
EventuallyDelivered  == Chained \/ Wiring!EventuallyDelivered
================================================================================
