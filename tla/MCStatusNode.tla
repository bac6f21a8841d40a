----------------------------- MODULE MCStatusNode -----------------------------
(***************************************************************************)
(* The two things asked of a status node, one of them per behaviour: the   *)
(* startup check of the outbound topics, the heartbeat and one topic of an *)
(* application; and, once that check has passed, the reports on one topic  *)
(* and the test that reads them.                                           *)
(***************************************************************************)
EXTENDS StartupCheck, ContractTest

CONSTANTS heartbeat, image

MCTopic     == {heartbeat, image}
MCOwn       == {heartbeat}
MCDeclared  == {heartbeat}
MCGraphOnly == {Last}

NoBounds == [hz |-> 0, hz_max |-> None, latency |-> None, loss |-> None, count |-> 0,
             ratio |-> 0, vs_bag |-> 0]

Plain == [mode |-> "stream", optional |-> FALSE, smoke_probe |-> TRUE, wrapped |-> FALSE,
          header |-> FALSE, paced |-> FALSE, latency_at |-> None, loss_at |-> None, bounds |-> NoBounds,
          override |-> [k \in {} |-> 0]]

Live(c) == [contract |-> c, profile |-> None, bag |-> None]

\* One session per way in which a topic is judged; a bag holds a message a tick.
MCSessions ==
    {Live([Plain EXCEPT !.mode = mode]) : mode \in {"stream", "latched", "existence"}}
    \union {Live([Plain EXCEPT !.optional = TRUE]),
            Live([Plain EXCEPT !.header = TRUE, !.paced = TRUE, !.bounds.hz = 2, !.bounds.latency = 2]),
            Live([Plain EXCEPT !.wrapped = TRUE, !.latency_at = 4, !.bounds.hz_max = 1,
                               !.bounds.latency = 1, !.bounds.loss = 0]),
            Live([Plain EXCEPT !.wrapped = TRUE, !.latency_at = 2, !.loss_at = 4,
                               !.bounds.loss = 0]),
            Live([Plain EXCEPT !.bounds.vs_bag = 90])}
    \union {[contract |-> [Plain EXCEPT !.header = TRUE, !.bounds.latency = 1, !.override = [latency |-> 4]],
             profile |-> "cellular", bag |-> None],
            [contract |-> [Plain EXCEPT !.bounds.vs_bag = 90, !.bounds.count = 2, !.bounds.ratio = 90],
             profile |-> None, bag |-> 1]}

StartupPart ==
    /\ Init
    /\ session = None /\ clock = 0 /\ up = {} /\ late = {}
    /\ arrivals = [s \in Stage |-> {}]
    /\ report = [p \in Peer |-> None] /\ verdict = "none"

ReportPart ==
    /\ ReportInit
    /\ now = 0 /\ alive = Node /\ published = {} /\ counted = {}
    /\ rested = [n \in Node |-> 0] /\ unwritten = 0 /\ panes = {}
    /\ pending = NoLook /\ check = [verdict |-> "ok", missing |-> {}]
    /\ interrupted = {} /\ leaves = 0

MCInit == StartupPart \/ ReportPart

Starting == session = None

MCNext ==
    \/ Starting /\ Next /\ UNCHANGED testVars
    \/ ~Starting /\ TestNext /\ UNCHANGED vars

MCFairness ==
    /\ \A n \in Node : WF_vars(Starting /\ RefreshPairs(n))
    /\ WF_vars(Starting /\ Write) /\ WF_vars(Starting /\ Tick)

MCSpec == MCInit /\ [][MCNext]_<<vars, testVars>> /\ MCFairness
===============================================================================
