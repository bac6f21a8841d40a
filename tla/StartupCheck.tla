---------------------------- MODULE StartupCheck ----------------------------
(***************************************************************************)
(* The verdict of status_overview on whether this peer brought up what its *)
(* session promises.  Every outbound topic passes a chain of stages; the   *)
(* nodes that produce them open their publishers when a refresh finds the  *)
(* stage before in the graph.  Once, after a grace period, the status node *)
(* looks for topics with a stage nobody publishes, and once more before it *)
(* condemns one.                                                           *)
(***************************************************************************)
EXTENDS Integers, FiniteSets

CONSTANTS
    Topic,      \* outbound topics
    Own,        \* those whose native stage heartbeat_echo publishes itself
    Last,       \* the last outbound stage; 1 is the native one
    Declared,   \* topics whose type the topic_types file names for their nodes
    GraphOnly,  \* stages the status node does not subscribe to
    Refresh,    \* ticks within which a running node refreshes its pairs (with several
                \* preprocessing nodes in a row, all of them together)
    Interval,   \* ticks within which the status node writes
    Grace,      \* startup_grace_s
    MaxTime,    \* bound: when the model's time ends
    MaxExits,   \* bound: nodes that exit
    MaxLeaves   \* bound: times the application goes away

TopicStage == Topic \X (1..Last)
Nobody == 0             \* the application that feeds a link
Node   == 1..Last       \* heartbeat_echo, then the producer of each stage

Producer(s) == IF s[2] = 1 /\ s[1] \notin Own THEN Nobody ELSE s[2]
Input(s)    == <<s[1], s[2] - 1>>

ASSUME StartupAssumption ==
    /\ IsFiniteSet(Topic) /\ Own \subseteq Topic /\ Declared \subseteq Topic
    /\ Last \in Nat \ {0} /\ GraphOnly \subseteq 2..Last
    /\ Refresh \in Nat \ {0} /\ Interval \in Nat \ {0}
    /\ Grace \in Nat /\ Grace > Refresh
    /\ MaxTime \in Nat /\ MaxTime >= 2 * (Grace + Interval)
    /\ MaxExits \in Nat /\ MaxLeaves \in Nat

VARIABLES
    now,
    alive,      \* nodes whose pane still runs them
    published,  \* stages with a publisher
    counted,    \* stages of which the status node counted a message
    rested,     \* ticks since each node refreshed
    unwritten,  \* ticks since the status node wrote
    panes,      \* nodes whose exit pane_failures.log names
    pending,    \* the first look that found a defect: when, and which stages
    check,      \* the verdict and the stages it names
    interrupted,\* history: stages that have lost their publisher
    leaves      \* times the application has gone away

judgement == <<pending, check>>
vars == <<now, alive, published, counted, rested, unwritten, panes, judgement,
          interrupted, leaves>>

NoLook  == [at |-> -1, missing |-> {}]
NoCheck == [verdict |-> "none", missing |-> {}]

Init ==
    /\ now = 0
    /\ alive = Node
    /\ published = {} /\ counted = {}
    /\ rested = [n \in Node |-> 0] /\ unwritten = 0
    /\ panes = {}
    /\ pending = NoLook /\ check = NoCheck
    /\ interrupted = {} /\ leaves = 0

(***************************************************************************)
(* The nodes, the application and time                                     *)
(***************************************************************************)
Opens(s) ==
    \/ s[2] = 1 /\ s[1] \in Own
    \/ s[2] > 1 /\ (s[1] \in Declared \/ Input(s) \in published)

\* A refresh tick of a node creates every publisher whose type it knows.
RefreshPairs(n) ==
    /\ n \in alive
    /\ published' = published \union {s \in TopicStage : Producer(s) = n /\ Opens(s)}
    /\ rested' = [rested EXCEPT ![n] = 0]
    /\ UNCHANGED <<now, alive, counted, unwritten, panes, judgement, interrupted, leaves>>

\* Application and replay come and go as they like.
ApplicationStarts(s) ==
    /\ Producer(s) = Nobody /\ s \notin published
    /\ published' = published \union {s}
    /\ UNCHANGED <<now, alive, counted, rested, unwritten, panes, judgement, interrupted, leaves>>

ApplicationLeaves(s) ==
    /\ Producer(s) = Nobody /\ s \in published
    /\ leaves < MaxLeaves
    /\ leaves' = leaves + 1
    /\ published' = published \ {s}
    /\ interrupted' = interrupted \union {s}
    /\ UNCHANGED <<now, alive, counted, rested, unwritten, panes, judgement>>

\* A node exits and its pane stays at a prompt; an exit that is not a failure
\* (0, or Ctrl-C) is not noted.
Exit(n) ==
    /\ n \in alive
    /\ Cardinality(Node \ alive) < MaxExits
    /\ alive' = alive \ {n}
    /\ panes' \in {panes, panes \union {n}}
    /\ LET lost == {s \in published : Producer(s) = n}
       IN  published' = published \ lost /\ interrupted' = interrupted \union lost
    /\ UNCHANGED <<now, counted, rested, unwritten, judgement, leaves>>

\* A message that passed every stage up to s is counted by the status node's
\* reader of s, perhaps after its publishers have gone.
Count(s) ==
    /\ s[2] \notin GraphOnly
    /\ \A k \in 1..s[2] : <<s[1], k>> \in published \union interrupted
    /\ counted' = counted \union {s}
    /\ UNCHANGED <<now, alive, published, rested, unwritten, panes, judgement, interrupted, leaves>>

\* Timers keep their periods.
Tick ==
    /\ now < MaxTime
    /\ \A n \in alive : rested[n] < Refresh
    /\ unwritten < Interval
    /\ now' = now + 1
    /\ rested' = [n \in Node |-> IF n \in alive THEN rested[n] + 1 ELSE rested[n]]
    /\ unwritten' = unwritten + 1
    /\ UNCHANGED <<alive, published, counted, panes, judgement, interrupted, leaves>>

(***************************************************************************)
(* A status tick                                                           *)
(***************************************************************************)
\* FLOWING or STALE: a message was counted, or inferred where none can be.
Delivered(s) ==
    \/ s \in counted
    \/ s[2] \in GraphOnly /\ s \in published /\ Input(s) \in counted

Absent(s) == s \notin published /\ s \notin counted

\* The first absent stage of each topic.
Gaps == {s \in TopicStage : Absent(s) /\ \A k \in 1..(s[2] - 1) : ~Absent(<<s[1], k>>)}

\* Those this peer answers for: it produces the stage, and the input delivers.
Mine == {s \in Gaps : Producer(s) # Nobody /\ (s[2] > 1 => Delivered(Input(s)))}

\* What stood the first look is judged at the second; nothing, at once.
Decided(mine) == mine = {} \/ (pending # NoLook /\ now - pending.at >= Grace)

\* Mutant: whatever is missing at the second look is named.
NamedNow(mine) == mine

StillMissing(mine) == mine \intersect pending.missing

\* Mutant: every look that finds a defect starts the wait again.
WaitAnew(mine) ==
    /\ pending' = [at |-> now, missing |-> mine]
    /\ check' = check

\* The first look that finds a defect is remembered, and nothing said yet.
Wait(mine) ==
    /\ pending' = IF pending = NoLook THEN [at |-> now, missing |-> mine] ELSE pending
    /\ check' = check

Judge(mine) ==
    LET named == StillMissing(mine)
    IN  /\ check' = [verdict |-> IF named = {} /\ panes = {} THEN "ok" ELSE "incomplete",
                     missing |-> named]
        /\ UNCHANGED pending

GracePassed == now >= Grace

\* write() runs the check before anything else it does.
Write ==
    /\ unwritten' = 0
    /\ IF check # NoCheck \/ ~GracePassed
       THEN UNCHANGED judgement
       ELSE IF Decided(Mine) THEN Judge(Mine) ELSE Wait(Mine)
    /\ UNCHANGED <<now, alive, published, counted, rested, panes, interrupted, leaves>>

Next ==
    \/ \E n \in Node : RefreshPairs(n) \/ Exit(n)
    \/ \E s \in TopicStage : ApplicationStarts(s) \/ ApplicationLeaves(s) \/ Count(s)
    \/ Tick
    \/ Write

\* Timers fire and time passes.
Fairness ==
    /\ \A n \in Node : WF_vars(RefreshPairs(n))
    /\ WF_vars(Write) /\ WF_vars(Tick)

Spec == Init /\ [][Next]_vars /\ Fairness

(***************************************************************************)
(* Properties                                                              *)
(***************************************************************************)
TypeOK ==
    /\ now \in 0..MaxTime
    /\ alive \subseteq Node /\ panes \subseteq Node \ alive
    /\ published \subseteq TopicStage /\ counted \subseteq TopicStage /\ interrupted \subseteq TopicStage
    /\ rested \in [Node -> 0..Refresh] /\ unwritten \in 0..Interval
    /\ pending \in [at : Grace..MaxTime, missing : SUBSET TopicStage] \union {NoLook}
    /\ check \in [verdict : {"ok", "incomplete"}, missing : SUBSET TopicStage] \union {NoCheck}

\* Late is not dead: a stage is named only if the node that produces it has
\* exited, or what it reads has lost its publisher meanwhile.  A stage that a
\* running node has yet to open is never taken for one (_maybe_run_startup_check).
LateIsNotDead ==
    \A s \in check.missing :
        \/ Producer(s) \notin alive
        \/ s[2] > 1 /\ Input(s) \in interrupted

\* There is a verdict in the end, whoever comes, goes or stays away.
EventuallyJudged == <>(check # NoCheck)
===============================================================================
