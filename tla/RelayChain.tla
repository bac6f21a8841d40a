------------------------------ MODULE RelayChain ------------------------------
(***************************************************************************)
(* One state topic through the chain of forwarding nodes: the latch and    *)
(* the two outgoing nodes of the sender, the link, the two incoming nodes  *)
(* and the trickle of the receiver.  Each node opens its publisher and     *)
(* subscription only when it knows the topic's type (PubSubPair), from the *)
(* session's topic_types file or from the ROS graph, and retries every     *)
(* five seconds.  Values are numbered in the order the application         *)
(* publishes them; 0 stands for none.                                      *)
(***************************************************************************)
EXTENDS Naturals

CONSTANTS
    MaxValue,       \* bound: values the application publishes
    MaxRestarts,    \* bound: restarts of a node
    Declared,       \* hops whose input topic the topic_types file names
    RoutesOnReader  \* the transport makes a topic known only to open readers

Latch == 1  RelayOut == 2  BridgeOut == 3  BridgeIn == 4  RelayIn == 5  Trickle == 6
Hop == Latch..Trickle
Value == 0..MaxValue

ASSUME RelayChainAssumption ==
    /\ MaxValue \in Nat \ {0} /\ MaxRestarts \in Nat
    /\ Declared \subseteq Hop
    /\ RoutesOnReader \in BOOLEAN
    /\ RoutesOnReader => BridgeIn \in Declared

VARIABLES
    app,        \* the value the application published last
    open,       \* hops with a publisher and a subscription
    queue,      \* per hop: the message its subscription holds, depth 1
    latched,    \* the value the latch compares with and re-asserts
    held,       \* the value the trickle republishes
    shown,      \* the value the receiving application saw last
    restarts

vars == <<app, open, queue, latched, held, shown, restarts>>

Init ==
    /\ app = 0
    /\ open = {}
    /\ queue = [h \in Hop |-> 0]
    /\ latched = 0 /\ held = 0 /\ shown = 0
    /\ restarts = 0

(***************************************************************************)
(* Opening the endpoints                                                   *)
(***************************************************************************)
\* Somebody else has an endpoint on the topic that h reads.  A transport that
\* routes on demand shows bridge_in nothing before it has a reader itself.
InGraph(h) ==
    \/ h = Latch /\ app # 0
    \/ h = BridgeIn /\ BridgeOut \in open /\ ~RoutesOnReader
    \/ h \notin {Latch, BridgeIn} /\ h - 1 \in open

TypeKnown(h) == h \in Declared \/ InGraph(h)

\* A refresh tick that finds the type creates publisher and subscription.
TryInitialize(h) ==
    /\ h \notin open
    /\ TypeKnown(h)
    /\ open' = open \union {h}
    /\ UNCHANGED <<app, queue, latched, held, shown, restarts>>

(***************************************************************************)
(* Messages                                                                *)
(***************************************************************************)
\* The queues after h took its message (if any) and published v: a closed
\* subscription misses it, an open one keeps the newest.
Sent(h, v) ==
    [n \in Hop |-> IF n = h + 1 /\ n \in open THEN v
                   ELSE IF n = h THEN 0 ELSE queue[n]]

Publish(v) ==
    /\ v \in 1..MaxValue
    /\ app' = v
    /\ queue' = IF Latch \in open THEN [queue EXCEPT ![Latch] = v] ELSE queue
    /\ UNCHANGED <<open, latched, held, shown, restarts>>

NewValue    == Publish(app + 1)
RepeatValue == Publish(app)

\* Mutant: only the first message is kept for the keepalive.
KeepFirstOnly ==
    /\ queue[Latch] \notin {0, latched}
    /\ latched' = IF latched = 0 THEN queue[Latch] ELSE latched
    /\ queue' = Sent(Latch, queue[Latch])
    /\ UNCHANGED <<app, open, held, shown, restarts>>

\* The latch forwards a value that differs from the last and drops a repetition.
ForwardChange ==
    /\ queue[Latch] \notin {0, latched}
    /\ latched' = queue[Latch]
    /\ queue' = Sent(Latch, queue[Latch])
    /\ UNCHANGED <<app, open, held, shown, restarts>>

DropRepetition ==
    /\ queue[Latch] # 0 /\ queue[Latch] = latched
    /\ queue' = [queue EXCEPT ![Latch] = 0]
    /\ UNCHANGED <<app, open, latched, held, shown, restarts>>

\* Mutant: latch_keepalive_hz left at its default of 0.
NoKeepalive == latched # 0 /\ FALSE /\ UNCHANGED vars

\* The keepalive re-asserts the held value, whatever waits in the queue.
Keepalive ==
    /\ latched # 0
    /\ queue' = [Sent(Latch, latched) EXCEPT ![Latch] = queue[Latch]]
    /\ UNCHANGED <<app, open, latched, held, shown, restarts>>

\* relay_out, bridge_out, bridge_in and relay_in forward what they get.
Forward(h) ==
    /\ queue[h] # 0
    /\ queue' = Sent(h, queue[h])
    /\ UNCHANGED <<app, open, latched, held, shown, restarts>>

\* A copy is lost between the peers.
LoseOnLink ==
    /\ queue[BridgeOut] # 0
    /\ queue' = [queue EXCEPT ![BridgeOut] = 0]
    /\ UNCHANGED <<app, open, latched, held, shown, restarts>>

\* The trickle passes a message on at once and keeps it for its timer.
ShowArrival ==
    /\ queue[Trickle] # 0
    /\ held' = queue[Trickle]
    /\ shown' = queue[Trickle]
    /\ queue' = [queue EXCEPT ![Trickle] = 0]
    /\ UNCHANGED <<app, open, latched, restarts>>

Tick ==
    /\ held # 0 /\ Trickle \in open
    /\ shown' = held
    /\ UNCHANGED <<app, open, queue, latched, held, restarts>>

(***************************************************************************)
(* A node dies and is started again by its window: what it held is gone.   *)
(***************************************************************************)
Restart(h) ==
    /\ restarts < MaxRestarts /\ h \in open
    /\ restarts' = restarts + 1
    /\ open' = open \ {h}
    /\ queue' = [queue EXCEPT ![h] = 0]
    /\ latched' = IF h = Latch THEN 0 ELSE latched
    /\ held' = IF h = Trickle THEN 0 ELSE held
    /\ UNCHANGED <<app, shown>>

Next ==
    \/ \E h \in Hop : TryInitialize(h) \/ Restart(h)
    \/ NewValue \/ RepeatValue
    \/ ForwardChange \/ DropRepetition \/ Keepalive
    \/ \E h \in RelayOut..RelayIn : Forward(h)
    \/ LoseOnLink
    \/ ShowArrival \/ Tick

\* Timers and executors keep running, the application repeats its state, and
\* the link does not lose every copy of endlessly many.
Fairness ==
    /\ \A h \in Hop : WF_vars(TryInitialize(h))
    /\ WF_vars(RepeatValue)
    /\ WF_vars(ForwardChange) /\ WF_vars(DropRepetition) /\ WF_vars(Keepalive)
    /\ \A h \in {RelayOut, BridgeIn, RelayIn} : WF_vars(Forward(h))
    /\ SF_vars(Forward(BridgeOut))
    /\ WF_vars(ShowArrival)

Spec == Init /\ [][Next]_vars /\ Fairness

(***************************************************************************)
(* Properties                                                              *)
(***************************************************************************)
\* Nothing waits at a closed endpoint, and what a node remembers it remembers
\* since it opened.
TypeOK ==
    /\ app \in Value /\ latched \in Value /\ held \in Value /\ shown \in Value
    /\ open \subseteq Hop
    /\ queue \in [Hop -> Value]
    /\ restarts \in 0..MaxRestarts
    /\ \A h \in Hop \ open : queue[h] = 0
    /\ Latch \notin open => latched = 0
    /\ Trickle \notin open => held = 0

\* What has come further is never newer: the queues hold values in the order
\* of the chain, none behind what the receiver has already seen, and none
\* newer than what the latch let through.
ChainInOrder ==
    /\ \A h \in Hop : queue[h] # 0 => shown <= queue[h] /\ queue[h] <= app
    /\ \A h, k \in Hop : h < k /\ queue[h] # 0 /\ queue[k] # 0 => queue[k] <= queue[h]
    /\ \A h \in RelayOut..Trickle :
        latched # 0 /\ queue[h] # 0 => queue[h] <= latched
    /\ latched # 0 => shown <= latched
    /\ latched # 0 /\ queue[Latch] # 0 => latched <= queue[Latch]
    /\ latched <= app /\ shown <= app
    /\ held # 0 => held = shown

\* The receiver shows the sender's values in order and in the end the latest,
\* in spite of lost copies, of suppressed repetitions and of restarts, and over
\* a transport that shows a topic to readers only: every endpoint opens, again
\* after a restart (pub_sub_pair.py try_initialize).
Latest == INSTANCE LatestValue WITH current <- app, shown <- shown
ShowsTheLatest == Latest!Spec
===============================================================================
