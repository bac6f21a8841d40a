--------------------------- MODULE RelayChain_proofs ---------------------------
(***************************************************************************)
(* Proofs about RelayChain: whatever is lost, overflows or restarts, no    *)
(* older value overtakes a newer one, and the chain implements the safety  *)
(* part of LatestValue.                                                    *)
(***************************************************************************)
EXTENDS RelayChain, TLAPS

USE RelayChainAssumption

\* What a step of each kind leaves in the queues, without the array notation.
LEMMA SentQueue ==
    ASSUME queue \in [Hop -> Value], NEW h \in Hop, NEW v \in Value
    PROVE  /\ Sent(h, v) \in [Hop -> Value]
           /\ \A n \in Hop :
                Sent(h, v)[n] = IF n = h + 1 /\ n \in open THEN v
                                ELSE IF n = h THEN 0 ELSE queue[n]
BY DEF Sent, Value, Hop, Latch, Trickle

\* A closed endpoint is sent nothing.
LEMMA SentToOpen ==
    ASSUME queue \in [Hop -> Value], \A n \in Hop \ open : queue[n] = 0,
           NEW h \in Hop, NEW v \in Value
    PROVE  \A n \in Hop \ open : Sent(h, v)[n] = 0
BY SentQueue

------------------------------------------------------------------------------
(* Type correctness *)

\* Every action keeps values values, hops hops, and closed endpoints empty.
LEMMA TypeStep ==
    ASSUME TypeOK, [Next]_vars
    PROVE  TypeOK'
<1> USE DEF TypeOK
<1> 0 \in Value /\ Latch \in Hop /\ Trickle \in Hop /\ Value \subseteq Nat
  BY DEF Value, Hop, Latch, Trickle
<1>1. ASSUME NEW h \in Hop, TryInitialize(h) PROVE TypeOK'
  BY <1>1 DEF TryInitialize, TypeKnown, InGraph
<1>2. ASSUME NEW h \in Hop, Restart(h) PROVE TypeOK'
  BY <1>2 DEF Restart
<1>3. ASSUME NEW v, Publish(v) PROVE TypeOK'
  BY <1>3 DEF Publish, Value
<1>4. CASE ForwardChange
  BY <1>4, SentQueue DEF ForwardChange
<1>5. CASE DropRepetition
  BY <1>5 DEF DropRepetition
<1>6. CASE Keepalive
  <2>1. Latch \in open
    BY <1>6 DEF Keepalive
  <2>2. [Sent(Latch, latched) EXCEPT ![Latch] = queue[Latch]] \in [Hop -> Value]
    BY SentQueue
  <2>3. \A n \in Hop \ open : queue'[n] = 0
    BY <1>6, <2>1, SentQueue DEF Keepalive
  <2> QED BY <1>6, <2>2, <2>3 DEF Keepalive
<1>7. ASSUME NEW h \in Hop, Forward(h) PROVE TypeOK'
  <2>1. queue[h] \in Value
    OBVIOUS
  <2>2. queue' \in [Hop -> Value]
    BY <1>7, <2>1, SentQueue DEF Forward
  <2>3. \A n \in Hop \ open : queue'[n] = 0
    BY <1>7, <2>1, SentToOpen DEF Forward
  <2> QED BY <1>7, <2>2, <2>3 DEF Forward
<1>8. CASE LoseOnLink
  BY <1>8 DEF LoseOnLink
<1>9. CASE ShowArrival
  BY <1>9 DEF ShowArrival
<1>10. CASE Tick
  BY <1>10 DEF Tick
<1>11. CASE UNCHANGED vars
  BY <1>11 DEF vars
<1> QED
  BY <1>1, <1>2, <1>3, <1>4, <1>5, <1>6, <1>7, <1>8, <1>9, <1>10, <1>11
  DEF Next, NewValue, RepeatValue, Hop, Latch, RelayOut, RelayIn, Trickle

\* A closed endpoint holds nothing and a node remembers nothing from before its
\* restart, whatever the topology of declared types (pub_sub_pair.py).
THEOREM TypeCorrect == Spec => []TypeOK
<1>1. Init => TypeOK
  BY DEF Init, TypeOK, Value, Hop, Latch, Trickle
<1> QED BY <1>1, TypeStep, PTL DEF Spec

------------------------------------------------------------------------------
(* No older value overtakes a newer one *)

\* Every action keeps the values in the order of the chain.
LEMMA OrderStep ==
    ASSUME TypeOK, ChainInOrder, [Next]_vars
    PROVE  ChainInOrder'
<1> USE DEF TypeOK, ChainInOrder
<1>0. /\ Hop = 1..6 /\ Value \subseteq Nat /\ 0 \in Value
      /\ Latch = 1 /\ RelayOut = 2 /\ BridgeOut = 3 /\ RelayIn = 5 /\ Trickle = 6
      /\ Latch \in Hop /\ Trickle \in Hop /\ BridgeOut \in Hop
  BY DEF Hop, Value, Latch, RelayOut, BridgeOut, RelayIn, Trickle
<1>t. /\ app \in Nat /\ latched \in Nat /\ held \in Nat /\ shown \in Nat
      /\ \A h \in Hop : queue[h] \in Nat
  BY <1>0
<1>1. ASSUME NEW h \in Hop, TryInitialize(h) PROVE ChainInOrder'
  BY <1>1 DEF TryInitialize
<1>2. ASSUME NEW h \in Hop, Restart(h) PROVE ChainInOrder'
  BY <1>0, <1>t, <1>2 DEF Restart
<1>3. ASSUME NEW v \in Value, v >= app, Publish(v) PROVE ChainInOrder'
  BY <1>0, <1>t, <1>3 DEF Publish
<1>4. CASE ForwardChange
  BY <1>0, <1>t, <1>4, SentQueue DEF ForwardChange
<1>5. CASE DropRepetition
  BY <1>0, <1>t, <1>5 DEF DropRepetition
<1>6. CASE Keepalive
  BY <1>0, <1>t, <1>6, SentQueue DEF Keepalive
<1>7. ASSUME NEW h \in RelayOut..RelayIn, Forward(h) PROVE ChainInOrder'
  BY <1>0, <1>t, <1>7, SentQueue DEF Forward
<1>8. CASE LoseOnLink
  BY <1>0, <1>t, <1>8 DEF LoseOnLink
<1>9. CASE ShowArrival
  BY <1>0, <1>t, <1>9 DEF ShowArrival
<1>10. CASE Tick
  BY <1>0, <1>t, <1>10 DEF Tick
<1>11. CASE UNCHANGED vars
  BY <1>11 DEF vars
<1>12. ASSUME NewValue PROVE ChainInOrder'
  BY <1>0, <1>t, <1>3, <1>12 DEF NewValue, Publish, Value
<1>13. ASSUME RepeatValue PROVE ChainInOrder'
  BY <1>0, <1>t, <1>3, <1>13 DEF RepeatValue, Publish
<1> QED
  BY <1>1, <1>2, <1>4, <1>5, <1>6, <1>7, <1>8, <1>9, <1>10, <1>11, <1>12, <1>13
  DEF Next

\* In every reachable state the values along the chain are in order, so that a
\* keepalive never puts an old value behind a new one (latch_relay.py).
THEOREM NothingOvertakes == Spec => []ChainInOrder
<1>1. Init => ChainInOrder
  BY DEF Init, ChainInOrder, Hop, Latch, RelayOut, Trickle
<1>2. Spec => [](TypeOK /\ ChainInOrder)
  <2>1. Init => TypeOK
    BY DEF Init, TypeOK, Value, Hop, Latch, Trickle
  <2> QED BY <1>1, <2>1, TypeStep, OrderStep, PTL DEF Spec
<1> QED BY <1>2, PTL

------------------------------------------------------------------------------
(* The chain implements the safety part of LatestValue *)

\* Every step of the chain is a change at the sender, a newer value at the
\* receiver, or nothing anybody sees.
LEMMA RefinementStep ==
    ASSUME TypeOK, ChainInOrder, [Next]_vars
    PROVE  [Latest!Change \/ Latest!Show]_(Latest!vars)
<1> USE DEF Latest!Change, Latest!Show, Latest!vars
<1>0. /\ Hop = 1..6 /\ Latch \in Hop /\ Trickle \in Hop /\ Trickle = 6
      /\ app \in Nat /\ shown \in Nat /\ held \in Nat
      /\ queue[Trickle] \in Nat
  BY DEF TypeOK, Hop, Value, Latch, Trickle
<1>1. ASSUME NEW h \in Hop, TryInitialize(h) \/ Restart(h) PROVE UNCHANGED <<app, shown>>
  BY <1>1 DEF TryInitialize, Restart
<1>2. CASE NewValue
  BY <1>2 DEF NewValue, Publish
<1>3. CASE RepeatValue
  BY <1>3 DEF RepeatValue, Publish
<1>4. CASE ForwardChange \/ DropRepetition \/ Keepalive \/ LoseOnLink
  BY <1>4 DEF ForwardChange, DropRepetition, Keepalive, LoseOnLink
<1>5. ASSUME NEW h \in RelayOut..RelayIn, Forward(h) PROVE UNCHANGED <<app, shown>>
  BY <1>5 DEF Forward
<1>6. CASE ShowArrival
  <2>1. shown <= queue[Trickle] /\ queue[Trickle] <= app /\ shown' = queue[Trickle]
    BY <1>0, <1>6 DEF ShowArrival, ChainInOrder
  <2>2. shown' = shown \/ shown' \in (shown + 1)..app
    BY <1>0, <2>1
  <2> QED BY <1>6, <2>2 DEF ShowArrival
<1>7. CASE Tick
  BY <1>7 DEF Tick, ChainInOrder
<1>8. CASE UNCHANGED vars
  BY <1>8 DEF vars
<1> QED
  BY <1>1, <1>2, <1>3, <1>4, <1>5, <1>6, <1>7, <1>8 DEF Next

\* The receiving application sees values of the sender, never an older one
\* after a newer one (latch_relay.py and trickle.py over any lossy link).
THEOREM NeverGoesBack == Spec => Latest!Safety
<1>1. Init => Latest!Init
  BY DEF Init, Latest!Init
<1>2. Spec => [](TypeOK /\ ChainInOrder)
  BY TypeCorrect, NothingOvertakes, PTL
<1> QED BY <1>1, <1>2, RefinementStep, PTL DEF Spec, Latest!Safety
================================================================================
