-------------------------- MODULE PlayoutPacer_proofs --------------------------
(***************************************************************************)
(* Proofs about PlayoutPacer: it is type correct, its hold is bounded, a   *)
(* fixed budget holds a late message only behind one stamped later, it     *)
(* implements DelayLine, and its floor rises again.                        *)
(***************************************************************************)
EXTENDS PlayoutPacer, TLAPS, SequenceTheorems, FiniteSetTheorems, WellFoundedInduction

USE BoundsAssumption

------------------------------------------------------------------------------
(* The window, its floor and its percentile *)

\* What a configuration consists of.
LEMMA ConfigType ==
    ASSUME NEW c \in Config
    PROVE  /\ c.adaptive \in BOOLEAN
           /\ c.target \in Nat /\ c.min \in Nat /\ c.max \in Nat /\ c.margin \in Nat
           /\ c.percentile \in Nat
           /\ c.min <= c.max
           /\ HoldLimit(c) \in Nat /\ HoldLimit(c) <= MaxHold
<1>1. c \in [adaptive : BOOLEAN, target : Nat, min : Nat, max : Nat,
              percentile : 1..99, margin : Nat]
  BY ConfigAssumption
<1>2. c.percentile \in 1..99
  BY <1>1
<1> QED BY <1>1, <1>2, ConfigAssumption DEF HoldLimit

\* A finite set of integers has a least element.
LEMMA LeastExists ==
    ASSUME NEW S, S \subseteq Int, S # {}, IsFiniteSet(S)
    PROVE  \E m \in S : \A x \in S : m <= x
<1> DEFINE Below(m) == {x \in S : x <= m}
           T == {Below(m) : m \in S}
           R == StrictSubsetOrdering(S)
<1>1. T \subseteq FiniteSubsetsOf(S) /\ T # {}
  <2>1. \A m \in S : Below(m) \in FiniteSubsetsOf(S)
    BY FS_Subset DEF FiniteSubsetsOf
  <2> QED BY <2>1
<1>2. PICK t \in T : \A u \in T : ~(<<u, t>> \in R)
  <2> HIDE DEF T, R
  <2> QED BY <1>1, FS_StrictSubsetOrderingWellFounded, WFMin DEF R
<1>3. PICK m \in S : t = Below(m)
  OBVIOUS
<1>4. ASSUME NEW x \in S, x < m PROVE FALSE
  <2>1. Below(x) \subseteq Below(m) /\ m \in Below(m) /\ m \notin Below(x)
    <3>1. x \in Int /\ m \in Int /\ S \subseteq Int
      OBVIOUS
    <3>2. \A y \in Int : y <= x => y <= m
      BY <3>1, <1>4
    <3>3. Below(x) \subseteq Below(m)
      BY <3>1, <3>2
    <3>4. m <= m /\ ~(m <= x)
      BY <3>1, <1>4
    <3> QED BY <3>3, <3>4
  <2>2. <<Below(x), Below(m)>> \in R
    BY <2>1 DEF StrictSubsetOrdering
  <2> QED BY <1>2, <1>3, <2>2
<1> QED BY <1>4

\* The values of a window that holds something.
LEMMA ValuesType ==
    ASSUME NEW w \in Seq(Delay), w # <<>>
    PROVE  /\ Values(w) \subseteq Delay /\ Values(w) \subseteq Int
           /\ Values(w) # {} /\ IsFiniteSet(Values(w))
           /\ Len(w) \in Nat \ {0} /\ DOMAIN w = 1..Len(w)
           /\ \A i \in 1..Len(w) : w[i] \in Values(w) /\ w[i] \in Delay
<1>1. Len(w) \in Nat \ {0} /\ DOMAIN w = 1..Len(w)
  BY EmptySeq, LenProperties
<1>2. \A i \in 1..Len(w) : w[i] \in Delay
  BY ElementOfSeq
<1>3. Values(w) \subseteq Delay
  BY <1>1, <1>2 DEF Values
<1>4. IsFiniteSet(Values(w))
  BY <1>3, FS_Interval, FS_Subset DEF Delay
<1> QED BY <1>1, <1>2, <1>3, <1>4 DEF Values, Delay

\* The floor is the least delay of the window.
LEMMA FloorIsLeast ==
    ASSUME NEW w \in Seq(Delay), w # <<>>
    PROVE  /\ Floor(w) \in Values(w) /\ Floor(w) \in Int
           /\ \A e \in Values(w) : Floor(w) <= e
<1>1. \E d \in Values(w) : \A e \in Values(w) : d <= e
  BY ValuesType, LeastExists
<1> QED BY <1>1, ValuesType DEF Floor

\* The rank is an index into the window, counted from zero.
LEMMA RankType ==
    ASSUME NEW c \in Config, NEW w \in Seq(Delay), w # <<>>
    PROVE  Rank(w, c) \in Nat /\ Rank(w, c) < Len(w)
<1>1. Len(w) \in Nat \ {0}
  BY ValuesType
<1>2. c.percentile \in Nat
  BY ConfigType
<1>3. c.percentile * Len(w) \in Nat
  BY <1>1, <1>2
<1>4. ASSUME NEW x \in Nat PROVE x \div 100 \in Nat
  BY <1>4
<1> QED BY <1>1, <1>3, <1>4 DEF Rank

\* So the percentile is a delay of the window too.
LEMMA PercentileType ==
    ASSUME NEW c \in Config, NEW w \in Seq(Delay), w # <<>>
    PROVE  Percentile(w, c) \in Values(w) /\ Percentile(w, c) \in Int
<1> DEFINE k == Rank(w, c)
<1>1. \E g \in Values(w) : \A e \in Values(w) : e <= g
  <2> DEFINE N == {0 - e : e \in Values(w)}
  <2>1. N \subseteq Int /\ N # {} /\ IsFiniteSet(N)
    <3>1. N \subseteq (0 - MaxDelay)..(0 - MinDelay)
      BY ValuesType DEF Delay
    <3>2. IsFiniteSet((0 - MaxDelay)..(0 - MinDelay))
      BY FS_Interval
    <3>3. IsFiniteSet(N)
      BY <3>1, <3>2, FS_Subset
    <3> QED BY <3>1, <3>3, ValuesType
  <2>2. PICK n \in N : \A x \in N : n <= x
    <3> HIDE DEF N
    <3> QED BY <2>1, LeastExists
  <2>3. PICK g \in Values(w) : n = 0 - g
    OBVIOUS
  <2>4. \A e \in Values(w) : e <= g
    <3> TAKE e \in Values(w)
    <3>1. n <= 0 - e
      BY <2>2
    <3> QED BY <3>1, <2>3, ValuesType
  <2> QED BY <2>4
<1>2. PICK g \in Values(w) : \A e \in Values(w) : e <= g
  BY <1>1
<1>3. {i \in DOMAIN w : w[i] <= g} = 1..Len(w)
  BY <1>2, ValuesType
<1>4. g \in Ranked(w, k)
  <2>1. Cardinality(1..Len(w)) = Len(w)
    <3>1. Len(w) \in Nat \ {0}
      BY ValuesType
    <3>2. Len(w) \in Int /\ 1 \in Int /\ ~(1 > Len(w))
      BY <3>1
    <3>3. Cardinality(1..Len(w)) = Len(w) - 1 + 1
      BY <3>2, FS_Interval
    <3> QED BY <3>1, <3>3
  <2> QED BY <1>3, <2>1, RankType DEF Ranked
<1>5. Ranked(w, k) \subseteq Values(w)
  BY DEF Ranked
<1>6. \E d \in Ranked(w, k) : \A e \in Ranked(w, k) : d <= e
  <2>1. Ranked(w, k) \subseteq Int /\ IsFiniteSet(Ranked(w, k))
    BY <1>5, ValuesType, FS_Subset
  <2> QED BY <1>4, <2>1, LeastExists
<1>7. Percentile(w, c) \in Ranked(w, k)
  BY <1>6 DEF Percentile
<1> QED BY <1>5, <1>7, ValuesType

\* The budget stays within what the configuration allows.
LEMMA BudgetBounds ==
    ASSUME NEW c \in Config, NEW w \in Seq(Delay), w # <<>>
    PROVE  Budget(w, c) \in 0..HoldLimit(c)
<1>1. c.adaptive \in BOOLEAN /\ {c.target, c.min, c.max, c.margin} \subseteq Nat /\ c.min <= c.max
  BY ConfigType
<1>2. Percentile(w, c) - Floor(w) + c.margin \in Int
  BY <1>1, PercentileType, FloorIsLeast
<1> QED BY <1>1, <1>2 DEF Budget, HoldLimit

\* What the deque does: the newest delay is last, the rest move up by at most
\* one place.
LEMMA RememberIsAWindow ==
    ASSUME NEW w \in Seq(Delay), Len(w) <= Window, NEW d \in Delay
    PROVE  LET r == Remember(w, d) IN
           /\ r \in Seq(Delay) /\ r # <<>> /\ Len(r) <= Window
           /\ Len(w) \in Nat /\ Len(r) \in Nat \ {0}
           /\ Len(w) <= Len(r) /\ Len(r) <= Len(w) + 1
           /\ r[Len(r)] = d
           /\ \A i \in 1..(Len(r) - 1) : r[i] = w[i + (Len(w) + 1 - Len(r))]
<1>0. Len(w) \in Nat
  BY LenProperties
<1>1. CASE Len(w) < Window
  <2>1. Remember(w, d) = Append(w, d)
    BY <1>1 DEF Remember
  <2> QED BY <1>0, <1>1, <2>1, AppendProperties
<1>2. CASE ~(Len(w) < Window)
  <2>1. Remember(w, d) = Append(Tail(w), d)
    BY <1>2 DEF Remember
  <2>2. w # <<>>
    BY <1>2, <1>0, EmptySeq
  <2>3. /\ Tail(w) \in Seq(Delay)
        /\ Len(Tail(w)) = Len(w) - 1
        /\ \A i \in 1..Len(Tail(w)) : Tail(w)[i] = w[i + 1]
    BY <2>2, HeadTailProperties
  <2> QED BY <1>0, <1>2, <2>1, <2>3, AppendProperties
<1> QED BY <1>1, <1>2

------------------------------------------------------------------------------
(* The queue *)

\* A message with a hold within the node's budget.
Held(c) == {m \in Message : m.release - m.arrival \in 0..HoldLimit(c)}

\* The invariant: every message, waiting or gone, was given a hold within the
\* budget; nobody in the queue waits past the latest release; and that lies no
\* further ahead of the clock than a budget.
LineInv ==
    /\ TypeOK
    /\ queue \in Seq(Held(config)) /\ published \in Seq(Held(config))
    /\ \A i \in 1..Len(queue) : last_release # None /\ queue[i].release <= last_release
    /\ last_release # None => last_release <= now + HoldLimit(config)

NewMessage(stamp) ==
    LET window   == Remember(delays, now - stamp)
        deadline == Deadline(window, config, stamp)
    IN  [stamp |-> stamp, arrival |-> now, deadline |-> deadline,
         release |-> Release(deadline, now, last_release)]

\* What a new message is given.
LEMMA NewMessageIsHeld ==
    ASSUME LineInv, NEW stamp \in Int, OnMessage(stamp)
    PROVE  LET w == Remember(delays, now - stamp)
               m == NewMessage(stamp)
           IN  /\ w \in Seq(Delay) /\ w # <<>> /\ Len(w) <= Window
               /\ stamp \in Stamp
               /\ m \in Held(config) /\ m.release \in 0..MaxTime
               /\ m.release \in now..(now + HoldLimit(config))
               /\ last_release # None => last_release <= m.release
               /\ now + MaxHold <= MaxTime
<1> DEFINE d == now - stamp
           w == Remember(delays, d)
           deadline == Deadline(w, config, stamp)
           release == Release(deadline, now, last_release)
<1>1. /\ now \in 0..MaxTime /\ config \in Config
      /\ delays \in Seq(Delay) /\ Len(delays) <= Window
      /\ last_release \in 0..MaxTime \cup {None}
  BY DEF LineInv, TypeOK
<1>2. d \in Delay /\ now + MaxHold <= MaxTime
  BY DEF OnMessage
<1>3. w \in Seq(Delay) /\ w # <<>> /\ Len(w) <= Window /\ Len(w) \in Nat \ {0} /\ w[Len(w)] = d
  BY <1>1, <1>2, RememberIsAWindow
<1>4. d \in Values(w)
  BY <1>3, ValuesType
<1>5. Floor(w) \in Int /\ Floor(w) <= d
  BY <1>3, <1>4, FloorIsLeast
<1>6. Budget(w, config) \in 0..HoldLimit(config) /\ HoldLimit(config) \in Nat
      /\ HoldLimit(config) <= MaxHold
  BY <1>1, <1>3, BudgetBounds, ConfigType
<1>7. deadline \in Int /\ deadline <= now + HoldLimit(config)
  BY <1>1, <1>5, <1>6 DEF Deadline
<1>8. stamp \in Stamp
  BY <1>1, <1>2 DEF Delay, Stamp
<1>9. release \in now..(now + HoldLimit(config)) /\ (last_release # None => last_release <= release)
  BY <1>1, <1>6, <1>7 DEF Release, LineInv
<1>10. release \in 0..MaxTime
  BY <1>1, <1>2, <1>6, <1>9
<1>11. NewMessage(stamp) = [stamp |-> stamp, arrival |-> now, deadline |-> deadline, release |-> release]
  BY DEF NewMessage
<1>12. NewMessage(stamp) \in Held(config)
  <2>1. NewMessage(stamp) \in Message
    BY <1>1, <1>7, <1>8, <1>10, <1>11 DEF Message
  <2>2. release - now \in 0..HoldLimit(config)
    BY <1>1, <1>6, <1>9
  <2> QED BY <1>11, <2>1, <2>2 DEF Held
<1> HIDE DEF w, deadline, release
<1> QED BY <1>2, <1>3, <1>8, <1>9, <1>10, <1>11, <1>12 DEF w, d

\* What the release loop takes off the queue, and what it leaves.
LEMMA SplitQueue ==
    ASSUME NEW S, NEW q \in Seq(S), NEW n \in 1..Len(q)
    PROVE  /\ Len(q) \in Nat
           /\ SubSeq(q, 1, n) \in Seq(S) /\ Len(SubSeq(q, 1, n)) = n
           /\ \A i \in 1..n : SubSeq(q, 1, n)[i] = q[i]
           /\ SubSeq(q, n + 1, Len(q)) \in Seq(S)
           /\ Len(SubSeq(q, n + 1, Len(q))) = Len(q) - n
           /\ \A i \in 1..(Len(q) - n) : SubSeq(q, n + 1, Len(q))[i] = q[n + i]
<1>1. Len(q) \in Nat /\ \A i \in 1..Len(q) : q[i] \in S
  BY LenProperties, ElementOfSeq
<1>2. /\ SubSeq(q, 1, n) \in Seq(S)
      /\ Len(SubSeq(q, 1, n)) = IF 1 <= n THEN n - 1 + 1 ELSE 0
      /\ \A i \in 1..(n - 1 + 1) : SubSeq(q, 1, n)[i] = q[1 + i - 1]
  <2>1. 1 \in Int /\ n \in Int /\ \A i \in 1..n : q[i] \in S
    BY <1>1
  <2> QED BY <2>1, SubSeqProperties
<1>3. /\ SubSeq(q, n + 1, Len(q)) \in Seq(S)
      /\ Len(SubSeq(q, n + 1, Len(q))) = IF n + 1 <= Len(q) THEN Len(q) - (n + 1) + 1 ELSE 0
      /\ \A i \in 1..(Len(q) - (n + 1) + 1) :
            SubSeq(q, n + 1, Len(q))[i] = q[(n + 1) + i - 1]
  <2>1. n + 1 \in Int /\ Len(q) \in Int /\ \A i \in (n + 1)..Len(q) : q[i] \in S
    BY <1>1
  <2> QED BY <2>1, SubSeqProperties
<1>4. \A i \in 1..n : SubSeq(q, 1, n)[i] = q[i]
  <2>1. \A i \in 1..n : 1 + i - 1 = i /\ i \in 1..(n - 1 + 1)
    BY <1>1
  <2> QED BY <2>1, <1>2
<1>5. \A i \in 1..(Len(q) - n) : SubSeq(q, n + 1, Len(q))[i] = q[n + i]
  <2>1. \A i \in 1..(Len(q) - n) : (n + 1) + i - 1 = n + i /\ i \in 1..(Len(q) - (n + 1) + 1)
    BY <1>1
  <2> QED BY <2>1, <1>3
<1> QED BY <1>1, <1>2, <1>3, <1>4, <1>5

\* Arrivals keep the invariant.
LEMMA OnMessageKeepsLineInv ==
    ASSUME LineInv, NEW stamp \in Int, OnMessage(stamp)
    PROVE  LineInv'
<1> DEFINE m == NewMessage(stamp)
<1>1. /\ queue' = Append(queue, m) /\ last_release' = m.release
      /\ delays' = Remember(delays, now - stamp)
      /\ config' = config /\ now' = now /\ published' = published
  BY DEF OnMessage, NewMessage
<1>2. /\ delays' \in Seq(Delay) /\ Len(delays') <= Window
      /\ stamp \in Stamp /\ m \in Held(config) /\ m.release \in 0..MaxTime
      /\ m.release \in now..(now + HoldLimit(config))
      /\ last_release # None => last_release <= m.release
  BY <1>1, NewMessageIsHeld
<1> HIDE DEF m
<1>3. m.release # None /\ m.release \in Int /\ m \in Message
  BY <1>2 DEF Held
<1>4. queue' \in Seq(Held(config)) /\ Len(queue') = Len(queue) + 1 /\ Len(queue) \in Nat
      /\ (\A i \in 1..Len(queue) : queue'[i] = queue[i] /\ queue[i] \in Message)
      /\ queue'[Len(queue) + 1] = m
  BY <1>1, <1>2, AppendProperties, LenProperties, ElementOfSeq DEF LineInv, Held
<1>5. queue' \in Seq(Message)
  BY <1>1, <1>3, AppendProperties DEF LineInv, TypeOK
<1>6. TypeOK'
  BY <1>1, <1>2, <1>5 DEF TypeOK, LineInv
<1>7. \A i \in 1..Len(queue') : queue'[i].release <= last_release'
  <2> TAKE i \in 1..Len(queue')
  <2>1. CASE i \in 1..Len(queue)
    <3>2. last_release # None /\ queue[i].release <= last_release
      BY <2>1 DEF LineInv
    <3>1. queue[i].release \in Int /\ last_release \in Int
      <4>1. queue[i] \in Message
        BY <1>4, <2>1
      <4>2. queue[i].release \in 0..MaxTime
        BY <4>1 DEF Message
      <4>3. last_release \in 0..MaxTime
        BY <3>2 DEF LineInv, TypeOK
      <4> QED BY <4>2, <4>3
    <3>3. last_release <= m.release /\ m.release \in Int
      BY <1>2, <1>3, <3>2
    <3>4. queue[i].release <= m.release
      BY <3>1, <3>2, <3>3
    <3> QED BY <1>1, <1>4, <2>1, <3>4
  <2>2. CASE i = Len(queue) + 1
    BY <1>1, <1>3, <1>4, <2>2
  <2> QED BY <1>4, <2>1, <2>2
<1>8. last_release' <= now' + HoldLimit(config')
  BY <1>1, <1>2
<1> QED BY <1>1, <1>3, <1>4, <1>6, <1>7, <1>8 DEF LineInv

\* So does the release loop.
LEMMA ReleaseKeepsLineInv ==
    ASSUME LineInv, ReleaseDue
    PROVE  LineInv'
<1>1. PICK n \in 1..Len(queue) : /\ published' = published \o SubSeq(queue, 1, n)
                                 /\ queue' = SubSeq(queue, n + 1, Len(queue))
  BY DEF ReleaseDue
<1>2. UNCHANGED <<config, now, delays, last_release>>
  BY DEF ReleaseDue
<1>3. queue \in Seq(Held(config)) /\ published \in Seq(Held(config))
      /\ queue \in Seq(Message) /\ published \in Seq(Message)
  BY DEF LineInv, TypeOK
<1>4. queue' \in Seq(Held(config')) /\ published' \in Seq(Held(config'))
  BY <1>1, <1>2, <1>3, SplitQueue, ConcatProperties
<1>5. queue' \in Seq(Message) /\ published' \in Seq(Message)
  BY <1>1, <1>3, SplitQueue, ConcatProperties
<1>6. \A i \in 1..Len(queue') : last_release' # None /\ queue'[i].release <= last_release'
  <2> TAKE i \in 1..Len(queue')
  <2>1. Len(queue) \in Nat /\ Len(queue') = Len(queue) - n /\ queue'[i] = queue[n + i]
    BY <1>1, <1>3, SplitQueue
  <2>2. n + i \in 1..Len(queue)
    BY <2>1
  <2> QED BY <1>2, <2>1, <2>2 DEF LineInv
<1>7. TypeOK'
  BY <1>2, <1>5 DEF LineInv, TypeOK
<1> QED BY <1>2, <1>4, <1>6, <1>7 DEF LineInv

\* Init and every step.
LEMMA LineInvInductive ==
    /\ Init => LineInv
    /\ LineInv /\ [Next]_vars => LineInv'
<1>1. Init => LineInv
  <2> SUFFICES ASSUME Init PROVE LineInv
    OBVIOUS
  <2>1. Len(<<>>) = 0 /\ \A S : <<>> \in Seq(S)
    BY EmptySeq
  <2> QED BY <2>1 DEF Init, LineInv, TypeOK
<1>2. LineInv /\ [Next]_vars => LineInv'
  <2> SUFFICES ASSUME LineInv, [Next]_vars PROVE LineInv'
    OBVIOUS
  <2>1. CASE \E stamp \in (now - MaxDelay)..(now - MinDelay) : OnMessage(stamp)
    BY <2>1, OnMessageKeepsLineInv DEF LineInv, TypeOK
  <2>2. CASE ReleaseDue
    BY <2>2, ReleaseKeepsLineInv
  <2>3. CASE TimePasses
    <3>1. now' = now + 1 /\ now' \in 0..MaxTime
          /\ UNCHANGED <<config, delays, last_release, queue, published>>
      BY <2>3 DEF TimePasses, LineInv, TypeOK
    <3>2. TypeOK'
      BY <3>1 DEF LineInv, TypeOK
    <3>3. HoldLimit(config) \in Nat /\ now \in Nat
      BY ConfigType DEF LineInv, TypeOK
    <3>4. last_release # None => last_release \in Nat /\ last_release <= now' + HoldLimit(config)
      BY <3>1, <3>3 DEF LineInv, TypeOK
    <3> QED BY <3>1, <3>2, <3>4 DEF LineInv
  <2>4. CASE UNCHANGED vars
    BY <2>4 DEF vars, LineInv, TypeOK
  <2> QED BY <2>1, <2>2, <2>3, <2>4 DEF Next
<1> QED BY <1>1, <1>2

\* The schedule and the queue stay well typed, for every configuration.
THEOREM TypeCorrect == Spec => []TypeOK
<1>1. LineInv => TypeOK
  BY DEF LineInv
<1> QED BY <1>1, LineInvInductive, PTL DEF Spec

\* No message is held past the budget, whatever its delay and whoever waits in
\* front of it.
THEOREM HoldIsBounded == Spec => []HoldBounded
<1>1. LineInv => HoldBounded
  <2> SUFFICES ASSUME LineInv, NEW i \in DOMAIN Accepted
               PROVE  Accepted[i].release - Accepted[i].arrival \in 0..HoldLimit(config)
    BY DEF HoldBounded
  <2>1. Accepted \in Seq(Held(config))
    BY ConcatProperties DEF LineInv, Accepted
  <2>2. Accepted[i] \in Held(config)
    BY <2>1, LenProperties, ElementOfSeq
  <2> QED BY <2>2 DEF Held
<1> QED BY <1>1, LineInvInductive, PTL DEF Spec

------------------------------------------------------------------------------
(* The messages so far *)

\* A new message is the last one accepted, and publishing changes nothing of
\* what was accepted.
LEMMA AcceptedGrows ==
    ASSUME LineInv, NEW stamp \in Int, OnMessage(stamp)
    PROVE  /\ Accepted' \in Seq(Message)
           /\ Len(Accepted') = Len(Accepted) + 1
           /\ Accepted'[Len(Accepted) + 1] = NewMessage(stamp)
           /\ \A i \in 1..Len(Accepted) : Accepted'[i] = Accepted[i]
<1> DEFINE m == NewMessage(stamp)
<1>1. queue' = Append(queue, m) /\ published' = published
  BY DEF OnMessage, NewMessage
<1>2. m \in Message
  BY NewMessageIsHeld DEF Held
<1> HIDE DEF m
<1>3. queue \in Seq(Message) /\ published \in Seq(Message)
  BY DEF LineInv, TypeOK
<1>4. /\ queue' \in Seq(Message) /\ Len(queue') = Len(queue) + 1
      /\ \A i \in 1..Len(queue) : queue'[i] = queue[i]
      /\ queue'[Len(queue) + 1] = m
  BY <1>1, <1>2, <1>3, AppendProperties
<1>5. /\ Len(queue) \in Nat /\ Len(published) \in Nat
  BY <1>3, LenProperties
<1>6. /\ Accepted \in Seq(Message) /\ Len(Accepted) = Len(published) + Len(queue)
      /\ \A i \in 1..(Len(published) + Len(queue)) :
            Accepted[i] = IF i <= Len(published) THEN published[i]
                                                 ELSE queue[i - Len(published)]
  BY <1>3, ConcatProperties DEF Accepted
<1>7. /\ Accepted' \in Seq(Message) /\ Len(Accepted') = Len(published) + Len(queue')
      /\ \A i \in 1..(Len(published) + Len(queue')) :
            Accepted'[i] = IF i <= Len(published) THEN published[i]
                                                  ELSE queue'[i - Len(published)]
  BY <1>1, <1>3, <1>4, ConcatProperties DEF Accepted
<1>8. ASSUME NEW i \in 1..Len(Accepted) PROVE Accepted'[i] = Accepted[i]
  <2>1. i \in 1..(Len(published) + Len(queue)) /\ i \in 1..(Len(published) + Len(queue'))
    BY <1>4, <1>5, <1>6
  <2>2. CASE i <= Len(published)
    BY <1>6, <1>7, <2>1, <2>2
  <2>3. CASE ~(i <= Len(published))
    <3>1. i - Len(published) \in 1..Len(queue)
      BY <1>5, <2>1, <2>3
    <3> QED BY <1>4, <1>6, <1>7, <2>1, <2>3, <3>1
  <2> QED BY <2>2, <2>3
<1>9. Accepted'[Len(Accepted) + 1] = m
  <2>1. /\ Len(Accepted) + 1 \in 1..(Len(published) + Len(queue'))
        /\ ~(Len(Accepted) + 1 <= Len(published))
        /\ Len(Accepted) + 1 - Len(published) = Len(queue) + 1
    BY <1>4, <1>5, <1>6
  <2> QED BY <1>4, <1>7, <2>1
<1> QED BY <1>4, <1>5, <1>6, <1>7, <1>8, <1>9 DEF m

LEMMA MessagesAssociate ==
    ASSUME NEW s \in Seq(Message), NEW t \in Seq(Message), NEW u \in Seq(Message)
    PROVE  (s \o t) \o u = s \o (t \o u)
BY ConcatAssociative

LEMMA AcceptedStays ==
    ASSUME LineInv, ReleaseDue
    PROVE  Accepted' = Accepted
<1>1. PICK n \in 1..Len(queue) : /\ published' = published \o SubSeq(queue, 1, n)
                                 /\ queue' = SubSeq(queue, n + 1, Len(queue))
  BY DEF ReleaseDue
<1>2. queue \in Seq(Message) /\ published \in Seq(Message)
  BY DEF LineInv, TypeOK
<1> DEFINE f == SubSeq(queue, 1, n)
           r == SubSeq(queue, n + 1, Len(queue))
<1>3. /\ Len(queue) \in Nat
      /\ f \in Seq(Message) /\ Len(f) = n /\ \A i \in 1..n : f[i] = queue[i]
      /\ r \in Seq(Message) /\ Len(r) = Len(queue) - n
      /\ \A i \in 1..(Len(queue) - n) : r[i] = queue[n + i]
  BY <1>2, SplitQueue
<1>4. f \o r = queue
  <2> HIDE DEF f, r
  <2>0. /\ f \o r \in Seq(Message) /\ Len(f \o r) = Len(f) + Len(r)
        /\ \A i \in 1..(Len(f) + Len(r)) :
              (f \o r)[i] = IF i <= Len(f) THEN f[i] ELSE r[i - Len(f)]
    BY <1>3, ConcatProperties
  <2>1. /\ f \o r \in Seq(Message) /\ Len(f \o r) = Len(queue)
        /\ \A i \in 1..Len(queue) : (f \o r)[i] = IF i <= n THEN f[i] ELSE r[i - n]
    <3>1. Len(f) + Len(r) = Len(queue)
      BY <1>3
    <3> QED BY <1>3, <2>0, <3>1
  <2>2. \A i \in 1..Len(queue) : (f \o r)[i] = queue[i]
    BY <1>3, <2>1
  <2> QED BY <1>2, <2>1, <2>2, SeqEqual
<1>5. (published \o f) \o r = published \o (f \o r)
  <2>1. published \in Seq(Message) /\ f \in Seq(Message) /\ r \in Seq(Message)
    BY <1>2, <1>3
  <2> HIDE DEF f, r
  <2> QED BY <2>1, MessagesAssociate
<1> QED BY <1>1, <1>4, <1>5 DEF Accepted

------------------------------------------------------------------------------
(* What a late message waits for under a fixed budget *)

\* The message at place j sets the latest release, and under the present floor
\* that is no later than its own stamp asks for.
Sets(j) ==
    /\ Accepted[j].release = last_release
    /\ last_release <= Accepted[j].stamp + Floor(delays) + config.target

\* What LateWaitsOnlyForNewer says of the message at one place.
LateOnlyBehindNewer(i) ==
    LET m == Accepted[i]
    IN  m.deadline < m.arrival =>
            \/ m.release = m.arrival
            \/ \E j \in 1..(i - 1) : Accepted[j].stamp > m.stamp /\ Accepted[j].release = m.release

\* As long as the latest release lies ahead, some message accounts for it: a
\* message that lowers the floor is due a full budget from now and becomes that
\* message, and any other leaves the floor where it was or higher.
PromptInv ==
    /\ LineInv
    /\ last_release # None => delays # <<>>
    /\ ~config.adaptive => \A i \in DOMAIN Accepted : LateOnlyBehindNewer(i)
    /\ (~config.adaptive /\ last_release # None) =>
           last_release <= now \/ \E j \in 1..Len(Accepted) : Sets(j)

\* The floor under a late message is not lower than before it.
LEMMA LateRaisesTheFloor ==
    ASSUME NEW w \in Seq(Delay), w # <<>>, Len(w) <= Window, NEW d \in Delay,
           Floor(Remember(w, d)) # d
    PROVE  Floor(w) <= Floor(Remember(w, d))
<1> DEFINE r == Remember(w, d)
<1>1. /\ r \in Seq(Delay) /\ r # <<>>
      /\ Len(w) \in Nat /\ Len(r) \in Nat \ {0} /\ Len(w) <= Len(r) /\ Len(r) <= Len(w) + 1
      /\ r[Len(r)] = d
      /\ \A i \in 1..(Len(r) - 1) : r[i] = w[i + (Len(w) + 1 - Len(r))]
  BY RememberIsAWindow
<1> HIDE DEF r
<1>2. PICK i \in 1..Len(r) : r[i] = Floor(r)
  BY <1>1, FloorIsLeast, ValuesType DEF Values
<1>3. i \in 1..(Len(r) - 1)
  BY <1>1, <1>2 DEF r
<1>4. i + (Len(w) + 1 - Len(r)) \in 1..Len(w)
  BY <1>1, <1>3
<1>5. Floor(r) \in Values(w)
  BY <1>1, <1>2, <1>3, <1>4, ValuesType
<1> QED BY <1>5, FloorIsLeast DEF r

\* The places of the messages so far.
LEMMA AcceptedType ==
    ASSUME LineInv
    PROVE  /\ Accepted \in Seq(Message) /\ Len(Accepted) \in Nat
           /\ DOMAIN Accepted = 1..Len(Accepted)
           /\ \A i \in 1..Len(Accepted) : Accepted[i] \in Message
<1>1. queue \in Seq(Message) /\ published \in Seq(Message)
  BY DEF LineInv, TypeOK
<1>2. Accepted \in Seq(Message)
  BY <1>1, ConcatProperties DEF Accepted
<1> QED BY <1>2, LenProperties, ElementOfSeq

\* Arrivals.
LEMMA OnMessageKeepsPromptInv ==
    ASSUME PromptInv, NEW stamp \in Int, OnMessage(stamp)
    PROVE  PromptInv'
<1> DEFINE m == NewMessage(stamp)
           d == now - stamp
           w == Remember(delays, d)
<1>0. PICK n \in Nat : n = Len(Accepted)
  BY AcceptedType DEF PromptInv
<1>1. /\ last_release' = m.release /\ delays' = w
      /\ config' = config /\ now' = now
  BY DEF OnMessage, NewMessage
<1>2. /\ w \in Seq(Delay) /\ w # <<>> /\ m \in Held(config) /\ m.release \in 0..MaxTime
  BY NewMessageIsHeld DEF PromptInv
<1>3. /\ config \in Config /\ now \in 0..MaxTime /\ delays \in Seq(Delay) /\ Len(delays) <= Window
      /\ last_release \in 0..MaxTime \cup {None}
      /\ d \in Delay
  BY DEF PromptInv, LineInv, TypeOK, OnMessage
<1>4. /\ Floor(w) \in Int /\ Floor(w) <= d /\ d \in Int /\ config.target \in Nat
  <2>1. Len(w) \in Nat \ {0} /\ w[Len(w)] = d
    BY <1>3, RememberIsAWindow
  <2> QED BY <1>2, <1>3, <2>1, ValuesType, FloorIsLeast, ConfigType DEF Delay
<1>5. /\ m.arrival = now /\ m.stamp = stamp
      /\ m.release = Release(m.deadline, now, last_release)
      /\ ~config.adaptive => m.deadline = stamp + Floor(w) + config.target
  BY DEF NewMessage, Deadline, Budget
<1>6. LineInv'
  BY OnMessageKeepsLineInv DEF PromptInv
<1>7. /\ Len(Accepted') = n + 1 /\ Accepted'[n + 1] = m
      /\ DOMAIN Accepted' = 1..(n + 1)
      /\ \A i \in 1..n : Accepted'[i] = Accepted[i] /\ Accepted[i] \in Message
  <2>1. DOMAIN Accepted' = 1..Len(Accepted')
    BY <1>6, AcceptedType
  <2> QED BY <1>0, <2>1, AcceptedGrows, AcceptedType DEF PromptInv
<1>8. ~config.adaptive => HoldLimit(config) = config.target
  BY DEF HoldLimit
<1>9. \A i \in 1..n : i \in DOMAIN Accepted
  BY <1>0, AcceptedType DEF PromptInv
<1> HIDE DEF m, w, d
<1>10. ASSUME ~config.adaptive, last_release # None, last_release > now,
              m.deadline < last_release
       PROVE  /\ m.release = last_release
              /\ \E j \in 1..n : /\ Accepted[j].release = last_release
                                 /\ last_release <= Accepted[j].stamp + Floor(w) + config.target
  <2>1. /\ delays # <<>> /\ last_release \in Int /\ Floor(delays) \in Int
        /\ last_release <= now + config.target
    BY <1>3, <1>8, <1>10, FloorIsLeast DEF PromptInv, LineInv
  <2>2. PICK j \in 1..n : Sets(j)
    BY <1>0, <1>3, <1>10, <2>1 DEF PromptInv
  <2>3. Accepted[j].stamp \in Int
    BY <1>7, <2>2 DEF Message, Stamp
  <2>4. Floor(w) # d
    BY <1>3, <1>4, <1>5, <1>10, <2>1 DEF d
  <2>5. Floor(delays) <= Floor(w)
    BY <1>3, <2>1, <2>4, LateRaisesTheFloor DEF w
  <2>6. m.release = last_release
    BY <1>3, <1>4, <1>5, <1>10, <2>1 DEF Release
  <2> QED BY <1>4, <2>1, <2>2, <2>3, <2>5, <2>6 DEF Sets
<1>11. ~config.adaptive => LateOnlyBehindNewer(n + 1)'
  <2>0. (n + 1) - 1 = n
    OBVIOUS
  <2> SUFFICES ASSUME ~config.adaptive, m.deadline < now, m.release # now
               PROVE  \E j \in 1..n : Accepted'[j].stamp > stamp
                                      /\ Accepted'[j].release = m.release
    BY <1>5, <1>7, <2>0 DEF LateOnlyBehindNewer
  <2>1. last_release # None /\ last_release > now /\ m.deadline < last_release
    BY <1>3, <1>4, <1>5 DEF Release
  <2>2. PICK j \in 1..n : /\ Accepted[j].release = last_release
                          /\ last_release <= Accepted[j].stamp + Floor(w) + config.target
    BY <1>10, <2>1
  <2>3. Accepted[j].stamp \in Int /\ last_release \in Int
    BY <1>3, <1>7, <2>1 DEF Message, Stamp
  <2>4. Accepted[j].stamp > stamp
    <3>1. stamp + Floor(w) + config.target < now /\ now \in Int
      BY <1>3, <1>5
    <3>2. now < Accepted[j].stamp + Floor(w) + config.target
      BY <1>4, <2>1, <2>2, <2>3, <3>1
    <3> QED BY <1>4, <2>3, <3>1, <3>2
  <2>5. m.release = last_release
    BY <1>10, <2>1
  <2>6. Accepted'[j] = Accepted[j]
    BY <1>7
  <2> QED BY <2>2, <2>4, <2>5, <2>6
<1>12. ~config.adaptive => \A i \in DOMAIN Accepted' : LateOnlyBehindNewer(i)'
  <2>0. \A i \in 1..(n + 1) : i \in 1..n \/ i = n + 1
    OBVIOUS
  <2> SUFFICES ASSUME ~config.adaptive, NEW i \in 1..n PROVE LateOnlyBehindNewer(i)'
    BY <1>7, <1>11, <2>0
  <2>1. LateOnlyBehindNewer(i)
    BY <1>9 DEF PromptInv
  <2>2. \A j \in 1..(i - 1) : j \in 1..n
    OBVIOUS
  <2> QED BY <1>7, <2>1, <2>2 DEF LateOnlyBehindNewer
<1>13. ASSUME ~config.adaptive
       PROVE  m.release <= now \/ \E j \in 1..(n + 1) : Sets(j)'
  <2>1. CASE last_release # None /\ last_release > now /\ m.deadline < last_release
    BY <1>1, <1>7, <1>10, <1>13, <2>1 DEF Sets
  <2>2. CASE ~(last_release # None /\ last_release > now /\ m.deadline < last_release)
    <3>1. m.release <= now \/ m.release = m.deadline
      BY <1>3, <1>4, <1>5, <1>13, <2>2 DEF Release
    <3>2. ASSUME m.release = m.deadline PROVE Sets(n + 1)'
      <4>1. Accepted'[n + 1].release = last_release' /\ Accepted'[n + 1].stamp = stamp
        BY <1>1, <1>5, <1>7
      <4>2. last_release' <= stamp + Floor(w) + config.target
        BY <1>1, <1>2, <1>5, <1>13, <3>2
      <4> QED BY <1>1, <4>1, <4>2 DEF Sets
    <3>3. n + 1 \in 1..(n + 1)
      OBVIOUS
    <3> QED BY <3>1, <3>2, <3>3
  <2> QED BY <2>1, <2>2
<1> QED BY <1>1, <1>2, <1>6, <1>7, <1>12, <1>13 DEF PromptInv

\* Init and every step.
LEMMA PromptInvInductive ==
    /\ Init => PromptInv
    /\ PromptInv /\ [Next]_vars => PromptInv'
<1>1. Init => PromptInv
  <2> SUFFICES ASSUME Init PROVE PromptInv
    OBVIOUS
  <2>1. Len(<<>>) = 0 /\ DOMAIN <<>> = {} /\ <<>> \in Seq(Message)
    BY EmptySeq
  <2>2. Accepted = <<>>
    BY <2>1, ConcatEmptySeq DEF Init, Accepted
  <2> QED BY <2>1, <2>2, LineInvInductive DEF Init, PromptInv
<1>2. PromptInv /\ [Next]_vars => PromptInv'
  <2> SUFFICES ASSUME PromptInv, [Next]_vars PROVE PromptInv'
    OBVIOUS
  <2>0. LineInv'
    BY LineInvInductive DEF PromptInv
  <2>1. CASE \E stamp \in (now - MaxDelay)..(now - MinDelay) : OnMessage(stamp)
    BY <2>1, OnMessageKeepsPromptInv DEF PromptInv, LineInv, TypeOK
  <2>2. CASE /\ Accepted' = Accepted /\ UNCHANGED <<config, delays, last_release>>
             /\ now' = now \/ now' = now + 1
    <3>1. now \in Int /\ (last_release # None => last_release \in Int)
      BY DEF PromptInv, LineInv, TypeOK
    <3>2. \A i : LateOnlyBehindNewer(i) => LateOnlyBehindNewer(i)'
      BY <2>2 DEF LateOnlyBehindNewer
    <3>3. \A j : Sets(j) => Sets(j)'
      BY <2>2 DEF Sets
    <3> QED BY <2>0, <2>2, <3>1, <3>2, <3>3 DEF PromptInv
  <2>3. CASE ReleaseDue
    BY <2>2, <2>3, AcceptedStays DEF ReleaseDue, PromptInv
  <2>4. CASE TimePasses \/ UNCHANGED vars
    BY <2>2, <2>4 DEF TimePasses, vars, Accepted
  <2> QED BY <2>1, <2>3, <2>4 DEF Next
<1> QED BY <1>1, <1>2

\* With a fixed budget a late message passes at once, or leaves with a message
\* that is held still and was stamped later, for every window length, every
\* range of delays, every offset between the clocks and every order of stamps.
THEOREM LateWaitsForNewer == Spec => []LateWaitsOnlyForNewer
<1>1. PromptInv => LateWaitsOnlyForNewer
  BY DEF PromptInv, LateOnlyBehindNewer, LateWaitsOnlyForNewer
<1> QED BY <1>1, PromptInvInductive, PTL DEF Spec

------------------------------------------------------------------------------
(* The pacer is a delay line *)

Entry == [stamp : Stamp, arrival : 0..MaxTime, release : 0..MaxTime]

\* A sequence of messages as the delay line sees it.
BareSeq(s) == [i \in DOMAIN s |-> Bare(s[i])]

LEMMA BareSeqType ==
    ASSUME NEW s \in Seq(Message)
    PROVE  /\ BareSeq(s) \in Seq(Entry) /\ Len(BareSeq(s)) = Len(s) /\ Len(s) \in Nat
           /\ \A i \in 1..Len(s) : BareSeq(s)[i] = Bare(s[i]) /\ Bare(s[i]) \in Entry
<1>1. Len(s) \in Nat /\ DOMAIN s = 1..Len(s) /\ \A i \in 1..Len(s) : s[i] \in Message
  BY LenProperties, ElementOfSeq
<1>2. \A i \in 1..Len(s) : Bare(s[i]) \in Entry
  BY <1>1 DEF Bare, Entry, Message
<1>3. BareSeq(s) \in [1..Len(s) -> Entry]
  BY <1>1, <1>2 DEF BareSeq
<1>4. BareSeq(s) \in Seq(Entry)
  BY <1>1, <1>3, SeqDef
<1>5. Len(BareSeq(s)) \in Nat /\ DOMAIN BareSeq(s) = 1..Len(BareSeq(s))
  BY <1>4, LenProperties
<1>6. DOMAIN BareSeq(s) = 1..Len(s)
  BY <1>3
<1>7. Len(BareSeq(s)) = Len(s)
  <2> SUFFICES ASSUME NEW a \in Nat, NEW b \in Nat, 1..a = 1..b PROVE a = b
    BY <1>1, <1>5, <1>6
  <2>1. \A i \in Int : (1 <= i /\ i <= a) <=> (1 <= i /\ i <= b)
    <3>1. \A i \in Int : (i \in 1..a <=> (1 <= i /\ i <= a)) /\ (i \in 1..b <=> (1 <= i /\ i <= b))
      OBVIOUS
    <3> QED BY <3>1
  <2> QED BY <2>1
<1>8. \A i \in 1..Len(s) : BareSeq(s)[i] = Bare(s[i])
  BY <1>1 DEF BareSeq
<1> QED BY <1>1, <1>2, <1>4, <1>7, <1>8

\* The view commutes with what the node does to its queue.
LEMMA BareAppend ==
    ASSUME NEW s \in Seq(Message), NEW m \in Message
    PROVE  BareSeq(Append(s, m)) = Append(BareSeq(s), Bare(m))
<1>1. /\ Append(s, m) \in Seq(Message) /\ Len(Append(s, m)) = Len(s) + 1 /\ Len(s) \in Nat
      /\ \A i \in 1..Len(s) : Append(s, m)[i] = s[i]
      /\ Append(s, m)[Len(s) + 1] = m
  BY AppendProperties, LenProperties
<1>2. Bare(m) \in Entry
  BY DEF Bare, Entry, Message
<1>3. /\ Append(BareSeq(s), Bare(m)) \in Seq(Entry)
      /\ Len(Append(BareSeq(s), Bare(m))) = Len(s) + 1
      /\ \A i \in 1..Len(s) : Append(BareSeq(s), Bare(m))[i] = Bare(s[i])
      /\ Append(BareSeq(s), Bare(m))[Len(s) + 1] = Bare(m)
  BY <1>2, BareSeqType, AppendProperties
<1>4. /\ BareSeq(Append(s, m)) \in Seq(Entry)
      /\ Len(BareSeq(Append(s, m))) = Len(s) + 1
      /\ \A i \in 1..(Len(s) + 1) : BareSeq(Append(s, m))[i] = Bare(Append(s, m)[i])
  BY <1>1, BareSeqType
<1>5. \A i \in 1..(Len(s) + 1) : BareSeq(Append(s, m))[i] = Append(BareSeq(s), Bare(m))[i]
  BY <1>1, <1>3, <1>4
<1> QED BY <1>3, <1>4, <1>5, SeqEqual

LEMMA BareConcat ==
    ASSUME NEW s \in Seq(Message), NEW t \in Seq(Message)
    PROVE  BareSeq(s \o t) = BareSeq(s) \o BareSeq(t)
<1>1. /\ s \o t \in Seq(Message) /\ Len(s \o t) = Len(s) + Len(t)
      /\ \A i \in 1..(Len(s) + Len(t)) :
            (s \o t)[i] = IF i <= Len(s) THEN s[i] ELSE t[i - Len(s)]
  BY ConcatProperties
<1>2. /\ BareSeq(s) \in Seq(Entry) /\ Len(BareSeq(s)) = Len(s) /\ Len(s) \in Nat
      /\ BareSeq(t) \in Seq(Entry) /\ Len(BareSeq(t)) = Len(t) /\ Len(t) \in Nat
      /\ \A i \in 1..Len(s) : BareSeq(s)[i] = Bare(s[i])
      /\ \A i \in 1..Len(t) : BareSeq(t)[i] = Bare(t[i])
  BY BareSeqType
<1>3. /\ BareSeq(s) \o BareSeq(t) \in Seq(Entry)
      /\ Len(BareSeq(s) \o BareSeq(t)) = Len(s) + Len(t)
      /\ \A i \in 1..(Len(s) + Len(t)) :
            (BareSeq(s) \o BareSeq(t))[i] =
                IF i <= Len(s) THEN BareSeq(s)[i] ELSE BareSeq(t)[i - Len(s)]
  <2>1. /\ BareSeq(s) \o BareSeq(t) \in Seq(Entry)
        /\ Len(BareSeq(s) \o BareSeq(t)) = Len(BareSeq(s)) + Len(BareSeq(t))
        /\ \A i \in 1..(Len(BareSeq(s)) + Len(BareSeq(t))) :
              (BareSeq(s) \o BareSeq(t))[i] =
                  IF i <= Len(BareSeq(s)) THEN BareSeq(s)[i]
                                          ELSE BareSeq(t)[i - Len(BareSeq(s))]
    <3>1. BareSeq(s) \in Seq(Entry) /\ BareSeq(t) \in Seq(Entry)
      BY <1>2
    <3> QED BY ONLY <3>1, ConcatProperties
  <2>2. Len(BareSeq(s)) = Len(s) /\ Len(BareSeq(t)) = Len(t)
    BY <1>2
  <2> QED BY ONLY <2>1, <2>2
<1>4. /\ BareSeq(s \o t) \in Seq(Entry) /\ Len(BareSeq(s \o t)) = Len(s) + Len(t)
      /\ \A i \in 1..(Len(s) + Len(t)) : BareSeq(s \o t)[i] = Bare((s \o t)[i])
  BY <1>1, BareSeqType
<1>5. \A i \in 1..(Len(s) + Len(t)) : BareSeq(s \o t)[i] = (BareSeq(s) \o BareSeq(t))[i]
  <2> TAKE i \in 1..(Len(s) + Len(t))
  <2>1. CASE i <= Len(s)
    <3>1. i \in 1..Len(s)
      BY <1>2, <2>1
    <3> QED BY <1>1, <1>2, <1>3, <1>4, <2>1, <3>1
  <2>2. CASE ~(i <= Len(s))
    <3>1. i - Len(s) \in 1..Len(t)
      BY <1>2, <2>2
    <3> QED BY <1>1, <1>2, <1>3, <1>4, <2>2, <3>1
  <2> QED BY <2>1, <2>2
<1> QED BY <1>3, <1>4, <1>5, SeqEqual

LEMMA BareSplit ==
    ASSUME NEW q \in Seq(Message), NEW n \in 1..Len(q)
    PROVE  /\ BareSeq(SubSeq(q, 1, n)) = SubSeq(BareSeq(q), 1, n)
           /\ BareSeq(SubSeq(q, n + 1, Len(q))) = SubSeq(BareSeq(q), n + 1, Len(BareSeq(q)))
<1> DEFINE b == BareSeq(q)
           f == SubSeq(q, 1, n)
           r == SubSeq(q, n + 1, Len(q))
<1>1. /\ b \in Seq(Entry) /\ Len(b) = Len(q) /\ Len(q) \in Nat
      /\ \A i \in 1..Len(q) : b[i] = Bare(q[i])
  BY BareSeqType
<1>2. /\ f \in Seq(Message) /\ Len(f) = n /\ \A i \in 1..n : f[i] = q[i]
      /\ r \in Seq(Message) /\ Len(r) = Len(q) - n /\ \A i \in 1..(Len(q) - n) : r[i] = q[n + i]
  BY SplitQueue
<1>3. /\ SubSeq(b, 1, n) \in Seq(Entry) /\ Len(SubSeq(b, 1, n)) = n
      /\ \A i \in 1..n : SubSeq(b, 1, n)[i] = b[i]
      /\ SubSeq(b, n + 1, Len(b)) \in Seq(Entry) /\ Len(SubSeq(b, n + 1, Len(b))) = Len(q) - n
      /\ \A i \in 1..(Len(q) - n) : SubSeq(b, n + 1, Len(b))[i] = b[n + i]
  <2> HIDE DEF b
  <2>1. n \in 1..Len(b)
    BY <1>1
  <2> QED BY <1>1, <2>1, SplitQueue
<1> HIDE DEF b, f, r
<1>4. /\ BareSeq(f) \in Seq(Entry) /\ Len(BareSeq(f)) = n
      /\ \A i \in 1..n : BareSeq(f)[i] = Bare(f[i])
      /\ BareSeq(r) \in Seq(Entry) /\ Len(BareSeq(r)) = Len(q) - n
      /\ \A i \in 1..(Len(q) - n) : BareSeq(r)[i] = Bare(r[i])
  BY <1>2, BareSeqType
<1>5. \A i \in 1..n : BareSeq(f)[i] = SubSeq(b, 1, n)[i]
  <2>1. \A i \in 1..n : i \in 1..Len(q)
    BY <1>1
  <2> QED BY <1>1, <1>2, <1>3, <1>4, <2>1
<1>6. \A i \in 1..(Len(q) - n) : BareSeq(r)[i] = SubSeq(b, n + 1, Len(b))[i]
  <2>1. \A i \in 1..(Len(q) - n) : n + i \in 1..Len(q)
    BY <1>1
  <2> QED BY <1>1, <1>2, <1>3, <1>4, <2>1
<1>7. BareSeq(f) = SubSeq(b, 1, n)
  BY <1>3, <1>4, <1>5, SeqEqual
<1>8. BareSeq(r) = SubSeq(b, n + 1, Len(b))
  BY <1>3, <1>4, <1>6, SeqEqual
<1> QED BY <1>7, <1>8 DEF b, f, r

\* Pacing neither drops nor reorders and holds no message longer than any
\* configuration allows: the node implements the delay line.
THEOREM PacerIsADelayLine == Spec => ImplementsDelayLine
<1>1. Init => Line!Init
  <2> SUFFICES ASSUME Init PROVE Line!Init
    OBVIOUS
  <2>1. DOMAIN <<>> = {}
    OBVIOUS
  <2> QED BY <2>1 DEF Init, Line!Init
<1>2. LineInv /\ [Next]_vars => [Line!Next]_(Line!vars)
  <2> SUFFICES ASSUME LineInv, [Next]_vars PROVE [Line!Next]_(Line!vars)
    OBVIOUS
  <2>0. queue \in Seq(Message) /\ published \in Seq(Message) /\ now \in 0..MaxTime
    BY DEF LineInv, TypeOK
  <2>1. ASSUME NEW stamp \in (now - MaxDelay)..(now - MinDelay), OnMessage(stamp)
        PROVE  Line!Accept
    <3> DEFINE m == NewMessage(stamp)
    <3>0. stamp \in Int
      BY <2>0
    <3>1. queue' = Append(queue, m) /\ UNCHANGED <<now, published>>
      BY <2>1 DEF OnMessage, NewMessage
    <3>2. /\ stamp \in Stamp /\ m \in Held(config) /\ m.release \in now..(now + HoldLimit(config))
          /\ last_release # None => last_release <= m.release
      BY <2>1, <3>0, NewMessageIsHeld
    <3>3. m.release \in now..(now + MaxHold)
      <4>1. HoldLimit(config) \in Nat /\ HoldLimit(config) <= MaxHold
        BY ConfigType DEF LineInv, TypeOK
      <4> QED BY <2>0, <3>2, <4>1
    <3>4. Bare(m) = [stamp |-> stamp, arrival |-> now, release |-> m.release]
      BY DEF Bare, NewMessage
    <3> HIDE DEF m
    <3>5. BareSeq(queue)' = Append(BareSeq(queue), Bare(m))
      BY <2>0, <3>1, <3>2, BareAppend DEF Held, BareSeq
    <3>6. \A i \in DOMAIN BareSeq(queue) : BareSeq(queue)[i].release <= m.release
      <4> SUFFICES ASSUME NEW i \in DOMAIN BareSeq(queue)
                   PROVE  BareSeq(queue)[i].release <= m.release
        OBVIOUS
      <4>1. i \in 1..Len(queue)
        BY <2>0, LenProperties DEF BareSeq
      <4>2. BareSeq(queue)[i].release = queue[i].release
        <5>1. BareSeq(queue)[i] = Bare(queue[i])
          BY <2>0, <4>1, BareSeqType
        <5>2. Bare(queue[i]).release = queue[i].release
          BY DEF Bare
        <5> QED BY <5>1, <5>2
      <4>3. last_release # None /\ queue[i].release <= last_release
        BY <4>1 DEF LineInv
      <4>4. queue[i].release \in Int /\ last_release \in Int
        <5>1. queue[i] \in Message
          BY <2>0, <4>1, ElementOfSeq
        <5>2. queue[i].release \in 0..MaxTime
          BY <5>1 DEF Message
        <5>3. last_release \in 0..MaxTime
          BY <4>3 DEF LineInv, TypeOK
        <5> QED BY <5>2, <5>3
      <4>5. m.release \in Int
        BY <2>0, <3>3
      <4> QED BY <3>2, <4>2, <4>3, <4>4, <4>5
    <3> QED BY <3>1, <3>2, <3>3, <3>4, <3>5, <3>6 DEF Line!Accept, BareSeq
  <2>2. CASE ReleaseDue
    <3>1. PICK n \in 1..Len(queue) : /\ \A i \in 1..n : Due(queue[i])
                                     /\ published' = published \o SubSeq(queue, 1, n)
                                     /\ queue' = SubSeq(queue, n + 1, Len(queue))
      BY <2>2 DEF ReleaseDue
    <3>2. BareSeq(published)' = BareSeq(published) \o SubSeq(BareSeq(queue), 1, n)
      <4>1. SubSeq(queue, 1, n) \in Seq(Message)
        BY <2>0, SplitQueue
      <4>2. BareSeq(published') = BareSeq(published) \o BareSeq(SubSeq(queue, 1, n))
        BY <2>0, <3>1, <4>1, BareConcat
      <4> QED BY <2>0, <4>2, BareSplit DEF BareSeq
    <3>3. BareSeq(queue)' = SubSeq(BareSeq(queue), n + 1, Len(BareSeq(queue)))
      <4>1. BareSeq(queue') = SubSeq(BareSeq(queue), n + 1, Len(BareSeq(queue)))
        BY <2>0, <3>1, BareSplit
      <4> QED BY <4>1 DEF BareSeq
    <3>4. Len(BareSeq(queue)) = Len(queue)
      BY <2>0, BareSeqType
    <3>5. \A i \in 1..n : BareSeq(queue)[i].release <= now
      <4> SUFFICES ASSUME NEW i \in 1..n PROVE BareSeq(queue)[i].release <= now
        OBVIOUS
      <4>1. i \in 1..Len(queue)
        BY <2>0, LenProperties
      <4>2. BareSeq(queue)[i] = Bare(queue[i])
        BY <2>0, <4>1, BareSeqType
      <4>3. Bare(queue[i]).release = queue[i].release
        BY DEF Bare
      <4> QED BY <3>1, <4>2, <4>3 DEF Due
    <3>6. UNCHANGED now
      BY <2>2 DEF ReleaseDue
    <3>7. Line!Emit
      BY <3>2, <3>3, <3>4, <3>5, <3>6 DEF Line!Emit, BareSeq
    <3> QED BY <3>7 DEF Line!Next
  <2>3. CASE TimePasses
    <3>1. now' = now + 1 /\ UNCHANGED <<queue, published>>
      BY <2>3 DEF TimePasses
    <3>2. Line!TimePasses
      BY <2>0, <3>1 DEF Line!TimePasses
    <3> QED BY <3>2 DEF Line!Next
  <2>4. CASE UNCHANGED vars
    BY <2>4 DEF vars, Line!vars
  <2> QED BY <2>1, <2>2, <2>3, <2>4 DEF Next, Line!Next
<1> QED BY <1>1, <1>2, LineInvInductive, PTL DEF Spec, ImplementsDelayLine, Line!Spec

------------------------------------------------------------------------------
(* The floor can rise again *)

\* The delay a message was given to the window with.
DelayOf(m) == m.arrival - m.stamp

\* The window holds the delays of the newest messages, as many as it can.
WindowInv ==
    /\ Len(delays) = IF Len(Accepted) < Window THEN Len(Accepted) ELSE Window
    /\ \A i \in 1..Len(delays) :
           delays[i] = DelayOf(Accepted[Len(Accepted) - Len(delays) + i])

\* ReAnchored looks back at the messages; the deadline was made from the
\* window, so the window has to be the messages'.
AnchorInv == LineInv /\ WindowInv /\ ReAnchored

\* As RememberIsAWindow, with the length.
LEMMA RememberFills ==
    ASSUME NEW w \in Seq(Delay), Len(w) <= Window, NEW d \in Delay
    PROVE  Len(Remember(w, d)) = IF Len(w) < Window THEN Len(w) + 1 ELSE Window
<1>0. Len(w) \in Nat
  BY LenProperties
<1>1. CASE Len(w) < Window
  <2>1. Remember(w, d) = Append(w, d)
    BY <1>1 DEF Remember
  <2> QED BY <1>1, <2>1, AppendProperties
<1>2. CASE ~(Len(w) < Window)
  <2>1. w # <<>>
    BY <1>2, <1>0, EmptySeq
  <2>2. Tail(w) \in Seq(Delay) /\ Len(Tail(w)) = Len(w) - 1
    BY <2>1, HeadTailProperties
  <2>3. Remember(w, d) = Append(Tail(w), d)
    BY <1>2 DEF Remember
  <2>4. Len(Append(Tail(w), d)) = Len(Tail(w)) + 1
    BY <2>2, AppendProperties
  <2>5. Len(Remember(w, d)) = Len(Tail(w)) + 1
    BY <2>3, <2>4
  <2>6. Len(Remember(w, d)) = Len(w)
    BY <1>0, <2>2, <2>5
  <2> QED BY <1>0, <1>2, <2>6
<1> QED BY <1>1, <1>2

\* The smallest budget the node may choose.
Least(c) == IF c.adaptive THEN c.min ELSE c.target

LEMMA BudgetIsAtLeast ==
    ASSUME NEW c \in Config, NEW w \in Seq(Delay), w # <<>>
    PROVE  Budget(w, c) >= Least(c) /\ Least(c) \in Nat
<1>1. c.adaptive \in BOOLEAN /\ {c.target, c.min, c.max, c.margin} \subseteq Nat /\ c.min <= c.max
  BY ConfigType
<1>2. Percentile(w, c) - Floor(w) + c.margin \in Int
  BY <1>1, PercentileType, FloorIsLeast
<1> QED BY <1>1, <1>2 DEF Budget, Least

LEMMA OnMessageKeepsWindowInv ==
    ASSUME AnchorInv, NEW stamp \in Int, OnMessage(stamp)
    PROVE  WindowInv'
<1> DEFINE d == now - stamp
           w == Remember(delays, d)
           n == Len(Accepted)
<1>1. /\ delays \in Seq(Delay) /\ Len(delays) <= Window /\ d \in Delay
      /\ delays' = w
  BY DEF OnMessage, AnchorInv, LineInv, TypeOK
<1>2. /\ w \in Seq(Delay) /\ Len(delays) \in Nat /\ Len(w) \in Nat \ {0}
      /\ w[Len(w)] = d
      /\ \A i \in 1..(Len(w) - 1) : w[i] = delays[i + (Len(delays) + 1 - Len(w))]
      /\ Len(w) = IF Len(delays) < Window THEN Len(delays) + 1 ELSE Window
  BY <1>1, RememberIsAWindow, RememberFills
<1>3. /\ Len(Accepted') = n + 1 /\ n \in Nat
      /\ Accepted'[n + 1] = NewMessage(stamp)
      /\ \A i \in 1..n : Accepted'[i] = Accepted[i]
  <2>1. queue \in Seq(Message) /\ published \in Seq(Message)
    BY DEF AnchorInv, LineInv, TypeOK
  <2>2. n \in Nat
    BY <2>1, ConcatProperties, LenProperties DEF Accepted
  <2> QED BY <2>2, AcceptedGrows DEF AnchorInv
<1>4. DelayOf(Accepted'[n + 1]) = d
  BY <1>3 DEF DelayOf, NewMessage
<1>5. Len(delays) = IF n < Window THEN n ELSE Window
  BY DEF AnchorInv, WindowInv
<1> HIDE DEF d, w, n
<1>6. Len(w) = IF n + 1 < Window THEN n + 1 ELSE Window
  BY <1>2, <1>3, <1>5
<1>7. ASSUME NEW i \in 1..Len(w)
      PROVE  w[i] = DelayOf(Accepted'[n + 1 - Len(w) + i])
  <2>1. CASE i = Len(w)
    BY <1>2, <1>3, <1>4, <2>1
  <2>2. CASE i # Len(w)
    <3> DEFINE j == i + (Len(delays) + 1 - Len(w))
    <3>1. i \in 1..(Len(w) - 1) /\ j \in 1..Len(delays)
      BY <1>2, <2>2
    <3>2. w[i] = delays[j]
      BY <1>2, <3>1
    <3>3. n - Len(delays) + j = n + 1 - Len(w) + i /\ n - Len(delays) + j \in 1..n
      BY <1>2, <1>3, <1>5, <3>1
    <3>4. delays[j] = DelayOf(Accepted[n - Len(delays) + j])
      BY <3>1 DEF AnchorInv, WindowInv, n
    <3>5. Accepted[n - Len(delays) + j] = Accepted'[n + 1 - Len(w) + i]
      BY <1>3, <3>3
    <3> QED BY <3>2, <3>4, <3>5
  <2> QED BY <2>1, <2>2
<1>8. /\ Len(delays') = IF Len(Accepted') < Window THEN Len(Accepted') ELSE Window
      /\ \A i \in 1..Len(delays') :
             delays'[i] = DelayOf(Accepted'[Len(Accepted') - Len(delays') + i])
  BY <1>1, <1>3, <1>6, <1>7
<1> QED BY <1>8 DEF WindowInv, DelayOf

\* What ReAnchored says of the message at one place.
AnchoredAt(i) ==
    (\A j, k \in (i - Window + 1)..i : DelayOf(Accepted[j]) - DelayOf(Accepted[k]) <= Least(config))
        => Accepted[i].deadline >= Accepted[i].arrival

LEMMA ReAnchoredEverywhere == ReAnchored <=> \A i \in Window..Len(Accepted) : AnchoredAt(i)
BY DEF ReAnchored, AnchoredAt, DelayOf, Least

LEMMA OnMessageReAnchors ==
    ASSUME AnchorInv, NEW stamp \in Int, OnMessage(stamp)
    PROVE  ReAnchored'
<1> DEFINE d == now - stamp
           w == Remember(delays, d)
           n == Len(Accepted)
           m == NewMessage(stamp)
<1>1. /\ delays \in Seq(Delay) /\ Len(delays) <= Window /\ d \in Delay
      /\ delays' = w /\ config' = config /\ config \in Config /\ now \in Int
  BY DEF OnMessage, AnchorInv, LineInv, TypeOK
<1>2. /\ w \in Seq(Delay) /\ w # <<>> /\ Len(w) \in Nat \ {0} /\ w[Len(w)] = d
  BY <1>1, RememberIsAWindow
<1>3. /\ Len(Accepted') = n + 1 /\ n \in Nat
      /\ Accepted'[n + 1] = m
      /\ \A i \in 1..n : Accepted'[i] = Accepted[i]
  <2>1. queue \in Seq(Message) /\ published \in Seq(Message)
    BY DEF AnchorInv, LineInv, TypeOK
  <2>2. n \in Nat
    BY <2>1, ConcatProperties, LenProperties DEF Accepted
  <2> QED BY <2>2, AcceptedGrows DEF AnchorInv
<1>4. WindowInv'
  BY OnMessageKeepsWindowInv
<1>5. m.deadline = stamp + Floor(w) + Budget(w, config) /\ m.arrival = now
  BY DEF NewMessage, Deadline
<1>6. /\ Budget(w, config) >= Least(config) /\ Least(config) \in Nat
      /\ Budget(w, config) \in Int
  BY <1>1, <1>2, BudgetIsAtLeast, BudgetBounds, ConfigType
<1>7. PICK k \in 1..Len(w) : w[k] = Floor(w)
  BY <1>2, FloorIsLeast, ValuesType DEF Values
<1>8. Floor(w) \in Int
  BY <1>2, FloorIsLeast
<1>9. Len(w) = (IF n + 1 < Window THEN n + 1 ELSE Window)
      /\ \A i \in 1..Len(w) : w[i] = DelayOf(Accepted'[n + 1 - Len(w) + i])
  BY <1>1, <1>3, <1>4 DEF WindowInv
<1> HIDE DEF w, n, m
<1>10. ASSUME NEW i \in Window..Len(Accepted') PROVE AnchoredAt(i)'
  <2>1. CASE i = n + 1
    <3>1. Len(w) = Window
      BY <1>3, <1>9, <2>1
    <3>2. SUFFICES ASSUME \A j, l \in (i - Window + 1)..i :
                              DelayOf(Accepted'[j]) - DelayOf(Accepted'[l]) <= Least(config)
                   PROVE  m.deadline >= m.arrival
      BY <1>1, <1>3, <2>1 DEF AnchoredAt
    <3>3. /\ n + 1 - Len(w) + Len(w) = i /\ i \in (i - Window + 1)..i
          /\ n + 1 - Len(w) + k \in (i - Window + 1)..i
      BY <1>2, <1>3, <2>1, <3>1
    <3>4. w[Len(w)] - w[k] <= Least(config)
      <4>1. /\ w[Len(w)] = DelayOf(Accepted'[i])
            /\ w[k] = DelayOf(Accepted'[n + 1 - Len(w) + k])
        BY <1>2, <1>9, <3>3
      <4> QED BY <3>2, <3>3, <4>1
    <3>5. d - Floor(w) <= Least(config)
      BY <1>2, <1>7, <3>4
    <3> QED BY <1>1, <1>5, <1>6, <1>8, <3>5
  <2>2. CASE i # n + 1
    <3>1. /\ i \in 1..n /\ i \in Window..n
          /\ \A j \in (i - Window + 1)..i : j \in 1..n
      BY <1>3, <2>2
    <3>2. AnchoredAt(i)
      BY <3>1, ReAnchoredEverywhere DEF AnchorInv, n
    <3> QED BY <1>1, <1>3, <3>1, <3>2 DEF AnchoredAt
  <2> QED BY <2>1, <2>2
<1> QED BY <1>10 DEF ReAnchored, AnchoredAt, DelayOf, Least

LEMMA AnchorInvInductive ==
    /\ Init => AnchorInv
    /\ AnchorInv /\ [Next]_vars => AnchorInv'
<1>1. Init => AnchorInv
  <2> SUFFICES ASSUME Init PROVE AnchorInv
    OBVIOUS
  <2>1. Len(<<>>) = 0 /\ <<>> \in Seq(Message)
    BY EmptySeq
  <2>2. Accepted = <<>>
    BY <2>1, ConcatEmptySeq DEF Init, Accepted
  <2> QED BY <2>1, <2>2, LineInvInductive DEF Init, AnchorInv, WindowInv, ReAnchored
<1>2. AnchorInv /\ [Next]_vars => AnchorInv'
  <2> SUFFICES ASSUME AnchorInv, [Next]_vars PROVE AnchorInv'
    OBVIOUS
  <2>0. LineInv'
    BY LineInvInductive DEF AnchorInv
  <2>1. CASE \E stamp \in (now - MaxDelay)..(now - MinDelay) : OnMessage(stamp)
    BY <2>0, <2>1, OnMessageKeepsWindowInv, OnMessageReAnchors
       DEF AnchorInv, LineInv, TypeOK
  <2>2. CASE Accepted' = Accepted /\ UNCHANGED <<config, delays>>
    BY <2>0, <2>2 DEF AnchorInv, WindowInv, ReAnchored
  <2>3. CASE ReleaseDue
    BY <2>2, <2>3, AcceptedStays DEF ReleaseDue, AnchorInv
  <2>4. CASE TimePasses \/ UNCHANGED vars
    BY <2>2, <2>4 DEF TimePasses, vars, Accepted
  <2> QED BY <2>1, <2>3, <2>4 DEF Next
<1> QED BY <1>1, <1>2

\* The floor can rise again: after a window of messages whose jitter fits the
\* smallest budget no message is late, whatever the path was before, for every
\* window length, every range of delays and every clock offset.
THEOREM TheFloorReAnchors == Spec => []ReAnchored
<1>1. AnchorInv => ReAnchored
  BY DEF AnchorInv
<1> QED BY <1>1, AnchorInvInductive, PTL DEF Spec
================================================================================
