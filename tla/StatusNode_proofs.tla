--------------------------- MODULE StatusNode_proofs ---------------------------
(***************************************************************************)
(* A stage is condemned only for a node that exited or an input that was   *)
(* interrupted, for any number of topics, stages and nodes; and the test   *)
(* that reads the reports judges a topic as its panel shows it, and takes  *)
(* no topic for delivered that was not, for any session.                   *)
(***************************************************************************)
EXTENDS StartupCheck, ContractTest, TLAPS, FiniteSetTheorems, WellFoundedInduction

(***************************************************************************)
(* Typing                                                                  *)
(***************************************************************************)
LEMMA StageFacts ==
    /\ \A s \in TopicStage : s[1] \in Topic /\ s[2] \in 1..Last
    /\ \A s \in TopicStage : Producer(s) # Nobody => Producer(s) \in Node
    /\ \A s \in TopicStage : s[2] > 1 => Input(s) \in TopicStage
BY StartupAssumption DEF TopicStage, Producer, Nobody, Node, Input

THEOREM TypeCorrect == Spec => []TypeOK
<1>1. Init => TypeOK
  BY StartupAssumption DEF Init, TypeOK, NoLook, NoCheck
<1>2. ASSUME TypeOK, [Next]_vars PROVE TypeOK'
  <2> USE <1>2 DEF TypeOK
  <2>1. ASSUME NEW n \in Node, RefreshPairs(n) PROVE TypeOK'
    BY <2>1, StartupAssumption DEF RefreshPairs, judgement
  <2>2. ASSUME NEW n \in Node, Exit(n) PROVE TypeOK'
    BY <2>2 DEF Exit, judgement
  <2>3. ASSUME NEW s \in TopicStage, ApplicationStarts(s) PROVE TypeOK'
    BY <2>3 DEF ApplicationStarts, judgement
  <2>4. ASSUME NEW s \in TopicStage, ApplicationLeaves(s) PROVE TypeOK'
    BY <2>4 DEF ApplicationLeaves, judgement
  <2>5. ASSUME NEW s \in TopicStage, Count(s) PROVE TypeOK'
    BY <2>5 DEF Count, judgement
  <2>6. ASSUME Tick PROVE TypeOK'
    <3>1. now' \in 0..MaxTime /\ unwritten' \in 0..Interval
      BY <2>6, StartupAssumption DEF Tick
    <3>2. rested' \in [Node -> 0..Refresh]
      BY <2>6, StartupAssumption DEF Tick
    <3> QED BY <2>6, <3>1, <3>2 DEF Tick, judgement
  <2>7. ASSUME Write PROVE TypeOK'
    <3>1. unwritten' \in 0..Interval
      BY <2>7, StartupAssumption DEF Write
    <3>2. Mine \subseteq TopicStage
      BY DEF Mine, Gaps
    <3>3. CASE UNCHANGED judgement
      BY <2>7, <3>1, <3>3 DEF Write, judgement
    <3>4. CASE GracePassed /\ Judge(Mine)
      <4>1. check' \in [verdict : {"ok", "incomplete"}, missing : SUBSET TopicStage]
        BY <3>2, <3>4 DEF Judge, StillMissing
      <4> QED BY <2>7, <3>1, <3>4, <4>1 DEF Write, Judge
    <3>5. CASE GracePassed /\ Wait(Mine)
      <4>1. now \in Grace..MaxTime
        BY <3>5, StartupAssumption DEF GracePassed
      <4>2. pending' \in [at : Grace..MaxTime, missing : SUBSET TopicStage] \union {NoLook}
        BY <3>2, <3>5, <4>1 DEF Wait
      <4> QED BY <2>7, <3>1, <3>5, <4>2 DEF Write, Wait
    <3> QED BY <2>7, <3>3, <3>4, <3>5 DEF Write
  <2>8. CASE UNCHANGED vars
    BY <2>8 DEF vars, judgement
  <2> QED BY <1>2, <2>1, <2>2, <2>3, <2>4, <2>5, <2>6, <2>7, <2>8 DEF Next
<1> QED BY <1>1, <1>2, PTL DEF Spec

(***************************************************************************)
(* What is known of a stage since the first look                           *)
(***************************************************************************)
\* The two reasons for which a missing stage may be named.
Explained(s) == Producer(s) \notin alive \/ (s[2] > 1 /\ Input(s) \in interrupted)

\* A stage somebody counted messages of has had a publisher.
CountedWasPublished == counted \subseteq published \union interrupted

\* A stage that was missing at the first look and is missing still has been
\* ready to be opened ever since, and its node has not refreshed since then.
LookInv ==
    /\ CountedWasPublished
    /\ \A s \in pending.missing :
        /\ Producer(s) # Nobody
        /\ \/ Explained(s)
           \/ s \in published
           \/ Opens(s) /\ now - pending.at <= rested[Producer(s)]

Inv == TypeOK /\ LookInv /\ LateIsNotDead

\* A stage found missing with its input delivering could be opened at once.
LEMMA MissingCouldOpen ==
    ASSUME TypeOK, CountedWasPublished, NEW s \in Mine
    PROVE  s \in TopicStage /\ Producer(s) # Nobody /\ s \notin published /\ (Explained(s) \/ Opens(s))
<1>1. s \in TopicStage /\ Producer(s) # Nobody /\ s \notin published
  BY DEF Mine, Gaps, Absent
<1>2. CASE s[2] = 1
  BY <1>1, <1>2 DEF Producer, Opens
<1>3. CASE s[2] # 1
  <2>1. s[2] > 1
    BY <1>1, <1>3, StageFacts
  <2>2. Delivered(Input(s))
    BY <2>1 DEF Mine
  <2>3. Input(s) \in published \/ Input(s) \in interrupted
    BY <2>2 DEF Delivered, CountedWasPublished
  <2> QED BY <1>1, <1>3, <2>1, <2>3 DEF Opens, Explained
<1> QED BY <1>1, <1>2, <1>3

\* What a step must leave in place for what is known of a stage to stay true.
LEMMA KnowledgeStays ==
    ASSUME TypeOK, LookInv, UNCHANGED pending,
           alive' \subseteq alive, interrupted \subseteq interrupted',
           \A s \in TopicStage : s \in published => s \in published' \/ Explained(s)',
           \A s \in TopicStage : Opens(s) => Opens(s)' \/ Explained(s)',
           \A s \in TopicStage : Producer(s) \in alive' /\ s \notin published' =>
               now' - rested'[Producer(s)] <= now - rested[Producer(s)],
           now' \in Int, rested' \in [Node -> Int], CountedWasPublished'
    PROVE  LookInv'
<1> SUFFICES ASSUME NEW s \in pending.missing, ~Explained(s)', s \notin published'
             PROVE  Producer(s) # Nobody /\ Opens(s)' /\ now' - pending.at <= rested'[Producer(s)]
  BY DEF LookInv, Explained, Producer
<1>1. s \in TopicStage /\ pending.at \in Int
  BY StartupAssumption DEF TypeOK, NoLook
<1>2. ~Explained(s) /\ Producer(s) \in alive'
  BY DEF Explained, Producer, Input
<1>3. s \notin published
  BY <1>1
<1>4. Producer(s) # Nobody /\ Opens(s) /\ now - pending.at <= rested[Producer(s)]
  BY <1>2, <1>3 DEF LookInv
<1>5. Opens(s)'
  BY <1>1, <1>4
<1>6. now' - rested'[Producer(s)] <= now - rested[Producer(s)]
  BY <1>1, <1>2
<1>7. Producer(s) \in Node
  BY <1>1, <1>4, StageFacts
<1>8. now \in Int /\ rested[Producer(s)] \in Int /\ rested'[Producer(s)] \in Int
  BY <1>7, StartupAssumption DEF TypeOK
<1> QED BY <1>1, <1>4, <1>5, <1>6, <1>8

\* No step but a verdict names a stage, and the reasons for naming one remain.
LEMMA NamedStays ==
    ASSUME LateIsNotDead, UNCHANGED check,
           alive' \subseteq alive, interrupted \subseteq interrupted'
    PROVE  LateIsNotDead'
BY DEF LateIsNotDead, Producer, Input

\* The second look: a stage of a node that refreshed in between is not missing.
LEMMA VerdictIsRight ==
    ASSUME TypeOK, LookInv, Write, Judge(Mine), Decided(Mine)
    PROVE  LateIsNotDead'
<1> SUFFICES ASSUME NEW s \in check'.missing PROVE Explained(s)
  BY DEF LateIsNotDead, Explained, Write, Producer, Input
<1>1. s \in Mine /\ s \in pending.missing
  BY DEF Judge, StillMissing
<1>2. CountedWasPublished
  BY DEF LookInv
<1>3. s \in TopicStage /\ Producer(s) # Nobody /\ s \notin published
  BY <1>1, <1>2, MissingCouldOpen
<1>4. pending # NoLook /\ now - pending.at >= Grace
  BY <1>1 DEF Decided
<1>5. Producer(s) \in Node
  BY <1>3, StageFacts
<1>6. rested[Producer(s)] \in 0..Refresh /\ now \in Int /\ pending.at \in Int
  BY <1>4, <1>5, StartupAssumption DEF TypeOK
<1>7. ~(now - pending.at <= rested[Producer(s)])
  BY <1>4, <1>6, StartupAssumption
<1> QED BY <1>1, <1>3, <1>7 DEF LookInv

LEMMA Invariance == Spec => []Inv
<1>1. Init => Inv
  <2>1. Init => LookInv /\ LateIsNotDead
    BY DEF Init, LookInv, CountedWasPublished, LateIsNotDead, NoLook, NoCheck
  <2>2. Init => TypeOK
    BY StartupAssumption DEF Init, TypeOK, NoLook, NoCheck
  <2> QED BY <2>1, <2>2 DEF Inv
<1>2. ASSUME Inv, TypeOK', [Next]_vars PROVE Inv'
  <2>1. TypeOK /\ LookInv /\ LateIsNotDead /\ CountedWasPublished
    BY <1>2 DEF Inv, LookInv
  <2>2. now \in Int /\ now' \in Int /\ rested \in [Node -> Int] /\ rested' \in [Node -> Int]
    BY <1>2, <2>1, StartupAssumption DEF TypeOK
  <2>3. ASSUME NEW n \in Node, RefreshPairs(n) PROVE LookInv' /\ LateIsNotDead'
    <3>1. UNCHANGED <<pending, check, alive, interrupted, now, counted>>
      BY <2>3 DEF RefreshPairs, judgement
    <3>2. published \subseteq published' /\ CountedWasPublished'
      BY <2>1, <2>3, <3>1 DEF RefreshPairs, CountedWasPublished
    <3>3. \A s \in TopicStage : Opens(s) => Opens(s)'
      BY <3>2 DEF Opens
    <3>4. \A s \in TopicStage : Producer(s) \in Node /\ Producer(s) # n => rested'[Producer(s)] = rested[Producer(s)]
      BY <2>2, <2>3 DEF RefreshPairs
    <3>5. \A s \in TopicStage : Opens(s) /\ Producer(s) = n => s \in published'
      BY <2>3 DEF RefreshPairs
    <3>6. LookInv'
      <4> SUFFICES ASSUME NEW s \in pending.missing, ~Explained(s)', s \notin published'
                   PROVE  /\ Producer(s) # Nobody /\ Opens(s)'
                          /\ now' - pending.at <= rested'[Producer(s)]
        BY <2>1, <3>1, <3>2 DEF LookInv, Explained, Producer
      <4>1. s \in TopicStage
        BY <2>1 DEF TypeOK, NoLook
      <4>2. Producer(s) # Nobody /\ Opens(s) /\ now - pending.at <= rested[Producer(s)]
        BY <2>1, <3>1, <3>2 DEF LookInv, Explained, Producer, Input
      <4>3. Producer(s) \in Node /\ Producer(s) # n
        BY <3>5, <4>1, <4>2, StageFacts
      <4> QED BY <3>1, <3>3, <3>4, <4>1, <4>2, <4>3
    <3> QED BY <2>1, <3>1, <3>6, NamedStays
  <2>4. ASSUME NEW n \in Node, Exit(n) PROVE LookInv' /\ LateIsNotDead'
    <3>1. UNCHANGED <<pending, check, now, rested, counted>> /\ alive' = alive \ {n}
      BY <2>4 DEF Exit, judgement
    <3>2. interrupted \subseteq interrupted' /\ \A s \in published \ published' :
              s \in interrupted' /\ Producer(s) = n
      BY <2>4 DEF Exit
    <3>3. CountedWasPublished'
      BY <2>1, <3>1, <3>2 DEF CountedWasPublished
    <3>4. \A s \in TopicStage : s \in published => s \in published' \/ Explained(s)'
      BY <3>1, <3>2 DEF Explained, Producer
    <3>5. \A s \in TopicStage : Opens(s) => Opens(s)' \/ Explained(s)'
      <4> TAKE s \in TopicStage
      <4>1. CASE s[2] = 1
        BY <4>1 DEF Opens
      <4>2. CASE s[2] # 1
        BY <3>2, <4>2, StageFacts DEF Opens, Explained, Input
      <4> QED BY <4>1, <4>2
    <3>6. \A s \in TopicStage : now' - rested'[Producer(s)] <= now - rested[Producer(s)]
                           \/ Producer(s) \notin Node
      BY <2>2, <3>1
    <3>7. \A s \in TopicStage : Producer(s) \in alive' => Producer(s) \in Node
      BY <1>2 DEF TypeOK
    <3> QED BY <2>1, <2>2, <3>1, <3>2, <3>3, <3>4, <3>5, <3>6, <3>7, KnowledgeStays, NamedStays
  <2>5. ASSUME NEW s \in TopicStage, ApplicationStarts(s) \/ ApplicationLeaves(s) \/ Count(s)
        PROVE  LookInv' /\ LateIsNotDead'
    <3>1. UNCHANGED <<pending, check, now, rested, alive>>
      BY <2>5 DEF ApplicationStarts, ApplicationLeaves, Count, judgement
    <3>2. /\ interrupted \subseteq interrupted'
          /\ published \subseteq published' \union interrupted'
          /\ \A r \in published \ published' : Producer(r) = Nobody
      BY <2>5 DEF ApplicationStarts, ApplicationLeaves, Count
    <3>3. CountedWasPublished'
      <4>1. CASE Count(s)
        <5>1. s[2] \in 1..Last /\ s = <<s[1], s[2]>>
          BY DEF TopicStage
        <5>2. s \in published \union interrupted
          BY <4>1, <5>1 DEF Count
        <5> QED BY <2>1, <4>1, <5>2 DEF Count, CountedWasPublished
      <4>2. CASE ApplicationStarts(s) \/ ApplicationLeaves(s)
        BY <2>1, <4>2 DEF ApplicationStarts, ApplicationLeaves, CountedWasPublished
      <4> QED BY <2>5, <4>1, <4>2
    <3>4. LookInv'
      <4> SUFFICES ASSUME NEW r \in pending.missing, ~Explained(r)', r \notin published'
                   PROVE  /\ Producer(r) # Nobody /\ Opens(r)'
                          /\ now' - pending.at <= rested'[Producer(r)]
        BY <2>1, <3>1, <3>3 DEF LookInv, Explained, Producer
      <4>1. r \in TopicStage /\ Producer(r) # Nobody
        BY <2>1 DEF TypeOK, LookInv, NoLook
      <4>2. r \notin published /\ ~Explained(r)
        BY <3>1, <3>2, <4>1 DEF Explained, Producer, Input
      <4>3. Opens(r) /\ now - pending.at <= rested[Producer(r)]
        BY <2>1, <4>2 DEF LookInv
      <4>4. CASE r[2] = 1
        BY <3>1, <4>1, <4>3, <4>4 DEF Opens
      <4>5. CASE r[1] \in Declared
        BY <3>1, <4>1, <4>3, <4>5 DEF Opens
      <4>6. CASE r[2] # 1 /\ r[1] \notin Declared
        <5>1. r[2] > 1 /\ Input(r) \in published
          BY <4>1, <4>3, <4>6, StageFacts DEF Opens
        <5>2. Input(r) \notin interrupted'
          BY <5>1 DEF Explained, Input
        <5>3. Input(r) \in published'
          BY <3>2, <5>1, <5>2
        <5> QED BY <3>1, <4>1, <4>3, <4>6, <5>3 DEF Opens, Input
      <4> QED BY <4>4, <4>5, <4>6
    <3> QED BY <2>1, <3>1, <3>2, <3>4, NamedStays
  <2>6. ASSUME Tick PROVE LookInv' /\ LateIsNotDead'
    <3>1. UNCHANGED <<pending, check, alive, interrupted, published, counted>> /\ now' = now + 1
      BY <2>6 DEF Tick, judgement
    <3>2. \A n \in Node : n \in alive => rested'[n] = rested[n] + 1
      BY <2>6 DEF Tick
    <3>3. LookInv'
      <4> SUFFICES ASSUME NEW s \in pending.missing, ~Explained(s)', s \notin published'
                   PROVE  /\ Producer(s) # Nobody /\ Opens(s)'
                          /\ now' - pending.at <= rested'[Producer(s)]
        BY <2>1, <3>1 DEF LookInv, Explained, Producer, CountedWasPublished
      <4>1. s \in TopicStage /\ pending.at \in Int
        BY <2>1, StartupAssumption DEF TypeOK, NoLook
      <4>2. ~Explained(s) /\ Producer(s) \in alive /\ s \notin published
        BY <3>1 DEF Explained, Producer, Input
      <4>3. Producer(s) # Nobody /\ Opens(s) /\ now - pending.at <= rested[Producer(s)]
        BY <2>1, <4>2 DEF LookInv
      <4>4. Producer(s) \in Node
        BY <4>1, <4>3, StageFacts
      <4>5. rested'[Producer(s)] = rested[Producer(s)] + 1 /\ rested[Producer(s)] \in Int
        BY <2>2, <3>2, <4>2, <4>4
      <4> QED BY <2>2, <3>1, <4>1, <4>3, <4>5 DEF Opens, Input
    <3> QED BY <2>1, <3>1, <3>3, NamedStays
  <2>7. ASSUME Write PROVE LookInv' /\ LateIsNotDead'
    <3>1. UNCHANGED <<alive, interrupted, published, counted, now, rested>>
      BY <2>7 DEF Write
    <3>2. CASE UNCHANGED pending
      <4>1. LookInv'
        BY <2>1, <3>1, <3>2 DEF LookInv, CountedWasPublished, Explained, Opens, Producer, Input
      <4>2. CASE UNCHANGED check
        BY <2>1, <3>1, <4>1, <4>2, NamedStays
      <4>3. CASE ~UNCHANGED check
        BY <2>1, <2>7, <4>1, <4>3, VerdictIsRight DEF Write, Wait, judgement
      <4> QED BY <4>1, <4>2, <4>3
    <3>3. CASE ~UNCHANGED pending
      <4>1. check' = check /\ pending' = [at |-> now, missing |-> Mine]
        BY <2>7, <3>3 DEF Write, Wait, Judge, judgement
      <4>2. \A s \in Mine : Producer(s) # Nobody /\ (Explained(s) \/ Opens(s)) /\ s \in TopicStage
        BY <2>1, MissingCouldOpen
      <4>3. \A s \in Mine : 0 <= rested[Producer(s)]
        BY <2>1, <4>2, StageFacts DEF TypeOK
      <4>4. \A s \in pending'.missing :
               /\ Producer(s) # Nobody
               /\ Explained(s) \/ (Opens(s) /\ now - pending'.at <= rested[Producer(s)])
        BY <2>2, <4>1, <4>2, <4>3
      <4>5. LookInv'
        BY <2>1, <3>1, <4>4 DEF LookInv, CountedWasPublished, Explained, Opens, Producer, Input
      <4> QED BY <2>1, <3>1, <4>1, <4>5, NamedStays
    <3> QED BY <3>2, <3>3
  <2>8. CASE UNCHANGED vars
    <3>1. LookInv'
      BY <2>1, <2>8 DEF vars, judgement, LookInv, CountedWasPublished, Explained, Opens,
                        Producer, Input
    <3>2. LateIsNotDead'
      BY <2>1, <2>8, NamedStays DEF vars, judgement
    <3> QED BY <1>2, <3>1, <3>2 DEF Inv
  <2> QED BY <1>2, <2>3, <2>4, <2>5, <2>6, <2>7, <2>8 DEF Inv, Next
<1>3. Spec => []TypeOK
  BY TypeCorrect
<1> QED BY <1>1, <1>2, <1>3, PTL DEF Spec

\* Late is never taken for dead.
THEOREM OnlyTheDeadAreNamed == Spec => []LateIsNotDead
<1>1. Inv => LateIsNotDead
  BY DEF Inv
<1> QED BY <1>1, Invariance, PTL

(***************************************************************************)
(* The panel and the test                                                  *)
(***************************************************************************)
\* Whatever else happened since, the state a report shows is the one its own
\* stages give.
RolledUp == \A p \in Peer : report[p] # None =>
                report[p].overall = Overall(p, report[p].stages)

LEMMA RolledUpInductive == TestSpec => []RolledUp
<1>1. ReportInit => RolledUp
  BY DEF ReportInit, RolledUp
<1>2. RolledUp /\ [TestNext]_testVars => RolledUp'
  <2> SUFFICES ASSUME RolledUp, [TestNext]_testVars PROVE RolledUp'
    OBVIOUS
  <2> USE DEF RolledUp, Overall, Relaxed, contract
  <2>1. ASSUME NEW q \in Peer, WriteReport(q) PROVE RolledUp'
    <3>1. report' = [report EXCEPT ![q] = Snapshot(q)] /\ session' = session
      BY <2>1 DEF WriteReport
    <3>2. Snapshot(q).overall = Overall(q, Snapshot(q).stages)
      BY DEF Snapshot
    <3> QED
      BY <3>1, <3>2
  <2>2. CASE UNCHANGED <<report, session>>
    BY <2>2
  <2>3. CASE \/ \E s \in Stage : PublisherAppears(s)
             \/ \E s \in Stage \ {Ota}, slow \in BOOLEAN : Deliver(s, slow)
             \/ TimePasses \/ RefuseTest \/ TestPasses \/ TestFails
    BY <2>2, <2>3 DEF PublisherAppears, Deliver, TimePasses, RefuseTest, TestPasses, TestFails
  <2>4. CASE UNCHANGED testVars
    BY <2>2, <2>4 DEF testVars
  <2> QED
    BY <2>1, <2>3, <2>4 DEF TestNext
<1> QED
  BY <1>1, <1>2, PTL DEF TestSpec

\* What a topic that is not OK may be excused for is what would have made it OK.
LEMMA StatusFailsWhatIsNotOk ==
    ASSUME RolledUp, NEW p \in Peer, report[p] # None, contract.smoke_probe
    PROVE  ("status" \in EvaluateReport(p)) <=> (report[p].overall # "OK" /\ ~contract.optional)
<1> DEFINE r == report[p]
<1>1. CASE r.overall = "OK"
  <2>1. "status" \notin CheckStream(p, r.stages)
    BY DEF CheckStream, CheckExpect, CheckCompleteness, CheckBag
  <2> QED
    BY <1>1, <2>1 DEF EvaluateReport
<1>2. CASE r.overall # "OK"
  <2>1. ~Relaxed(p, r.stages)
    BY <1>2 DEF RolledUp, Overall
  <2>2. Excused(p, r.stages) <=> contract.optional
    BY <2>1 DEF Excused, Relaxed
  <2> QED
    BY <1>2, <2>2 DEF EvaluateReport
<1> QED
  BY <1>1, <1>2

\* The panel and the test agree on who delivers, for every contract and session.
THEOREM PanelAndTestAgree == TestSpec => []PanelAgreesWithTest
<1>1. RolledUp => PanelAgreesWithTest
  BY StatusFailsWhatIsNotOk DEF PanelAgreesWithTest, Reports
<1> QED
  BY <1>1, RolledUpInductive, PTL

(***************************************************************************)
(* The test and the application                                            *)
(***************************************************************************)
StreamType ==
    /\ session \in Session
    /\ clock \in Nat
    /\ arrivals \in [Stage -> SUBSET (0..clock)]

Receiver == report["receiver"]

\* Arrivals at the application that the receiver's report can have counted.
Before(at) == {t \in arrivals[5] : t <= at}

\* What the receiver's report says of its last stage is no more than had
\* arrived there by then: what arrives later in the same tick only adds to it.
Truthful ==
    report["receiver"] # None =>
        LET last == Receiver.stages[5]
            at   == Receiver.at
        IN  /\ at \in 0..clock
            /\ DOMAIN Receiver.stages = Ota..5
            /\ last.hz \in Nat
            /\ last.hz <= Cardinality({t \in Before(at) : t >= at - Window})
            /\ Delivers(last) => Before(at) # {}
            /\ last.state = "FLOWING" => \E t \in Before(at) : t >= at - StaleAfter

DeliveredInv == StreamType /\ RolledUp /\ Truthful

LEMMA MaxIsIt ==
    ASSUME NEW S \in SUBSET Int, NEW m \in S, \A x \in S : x <= m
    PROVE  Max(S) = m
<1>1. m \in S /\ \A y \in S : m >= y
  OBVIOUS
<1>2. ASSUME NEW c \in S, \A y \in S : c >= y PROVE c = m
  BY <1>2
<1> QED
  BY <1>1, <1>2 DEF Max

\* A finite set of integers has a greatest element.
LEMMA GreatestExists ==
    ASSUME NEW S, S \subseteq Int, S # {}, IsFiniteSet(S)
    PROVE  \E m \in S : \A x \in S : x <= m
<1> DEFINE AtLeast(m) == {x \in S : m <= x}
           T == {AtLeast(m) : m \in S}
           R == StrictSubsetOrdering(S)
<1>1. T \subseteq FiniteSubsetsOf(S) /\ T # {}
  <2>1. \A m \in S : AtLeast(m) \in FiniteSubsetsOf(S)
    BY FS_Subset DEF FiniteSubsetsOf
  <2> QED
    BY <2>1
<1>2. PICK t \in T : \A u \in T : ~(<<u, t>> \in R)
  <2> HIDE DEF T, R
  <2> QED
    BY <1>1, FS_StrictSubsetOrderingWellFounded, WFMin DEF R
<1>3. PICK m \in S : t = AtLeast(m)
  OBVIOUS
<1>4. ASSUME NEW x \in S, m < x PROVE FALSE
  <2>1. /\ \A y \in S : x <= y => m <= y
        /\ m <= m /\ ~(x <= m)
    BY <1>4
  <2>2. AtLeast(x) \subseteq AtLeast(m) /\ m \in AtLeast(m) /\ m \notin AtLeast(x)
    BY <2>1
  <2>3. <<AtLeast(x), AtLeast(m)>> \in R
    BY <2>2 DEF StrictSubsetOrdering
  <2> QED
    BY <1>2, <1>3, <2>3
<1> QED
  BY <1>4

\* A report of the receiver is made of what is there.
LEMMA SnapshotIsTruthful ==
    ASSUME StreamType
    PROVE  LET r    == Snapshot("receiver")
               last == r.stages[5]
           IN  /\ r.at = clock
               /\ DOMAIN r.stages = Ota..5
               /\ last.hz \in Nat
               /\ last.hz = Cardinality({t \in arrivals[5] : t >= clock - Window})
               /\ Delivers(last) => arrivals[5] # {}
               /\ last.state = "FLOWING" => \E t \in arrivals[5] : t >= clock - StaleAfter
<1> DEFINE last == Snapshot("receiver").stages[5]
<1>1. arrivals[5] \in SUBSET (0..clock) /\ clock \in Nat /\ IsFiniteSet(arrivals[5])
  <2>1. arrivals[5] \in SUBSET (0..clock) /\ clock \in Nat
    BY DEF StreamType, Stage
  <2>2. IsFiniteSet(0..clock)
    BY <2>1, FS_Interval
  <2> QED
    BY <2>1, <2>2, FS_Subset
<1>2. /\ Snapshot("receiver").at = clock
      /\ DOMAIN Snapshot("receiver").stages = Ota..5
      /\ last = Classified(5)
  BY DEF Snapshot, Results, StagesOf, Ota
<1>3. /\ last.hz = Rate(5) /\ last.state = StateOf(5)
  BY <1>2 DEF Classified
<1>4. Seen(5) = arrivals[5]
  BY DEF Seen, Ota
<1>5. Rate(5) = Cardinality({t \in arrivals[5] : t >= clock - Window})
  BY <1>4 DEF Rate
<1>6. Rate(5) \in Nat
  <2>1. IsFiniteSet({t \in arrivals[5] : t >= clock - Window})
    BY <1>1, FS_Subset
  <2> QED
    BY <1>5, <2>1, FS_CardinalityType
<1>7. Delivers(last) => arrivals[5] # {}
  BY <1>3, <1>4 DEF Delivers, StateOf
<1>8. ASSUME last.state = "FLOWING" PROVE \E t \in arrivals[5] : t >= clock - StaleAfter
  <2>1. arrivals[5] # {} /\ ~(Age(5) > StaleAfter)
    BY <1>3, <1>4, <1>8 DEF StateOf
  <2>2. \E m \in arrivals[5] : \A x \in arrivals[5] : x <= m
    BY <1>1, <2>1, GreatestExists
  <2>3. Max(arrivals[5]) \in arrivals[5]
    BY <2>2, <1>1 DEF Max
  <2>4. ~(clock - Max(arrivals[5]) > StaleAfter)
    BY <1>4, <2>1 DEF Age
  <2> QED
    BY <1>1, <2>3, <2>4, StatusAssumption
<1> QED
  BY <1>2, <1>3, <1>5, <1>6, <1>7, <1>8

LEMMA TruthStays ==
    ASSUME DeliveredInv, StreamType', UNCHANGED report, clock <= clock',
           arrivals[5] \subseteq arrivals'[5]
    PROVE  Truthful'
<1> SUFFICES ASSUME report["receiver"] # None
             PROVE  Truthful'
  BY DEF Truthful
<1> DEFINE at == Receiver.at
           S  == {t \in Before(at) : t >= at - Window}
           S2 == {t \in arrivals'[5] : t <= at /\ t >= at - Window}
<1>1. /\ clock \in Nat /\ clock' \in Nat /\ at \in 0..clock /\ at \in 0..clock'
      /\ Receiver' = Receiver
  BY DEF DeliveredInv, Truthful, StreamType, Receiver
<1>2. Before(at) \subseteq {t \in arrivals'[5] : t <= at}
  BY DEF Before
<1>3. S \subseteq S2 /\ IsFiniteSet(S2)
  <2>0. IsFiniteSet(0..clock')
    <3>1. 0 \in Int /\ clock' \in Int
      BY <1>1
    <3> QED
      BY <3>1, FS_Interval
  <2>1. arrivals'[5] \in SUBSET (0..clock')
    BY DEF StreamType, Stage
  <2>2. S2 \in SUBSET (0..clock')
    BY <2>1
  <2>3. S \subseteq S2
    BY <1>2
  <2> QED
    BY <2>0, <2>2, <2>3, FS_Subset
<1>4. Cardinality(S) <= Cardinality(S2) /\ Cardinality(S) \in Nat /\ Cardinality(S2) \in Nat
  BY <1>3, FS_Subset, FS_CardinalityType
<1> HIDE DEF S, S2
<1>5. Receiver.stages[5].hz \in Nat /\ Receiver.stages[5].hz <= Cardinality(S2)
  BY <1>4 DEF DeliveredInv, Truthful, S
<1>6. S2 = {t \in Before(at)' : t >= at - Window}
  BY DEF S2, Before, Receiver
<1> QED
  BY <1>1, <1>2, <1>5, <1>6 DEF DeliveredInv, Truthful, Before, Receiver

\* A rate can be bounded by a number only.
LEMMA BoundsType ==
    ASSUME session \in Session
    PROVE  Bounds.hz \in Nat
<1>1. contract \in {s.contract : s \in Session}
  BY DEF contract
<1>2. /\ DOMAIN contract.bounds = BoundName
      /\ \A k \in BoundName : contract.bounds[k] \in BoundOf(k)
      /\ \A k \in DOMAIN contract.override : contract.override[k] \in BoundOf(k)
  BY <1>1, SessionAssumption
<1>3. "hz" \in BoundName /\ BoundOf("hz") = Nat
  BY DEF BoundName, BoundOf
<1> QED
  BY <1>2, <1>3 DEF Bounds

LEMMA HeardIsFinite ==
    ASSUME StreamType, NEW at
    PROVE  Cardinality({t \in Before(at) : t >= at - Window}) \in Nat
<1>1. clock \in Nat /\ arrivals[5] \in SUBSET (0..clock)
  BY DEF StreamType, Stage
<1>2. IsFiniteSet(0..clock)
  BY <1>1, FS_Interval
<1>3. {t \in Before(at) : t >= at - Window} \in SUBSET (0..clock)
  BY <1>1 DEF Before
<1> QED
  BY <1>2, <1>3, FS_Subset, FS_CardinalityType

LEMMA DeliveredInductive == TestSpec => []DeliveredInv
<1>1. ReportInit => DeliveredInv
  BY SessionAssumption DEF ReportInit, DeliveredInv, StreamType, RolledUp, Truthful, Stage, Peer
<1>2. DeliveredInv /\ RolledUp' /\ [TestNext]_testVars => DeliveredInv'
  <2> SUFFICES ASSUME DeliveredInv, RolledUp', [TestNext]_testVars PROVE DeliveredInv'
    OBVIOUS
  <2>0. StreamType
    BY DEF DeliveredInv
  <2>1. ASSUME NEW q \in Peer, WriteReport(q) PROVE DeliveredInv'
    <3>1. /\ UNCHANGED <<session, clock, up, arrivals, late>>
          /\ report' = [report EXCEPT ![q] = Snapshot(q)]
      BY <2>1 DEF WriteReport
    <3>2. StreamType'
      BY <2>0, <3>1 DEF StreamType
    <3>3. CASE q # "receiver"
      <4>1. report'["receiver"] = report["receiver"]
        BY <3>1, <3>3
      <4> QED
        BY <3>1, <3>2, <4>1 DEF DeliveredInv, Truthful, Receiver, Before
    <3>4. CASE q = "receiver" /\ "receiver" \in DOMAIN report
      <4>1. Receiver' = Snapshot("receiver")
        BY <3>1, <3>4 DEF Receiver
      <4>2. Before(clock)' = arrivals[5]
        BY <2>0, <3>1 DEF Before, StreamType, Stage
      <4>3. clock \in 0..clock'
        BY <2>0, <3>1 DEF StreamType
      <4>4. Truthful'
        <5> DEFINE last == Receiver'.stages[5]
                   heard == {t \in arrivals[5] : t >= clock - Window}
        <5>1. /\ Receiver'.at = clock
              /\ DOMAIN Receiver'.stages = Ota..5
              /\ last.hz \in Nat
              /\ last.hz = Cardinality(heard)
              /\ Delivers(last) => arrivals[5] # {}
              /\ last.state = "FLOWING" => \E t \in arrivals[5] : t >= clock - StaleAfter
          BY <2>0, <4>1, SnapshotIsTruthful
        <5>2. {t \in Before(clock)' : t >= clock - Window} = heard
          BY <4>2
        <5> HIDE DEF heard
        <5>4. last.hz <= Cardinality(heard)
          BY <5>1
        <5>5. Before(Receiver.at)' = arrivals[5] /\ (Receiver.at)' = clock
          <6>1. (Receiver.at)' = clock
            BY <5>1
          <6>2. Before(Receiver.at)' = {t \in arrivals[5] : t <= clock}
            BY <3>1, <6>1 DEF Before
          <6>3. arrivals[5] \in SUBSET (0..clock) /\ clock \in Nat
            BY <2>0 DEF StreamType, Stage
          <6> QED
            BY <6>1, <6>2, <6>3
        <5>6. {t \in Before(Receiver.at)' : t >= (Receiver.at)' - Window} = heard
          BY <5>5 DEF heard
        <5>7. (Delivers(Receiver.stages[5]))' <=> Delivers(last)
          BY DEF Delivers
        <5>8. \A S : S = heard => (Receiver'.stages[5].hz <= Cardinality(S))
          BY <5>4
        <5> HIDE DEF last
        <5> QED
          BY <4>3, <5>1, <5>5, <5>6, <5>7, <5>8 DEF Truthful, last
      <4> QED
        BY <3>2, <4>4 DEF DeliveredInv
    <3>5. CASE "receiver" \notin DOMAIN report
      <4>1. report' = report \/ report'["receiver"] = report["receiver"]
        BY <3>1, <3>5
      <4> QED
        BY <3>1, <3>2, <4>1 DEF DeliveredInv, Truthful, Receiver, Before
    <3> QED
      BY <3>3, <3>4, <3>5
  <2>2. ASSUME NEW s \in Stage, PublisherAppears(s) PROVE DeliveredInv'
    <3>1. UNCHANGED <<session, clock, arrivals, report>>
      BY <2>2 DEF PublisherAppears
    <3> QED
      BY <2>0, <3>1, TruthStays DEF DeliveredInv, StreamType
  <2>3. ASSUME NEW s \in Stage \ {Ota}, NEW slow \in BOOLEAN, Deliver(s, slow) PROVE DeliveredInv'
    <3>1. /\ UNCHANGED <<session, clock, report>>
          /\ arrivals' = [x \in Stage |-> IF x <= s THEN arrivals[x] \union {clock}
                                                    ELSE arrivals[x]]
      BY <2>3 DEF Deliver
    <3>2. StreamType' /\ arrivals[5] \subseteq arrivals'[5] /\ clock <= clock'
      BY <2>0, <3>1 DEF StreamType, Stage
    <3> QED
      BY <3>1, <3>2, TruthStays DEF DeliveredInv
  <2>4. CASE TimePasses
    <3>1. UNCHANGED <<session, arrivals, report>> /\ clock' = clock + 1
      BY <2>4 DEF TimePasses
    <3>2. StreamType' /\ arrivals[5] \subseteq arrivals'[5] /\ clock <= clock'
      BY <2>0, <3>1 DEF StreamType, Stage
    <3> QED
      BY <3>1, <3>2, TruthStays DEF DeliveredInv
  <2>5. CASE RefuseTest \/ TestPasses \/ TestFails \/ UNCHANGED testVars
    <3>1. UNCHANGED <<session, clock, arrivals, report>>
      BY <2>5 DEF RefuseTest, TestPasses, TestFails, testVars
    <3> QED
      BY <2>0, <3>1, TruthStays DEF DeliveredInv, StreamType
  <2> QED
    BY <2>1, <2>2, <2>3, <2>4, <2>5 DEF TestNext
<1> QED
  BY <1>1, <1>2, RolledUpInductive, PTL DEF TestSpec

\* On a receiver whose panel is OK the last stage delivers, and flows if the
\* topic is a stream.
LEMMA OkReachesTheEnd ==
    ASSUME NEW results, DOMAIN results = Ota..5, Overall("receiver", results) = "OK",
           contract.mode \in {"stream", "latched"}
    PROVE  /\ Delivers(results[5])
           /\ contract.mode = "stream" => results[5].state = "FLOWING"
<1>1. End(results) = 5
  <2>1. 5 \in DOMAIN results /\ DOMAIN results \in SUBSET Int /\ \A x \in DOMAIN results : x <= 5
    BY DEF Ota
  <2> QED
    BY <2>1, MaxIsIt DEF End
<1>2. CASE Relaxed("receiver", results)
  BY <1>1, <1>2 DEF Relaxed
<1>3. CASE ~Relaxed("receiver", results)
  <2> DEFINE deepest == Max(Reached(results))
  <2>1. StreamState(results) = "OK"
    BY <1>3 DEF Overall
  <2>2. /\ Reached(results) # {} /\ results[deepest].state # "STALE"
        /\ deepest = 5
    BY <1>1, <2>1 DEF StreamState
  <2>3. Reached(results) \in SUBSET (3..5)
    BY DEF Reached, Ota
  <2>4. \E m \in Reached(results) : \A x \in Reached(results) : x <= m
    BY <2>2, <2>3
  <2>5. deepest \in Reached(results)
    BY <2>3, <2>4 DEF Max
  <2> QED
    BY <2>2, <2>5 DEF Reached, Delivers
<1> QED
  BY <1>2, <1>3

\* The test passes on what the receiver's report shows, and what that shows has
\* happened: a required stream reached the application shortly before, as often
\* as its contract asks, and a held value reached it at some time.
THEOREM PassedOnTheReceiversWord == TestSpec => OkWasDelivered
<1>1. DeliveredInv /\ [TestNext]_testVars =>
          (verdict = "none" /\ verdict' = "ok" /\ "receiver" \in Reports
           /\ ~contract.optional /\ contract.smoke_probe =>
              LET at   == report["receiver"].at
                  seen == {t \in arrivals[5] : t <= at}
              IN  /\ contract.mode = "stream" =>
                        /\ \E t \in seen : t >= at - StaleAfter
                        /\ Cardinality({t \in seen : t >= at - Window}) >= Bounds.hz
                  /\ contract.mode = "latched" => seen # {})
  <2> SUFFICES ASSUME DeliveredInv, [TestNext]_testVars, verdict = "none", verdict' = "ok",
                      "receiver" \in Reports, ~contract.optional, contract.smoke_probe
               PROVE  /\ contract.mode = "stream" =>
                            /\ \E t \in Before(Receiver.at) : t >= Receiver.at - StaleAfter
                            /\ Cardinality({t \in Before(Receiver.at) : t >= Receiver.at - Window})
                                   >= Bounds.hz
                      /\ contract.mode = "latched" => Before(Receiver.at) # {}
    BY DEF Before, Receiver
  <2> DEFINE results == Receiver.stages
             last    == results[5]
             heard   == Cardinality({t \in Before(Receiver.at) : t >= Receiver.at - Window})
  <2>1. TestPasses
    BY DEF TestNext, testVars, PublisherAppears, Deliver, WriteReport, TimePasses, RefuseTest,
           TestFails
  <2>2. EvaluateReport("receiver") = {}
    BY <2>1 DEF TestPasses, Failures
  <2>3. report["receiver"] # None /\ "receiver" \in Peer
    BY DEF Reports
  <2>4. Receiver.overall = "OK"
    BY <2>2, <2>3, StatusFailsWhatIsNotOk DEF DeliveredInv, Receiver
  <2>5. Overall("receiver", results) = "OK" /\ DOMAIN results = Ota..5
    BY <2>3, <2>4 DEF DeliveredInv, RolledUp, Truthful, Receiver
  <2>6. ASSUME contract.mode = "latched" PROVE Before(Receiver.at) # {}
    <3>1. Delivers(last)
      BY <2>5, <2>6, OkReachesTheEnd
    <3> QED
      BY <2>3, <3>1 DEF DeliveredInv, Truthful
  <2>7. ASSUME contract.mode = "stream"
        PROVE  /\ \E t \in Before(Receiver.at) : t >= Receiver.at - StaleAfter
               /\ heard >= Bounds.hz
    <3>1. last.state = "FLOWING"
      BY <2>5, <2>7, OkReachesTheEnd
    <3>2. FinalStage(results) = last
      <4> DEFINE flowing == {s \in DOMAIN results : results[s].state = "FLOWING"}
      <4>1. 5 \in flowing /\ flowing \in SUBSET Int /\ \A x \in flowing : x <= 5
        BY <2>5, <3>1 DEF Ota
      <4>2. Max(flowing) = 5
        <5> HIDE DEF flowing
        <5> QED
          BY <4>1, MaxIsIt
      <4> QED
        BY <4>1, <4>2 DEF FinalStage
    <3>3. CheckStream("receiver", results) = {}
      BY <2>2, <2>4, <2>7 DEF EvaluateReport, Receiver
    <3>4. CheckExpect(results) = {}
      BY <3>3 DEF CheckStream
    <3>5. ~(last.hz < Bounds.hz)
      BY <3>2, <3>4 DEF CheckExpect
    <3>6. Bounds.hz \in Nat
      BY BoundsType DEF DeliveredInv, StreamType
    <3>7. /\ last.hz \in Nat /\ last.hz <= heard
          /\ \E t \in Before(Receiver.at) : t >= Receiver.at - StaleAfter
      BY <2>3, <3>1 DEF DeliveredInv, Truthful
    <3>8. heard \in Nat
      BY HeardIsFinite DEF DeliveredInv
    <3> HIDE DEF heard, last
    <3> QED
      BY <3>5, <3>6, <3>7, <3>8
  <2> QED
    BY <2>6, <2>7
<1> QED
  BY <1>1, DeliveredInductive, PTL DEF TestSpec, OkWasDelivered
===============================================================================
