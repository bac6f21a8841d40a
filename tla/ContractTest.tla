---------------------------- MODULE ContractTest ----------------------------
(***************************************************************************)
(* rosotacom test: it polls the status.json of every peer that has written *)
(* one and compares them with what the session definition expects of the   *)
(* topic, until nothing is wrong or its time is over.                      *)
(***************************************************************************)
EXTENDS StatusReport

\* The bounds under the selected profile: its own, key by key, where it has any.
Bounds ==
    IF session.profile = None THEN contract.bounds
    ELSE [k \in DOMAIN contract.bounds |->
             IF k \in DOMAIN contract.override THEN contract.override[k] ELSE contract.bounds[k]]

\* The end of what flows; the last stage if nothing does.
FinalStage(results) ==
    LET flowing == {s \in DOMAIN results : results[s].state = "FLOWING"}
    IN  results[IF flowing # {} THEN Max(flowing) ELSE End(results)]

Missing(x) == x = None
Exceeds(x, bound) == bound # None /\ (Missing(x) \/ x > bound)

\* A contract may name the stage for its latency or loss, and name one that is
\* not in the pipeline of this peer.
Elsewhere(s, results) == s # None /\ s \notin DOMAIN results

\* The loss is read at the stage named for it, or at the first that counts.
LossAsserted(results) ==
    LET counts == {s \in DOMAIN results : results[s].loss # None}
        at     == IF contract.loss_at # None THEN {contract.loss_at} \cap DOMAIN results ELSE counts
    IN  IF at = {} THEN None ELSE results[Min(at)].loss

\* Asserted on the delivered end, unless the contract names another stage; a
\* latency of a stage that is elsewhere fails, and the loss is not looked at.
CheckExpect(results) ==
    LET final  == FinalStage(results)
        unread == Elsewhere(contract.latency_at, results)
        at     == IF contract.latency_at = None THEN final ELSE results[contract.latency_at]
    IN  {f \in {"hz", "latency", "loss"} :
            \/ f = "hz" /\ (final.hz < Bounds.hz \/ Above(final.hz, Bounds.hz_max))
            \/ f = "latency" /\ unread
            \/ /\ f = "latency" /\ ~unread
               /\ Exceeds(IF at.link # None THEN at.link ELSE at.latency, Bounds.latency)
            \/ f = "loss" /\ ~unread /\ Exceeds(LossAsserted(results), Bounds.loss)}

\* What this peer counted at the end, and the share of what it counted first.
CheckCompleteness(results) ==
    LET first == results[Min(Reached(results))].total
        final == results[Max(Reached(results))].total
    IN  {f \in {"count", "ratio"} :
            /\ Reached(results) # {}
            /\ \/ f = "count" /\ final < Bounds.count
               \/ f = "ratio" /\ first > 0 /\ final * 100 < Bounds.ratio * first}

\* The rate of the source is known for a bag only.
CheckBag(results) ==
    IF session.bag # None /\ FinalStage(results).hz * 100 < Bounds.vs_bag * session.bag
    THEN {"vs_bag"} ELSE {}

CheckStream(p, results) ==
    CASE p = "sender" -> {}
      [] p = "receiver" /\ FinalStage(results).quality = "BAD" -> {"quality"}
      [] OTHER -> CheckExpect(results) \union CheckCompleteness(results) \union CheckBag(results)

\* A topic that is not OK may still have done what its mode asks for.
Excused(p, results) ==
    \/ /\ contract.mode = "latched"
       /\ IF p = "sender" THEN Reached(results) # {} ELSE Delivers(results[End(results)])
    \/ contract.mode = "existence" /\ AnyPublisher(results)
    \/ contract.optional

EvaluateReport(p) ==
    LET r == report[p]
    IN  CASE ~contract.smoke_probe -> {}
          [] contract.smoke_probe /\ r.overall = "OK" ->
                 IF contract.mode = "stream" THEN CheckStream(p, r.stages) ELSE {}
          [] OTHER -> IF Excused(p, r.stages) THEN {} ELSE {"status"}

Reports  == {p \in Peer : report[p] # None}
Failures == UNION {EvaluateReport(p) : p \in Reports}

\* A bound that only a bag can decide is not skipped in silence.
NeedsBag == Bounds.vs_bag > 0 /\ session.bag = None

RefuseTest ==
    /\ NeedsBag
    /\ verdict' = "failed"
    /\ UNCHANGED <<session, clock, up, arrivals, late, report>>

TestPasses ==
    /\ ~NeedsBag
    /\ Reports # {} /\ Failures = {}
    /\ verdict' = "ok"
    /\ UNCHANGED <<session, clock, up, arrivals, late, report>>

\* Every poll failed, the one at the deadline too.
TestFails ==
    /\ ~NeedsBag
    /\ Reports = {} \/ Failures # {}
    /\ clock >= Deadline
    /\ verdict' = "failed"
    /\ UNCHANGED <<session, clock, up, arrivals, late, report>>

\* The stream is followed until the test has its verdict.
TestNext ==
    /\ verdict = "none"
    /\ \/ \E s \in Stage : PublisherAppears(s)
       \/ \E s \in Stage \ {Ota}, slow \in BOOLEAN : Deliver(s, slow)
       \/ \E p \in Peer : WriteReport(p)
       \/ TimePasses
       \/ RefuseTest \/ TestPasses \/ TestFails

TestSpec == ReportInit /\ [][TestNext]_testVars

(***************************************************************************)
(* Properties                                                              *)
(***************************************************************************)
\* The live display agrees with the test on who delivers: a topic that a peer's
\* panel shows as anything but OK fails the test unless it is optional, and one
\* that it shows as OK is not failed for its state (StatusAggregator.rollup and
\* evaluate_report decide this separately).
PanelAgreesWithTest ==
    \A p \in Reports : contract.smoke_probe =>
        (("status" \in EvaluateReport(p)) <=> (report[p].overall # "OK" /\ ~contract.optional))

\* What the test takes the receiver's word for has happened: when it passes on
\* the report of the receiver, a required stream had reached the application
\* shortly before, as often as the contract asks, and a held value had reached
\* it at some time - although the OTA topic is inferred and either peer's state
\* may be relaxed by the topic's mode.
OkWasDelivered ==
    [][verdict = "none" /\ verdict' = "ok" /\ "receiver" \in Reports
       /\ ~contract.optional /\ contract.smoke_probe =>
        LET at   == report["receiver"].at
            seen == {t \in arrivals[5] : t <= at}
        IN  /\ contract.mode = "stream" =>
                  /\ \E t \in seen : t >= at - StaleAfter
                  /\ Cardinality({t \in seen : t >= at - Window}) >= Bounds.hz
            /\ contract.mode = "latched" => seen # {}]_testVars

\* A passed test means that the topic was delivered (test_command).
PassedMeansDelivered ==
    verdict = "ok" /\ contract.mode = "stream" /\ ~contract.optional /\ contract.smoke_probe
        => arrivals[5] # {}

\* Under a profile, a delivered topic is failed only for a bound that holds
\* under that profile (resolve_expect_for_profile).
ProfileDecides ==
    "receiver" \in Reports /\ session.profile # None /\ report["receiver"].overall = "OK"
        /\ EvaluateReport("receiver") # {}
        => LET results == report["receiver"].stages
           IN  CheckExpect(results) \union CheckCompleteness(results) \union CheckBag(results) # {}
=============================================================================
