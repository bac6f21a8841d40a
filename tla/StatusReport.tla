---------------------------- MODULE StatusReport ----------------------------
(***************************************************************************)
(* The live status of one topic, as the two peers report it, and the       *)
(* verdict rosotacom test passes on their reports.  A message leaves the   *)
(* application (stage 1) through com_out (2) onto the OTA topic (3), and   *)
(* is delivered from com_in (4) to the receiver's application (5).  Each   *)
(* peer observes its own three stages; nobody reads the OTA topic: both    *)
(* infer it from the stage beside it.  One message per tick at the most.   *)
(***************************************************************************)
EXTENDS Integers, FiniteSets, FiniteSetsExt

CONSTANTS
    Session,    \* what is declared: the topic's contract, the profile, a bag or none
    Window,     \* liveness_window_s
    StaleAfter, \* stale_after_s
    DelayGood,  \* delay_good_ms
    DelayBad,   \* delay_bad_ms, where the contract names no maximum
    Slow,       \* delay of a late message; others take none
    Hold,       \* how long a pacer holds a message that is not late
    StreamTime,    \* bound: when the model's time ends
    Deadline,   \* timeout of rosotacom test
    None

Stage == 1..5
Ota   == 3
Peer  == {"sender", "receiver"}
StagesOf(p) == IF p = "sender" THEN 1..Ota ELSE Ota..5

ASSUME StatusAssumption ==
    /\ Window \in Nat /\ StaleAfter \in Nat
    /\ DelayGood \in Nat /\ DelayBad \in Nat /\ Slow \in Nat /\ Hold \in Nat
    /\ StreamTime \in Nat /\ Deadline \in 0..StreamTime
    /\ None \notin Nat

\* What a contract can bound; what it bounds from above may have no bound.
BoundName == {"hz", "hz_max", "latency", "loss", "count", "ratio", "vs_bag"}
BoundOf(k) == IF k \in {"hz_max", "latency", "loss"} THEN Nat \union {None} ELSE Nat

ASSUME SessionAssumption ==
    \A c \in {s.contract : s \in Session} :
        /\ c.mode \in {"stream", "latched", "existence"}
        /\ {c.optional, c.smoke_probe, c.wrapped, c.header, c.paced} \subseteq BOOLEAN
        /\ {c.latency_at, c.loss_at} \subseteq Stage \union {None}
        /\ DOMAIN c.bounds = BoundName /\ DOMAIN c.override \subseteq BoundName
        /\ \A k \in BoundName : c.bounds[k] \in BoundOf(k)
        /\ \A k \in DOMAIN c.override : c.override[k] \in BoundOf(k)

VARIABLES
    session,    \* constant
    clock,
    up,         \* stages with a publisher
    arrivals,   \* stage |-> the ticks at which a message reached it
    late,       \* stages whose last message came late
    report,     \* peer |-> its status.json, or None
    verdict     \* of rosotacom test

testVars == <<session, clock, up, arrivals, late, report, verdict>>

contract == session.contract

ReportInit ==
    /\ session \in Session
    /\ clock = 0
    /\ up = {} /\ late = {}
    /\ arrivals = [s \in Stage |-> {}]
    /\ report = [p \in Peer |-> None]
    /\ verdict = "none"

(***************************************************************************)
(* The stream                                                              *)
(***************************************************************************)
\* Publishers appear from the application on, as the nodes discover theirs.
PublisherAppears(s) ==
    /\ s \notin up /\ (s = 1 \/ s - 1 \in up)
    /\ up' = up \union {s}
    /\ UNCHANGED <<session, clock, arrivals, late, report, verdict>>

\* A message gets as far as stage s, late or in time (which shows only where a
\* stamp is read), or is lost there.
Deliver(s, slow) ==
    /\ clock \notin arrivals[1]
    /\ slow => contract.wrapped \/ contract.header
    /\ 1..s \subseteq up
    /\ arrivals' = [x \in Stage |-> IF x <= s THEN arrivals[x] \union {clock} ELSE arrivals[x]]
    /\ late' = IF slow THEN late \union (4..s) ELSE late \ (4..s)
    /\ UNCHANGED <<session, clock, up, report, verdict>>

TimePasses ==
    /\ clock < StreamTime
    /\ clock' = clock + 1
    /\ UNCHANGED <<session, up, arrivals, late, report, verdict>>

(***************************************************************************)
(* What the status node of a peer makes of a stage                         *)
(***************************************************************************)
\* The OTA topic is not subscribed.
Seen(s)  == IF s = Ota THEN {} ELSE arrivals[s]
Rate(s)  == Cardinality({t \in Seen(s) : t >= clock - Window})
Age(s)   == clock - Max(Seen(s))

\* Sequence numbers count at com_in of a wrapped topic, from the first message
\* that gets there: a gap behind it is noticed by the next one.
Missed == {t \in arrivals[2] \ arrivals[4] :
              /\ \E first \in arrivals[4] : first < t
              /\ \E u \in arrivals[4] :
                     /\ u > t /\ u >= clock - Window
                     /\ \A v \in arrivals[4] : v > t => v >= u}
Loss(s) ==
    IF s = 4 /\ contract.wrapped /\ Seen(4) # {} THEN Cardinality(Missed) ELSE None

\* How long the pacer in front of the application held the last message.
PacingHold(s) ==
    IF s = 5 /\ contract.paced /\ Seen(5) # {} THEN IF 5 \in late THEN 0 ELSE Hold ELSE None

\* A delay is read from the wrapper's stamp at com_in, from a header at the end.
Latency(s) ==
    IF Seen(s) # {} /\ ((s = 4 /\ contract.wrapped) \/ (s = 5 /\ contract.header))
    THEN (IF s \in late THEN Slow ELSE 0) + (IF PacingHold(s) = None THEN 0 ELSE PacingHold(s))
    ELSE None

LinkLatency(s) ==
    IF Latency(s) = None \/ PacingHold(s) = None THEN None ELSE Latency(s) - PacingHold(s)

\* Mutant: what has been seen once flows for ever.
AgelessState(s) ==
    IF Seen(s) # {} THEN "FLOWING" ELSE IF s \in up THEN "IDLE" ELSE "ABSENT"

StateOf(s) ==
    CASE Seen(s) = {} -> IF s \in up THEN "IDLE" ELSE "ABSENT"
      [] Seen(s) # {} /\ Age(s) > StaleAfter -> "STALE"
      [] OTHER -> "FLOWING"

\* What is left of a delay once what this session adds on purpose is taken out.
Judged(s) == IF LinkLatency(s) # None THEN LinkLatency(s) ELSE Latency(s)

Above(x, bound) == x # None /\ bound # None /\ x > bound

\* The first thing that is wrong, with the bounds of the contract where it has
\* any.  The monitor does not know of a profile.
Quality(s, bounds) ==
    LET bad == IF bounds.latency # None THEN bounds.latency ELSE DelayBad
    IN  CASE Judged(s) # None /\ Judged(s) >= bad -> "BAD"
          [] Judged(s) # None /\ Judged(s) \in (DelayGood + 1)..(bad - 1) -> "DEGRADED"
          [] Above(Loss(s), bounds.loss) -> "BAD"
          [] Rate(s) < bounds.hz \/ Above(Rate(s), bounds.hz_max) -> "BAD"
          [] OTHER -> "GOOD"

Classified(s) ==
    [stage |-> s, state |-> StateOf(s), publisher |-> s \in up, hz |-> Rate(s),
     total |-> Cardinality(Seen(s)), latency |-> Latency(s), link |-> LinkLatency(s),
     loss |-> Loss(s),
     quality |-> IF StateOf(s) = "FLOWING" THEN Quality(s, contract.bounds) ELSE None]

Delivers(r) == r.state \in {"FLOWING", "STALE"}

\* The stage that tells what happened on the OTA topic: what went in, for the
\* sender, provided there is a publisher; what came out, for the receiver.
Witness(p) == IF p = "sender" THEN 2 ELSE 4
Witnessed(p) == (p = "sender" => Ota \in up) /\ Delivers(Classified(Witness(p)))

Results(p) ==
    [s \in StagesOf(p) |->
        IF s = Ota /\ Witnessed(p)
        THEN [Classified(Witness(p)) EXCEPT !.stage = Ota, !.publisher = Ota \in up, !.link = None]
        ELSE Classified(s)]

(***************************************************************************)
(* One state per topic                                                     *)
(***************************************************************************)
Reached(results) == {s \in DOMAIN results : Delivers(results[s])}
First(results)   == Min(DOMAIN results)
End(results)     == Max(DOMAIN results)
AnyPublisher(results) == \E s \in DOMAIN results : results[s].publisher

\* As far as the messages got, whatever the topic is for.
StreamState(results) ==
    LET deepest == Max(Reached(results))
    IN  CASE Reached(results) = {} -> IF AnyPublisher(results) THEN "STALLED" ELSE "ABSENT"
          [] results[deepest].state = "STALE" -> "STALLED"
          [] OTHER -> IF deepest = End(results) THEN "OK" ELSE "PARTIAL"

BlockedAt(results) ==
    LET deepest == Max(Reached(results))
    IN  CASE Reached(results) = {} -> First(results)
          [] results[deepest].state = "STALE" -> deepest
          [] OTHER -> deepest + 1

\* Mutant: the held value must reach the last stage on either side.
RelaxedAtTheEnd(p, results) ==
    \/ contract.mode = "latched" /\ Delivers(results[End(results)])
    \/ contract.mode = "existence" /\ AnyPublisher(results)

\* A held value need not tick, nor a topic that has only to exist: on the
\* sender it is enough that some stage held it.
Relaxed(p, results) ==
    \/ /\ contract.mode = "latched"
       /\ IF p = "sender" THEN Reached(results) # {} ELSE Delivers(results[End(results)])
    \/ contract.mode = "existence" /\ AnyPublisher(results)

Overall(p, results) == IF Relaxed(p, results) THEN "OK" ELSE StreamState(results)

Snapshot(p) ==
    LET results == Results(p)
        overall == Overall(p, results)
    IN  [at |-> clock, overall |-> overall, stages |-> results,
         blocked_at |-> IF overall = "OK" THEN None ELSE BlockedAt(results)]

\* The status node writes when it gets to it, or has died and never does.
WriteReport(p) ==
    /\ report' = [report EXCEPT ![p] = Snapshot(p)]
    /\ UNCHANGED <<session, clock, up, arrivals, late, verdict>>
=============================================================================
