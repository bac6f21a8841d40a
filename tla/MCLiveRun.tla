------------------------------- MODULE MCLiveRun -------------------------------
(***************************************************************************)
(* The drivers of a live measurement, one of them per behaviour: the       *)
(* orchestrator of rosotacom ota run, on two hosts, with two runs one      *)
(* after the other; the same with ota-smoke --stop beside it; and one      *)
(* point of the benchmark, with a timeline of a good step, an outage and a *)
(* good step.                                                              *)
(***************************************************************************)
EXTENDS OtaRun, Recovery

CONSTANTS a, b, Driver

VARIABLE driver  \* which of the drivers is followed

Asked(mode, shaped, skip_check, keep) ==
    [mode |-> mode, shaped |-> shaped, skip_check |-> skip_check, keep |-> keep]

\* Both arming loops, a profile with one direction only, and the two flags.
MCOptions ==
    {Asked("static", {a, b}, FALSE, FALSE),
     Asked("static", {a}, FALSE, TRUE),
     Asked("static", {b}, TRUE, FALSE),
     Asked("timeline", {a, b}, FALSE, FALSE)}

\* Beside a --stop, with a fault less: a run that is kept, and one that does not
\* look whether the peers are free.
StopOptions == <<Asked("static", {a}, FALSE, TRUE), Asked("static", {b}, TRUE, FALSE)>>
StopFaults  == MaxFaults - 1

\* The static loop alone.
StaticOptions == {Asked("static", {a, b}, FALSE, FALSE)}

Good   == [lasts |-> 1, outage |-> FALSE]
Outage == [lasts |-> 1, outage |-> TRUE]
GoodOutageGood == <<Good, Outage, Good>>

\* No point is measured while an orchestrator is followed.
NoPoint == "none"
Orchestrating == driver # "point"

OtaPart ==
    /\ driver \in Driver \cap {"ota", "stop"}
    /\ Init
    /\ step = NoPoint
    /\ now = 0 /\ wake = 0 /\ up = {} /\ returned = {} /\ net = FALSE
    /\ timeline = FALSE /\ armed = {} /\ legs = [p \in LabPeer |-> Unshaped]
    /\ pub = 0 /\ stream = <<>> /\ window = [from |-> 0, to |-> 0, whole |-> FALSE]

PointPart == driver \in Driver \cap {"point"} /\ PointInit /\ Init

Undisturbed == Next /\ stopping' = NoStop
Disturbed   == Next /\ (run' = run \/ opt' = StopOptions[run']) /\ faults' <= StopFaults

MCInit == OtaPart \/ PointPart

MCNext ==
    \/ driver = "ota" /\ Undisturbed /\ UNCHANGED <<pointVars, driver>>
    \/ driver = "stop" /\ Disturbed /\ UNCHANGED <<pointVars, driver>>
    \/ driver = "point" /\ PointNext /\ UNCHANGED <<vars, driver>>

MCFairness ==
    /\ WF_vars(Orchestrating /\ Orchestrator)
    /\ \A p \in Peer, r \in Run : WF_vars(Orchestrating /\ WatchdogFires(<<p, r>>))

MCSpec == MCInit /\ [][MCNext]_<<vars, pointVars, driver>>

MCFairSpec == MCSpec /\ MCFairness
================================================================================
