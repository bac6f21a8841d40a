-------------------------------- MODULE OtaRun --------------------------------
(***************************************************************************)
(* Non-interactive OTA runs over a set of peers: the orchestrator of one   *)
(* run after another (rosotacom ota-smoke, and the benchmark's timeline    *)
(* variant), ota-smoke --stop beside them, each peer's containers and      *)
(* egress qdisc, and the detached safety watchdogs.                        *)
(*                                                                         *)
(* A loop over the peers is a phase with the set of peers still to do; the *)
(* code goes in sorted order, the model in any.  Every command is an SSH   *)
(* call that can fail; one with check=False fails silently.  faults bounds *)
(* the failures, signals and crashes of a behaviour.  A workdir that is    *)
(* removed at the end of a run or a stop makes the commands that need it   *)
(* fail: such a failure is one of these.                                   *)
(***************************************************************************)
EXTENDS Integers, FiniteSets

CONSTANTS
    Peer,
    MaxRun,         \* bound: runs started, one after the other
    MaxFaults,      \* bound: failing commands, signals and crashes
    ContainerMode,  \* --sudo-mode container: the watchdog has a fixed name
    Options         \* what operators ask for

\* How the profile is armed (static: _ota_arm_profile; timeline: the loop of
\* the benchmark), which peers it has a direction for, --skip-conflict-check
\* and --keep-running.
Option == [mode : {"static", "timeline"}, shaped : SUBSET Peer,
           skip_check : BOOLEAN, keep : BOOLEAN]

NoPeer == "none"

ASSUME OtaRunAssumption ==
    /\ MaxRun \in Nat /\ MaxFaults \in Nat
    /\ ContainerMode \in BOOLEAN
    /\ Options \subseteq Option
    /\ NoPeer \notin Peer

Run == 1..MaxRun

Before  == {"check", "prepare", "resolve"}
InTry   == {"arm", "guard", "tbf", "netem", "start", "verify"}
Finally == {"revert", "collect", "stop"}

VARIABLES
    run,         \* the latest run, 0 before the first
    phase,       \* where its orchestrator is, or "idle"
    todo,        \* peers the current loop has still to visit
    opt,         \* its options
    current,     \* the peer whose shaper is being armed
    registered,  \* the callee's list of shapers in _ota_arm_profile
    shapers,     \* the caller's list, the one the finally reverts
    missed,      \* shaped peers the conflict check took for clear
    qdisc,       \* per peer: whose qdisc is on the egress, and is it complete
    containers,  \* per peer: runs whose containers are up
    watchdogs,   \* <<peer, run>>: detached reverts still sleeping
    unguarded,   \* peers whose last watchdog launch failed silently
    unreached,   \* <<command, peer, run>>: reverts, stops that failed silently
    manifest,    \* per run: phase written to its manifest
    outcome,     \* per run: how its orchestrator ended
    stopping,    \* the --stop under way: its run, 0 if none, and peers to do
    overtaken,   \* history: <<peer, run>> started when a --stop had passed
    faults

vars == <<run, phase, todo, opt, current, registered, shapers, missed, qdisc,
          containers, watchdogs, unguarded, unreached, manifest, outcome, stopping,
          overtaken, faults>>

NoQdisc  == [run |-> 0, whole |-> FALSE]
hosts    == <<qdisc, containers, watchdogs, unguarded, unreached>>
stops    == <<stopping, overtaken>>
records  == <<manifest, outcome, stops>>
lists    == <<current, registered, shapers, missed>>
NoStop   == [run |-> 0, todo |-> {}]

Init ==
    /\ run = 0
    /\ phase = "idle"
    /\ todo = {}
    /\ opt = [mode |-> "static", shaped |-> {}, skip_check |-> FALSE, keep |-> FALSE]
    /\ current = NoPeer
    /\ registered = {}
    /\ shapers = {}
    /\ missed = {}
    /\ qdisc = [p \in Peer |-> NoQdisc]
    /\ containers = [p \in Peer |-> {}]
    /\ watchdogs = {}
    /\ unguarded = {}
    /\ unreached = {}
    /\ manifest = [r \in Run |-> "none"]
    /\ outcome = [r \in Run |-> "none"]
    /\ stopping = NoStop
    /\ overtaken = {}
    /\ faults = 0

Fault == faults < MaxFaults /\ faults' = faults + 1

------------------------------------------------------------------------------
(* Before the try: preflight, hosts, manifest, profile *)

Begin(o) ==
    /\ phase = "idle" /\ run < MaxRun
    /\ run' = run + 1
    /\ opt' = o
    /\ phase' = "check"
    /\ todo' = IF o.skip_check THEN {} ELSE Peer
    /\ current' = NoPeer /\ registered' = {} /\ shapers' = {} /\ missed' = {}
    /\ UNCHANGED <<hosts, records, faults>>

\* What _ota_conflict_check looks for on one peer.
NoContainers(p) == containers[p] = {}
Clear(p)        == NoContainers(p) /\ qdisc[p] = NoQdisc

\* docker ps raises when it fails.  ip route get and tc run with check=False,
\* and a route without an interface is skipped: no answer reads as no shaping.
ConflictCheck(p) ==
    /\ phase = "check" /\ p \in todo
    /\ \/ /\ Clear(p)
          /\ todo' = todo \ {p}
          /\ UNCHANGED <<phase, outcome, missed, faults>>
       \/ /\ ~Clear(p)
          /\ todo' = {} /\ phase' = "idle" /\ outcome' = [outcome EXCEPT ![run] = "refused"]
          /\ UNCHANGED <<missed, faults>>
       \/ /\ NoContainers(p) /\ ~Clear(p)
          /\ Fault
          /\ todo' = todo \ {p} /\ missed' = missed \cup {p}
          /\ UNCHANGED <<phase, outcome>>
    /\ UNCHANGED <<run, opt, current, registered, shapers, hosts, manifest, stops>>

Checked ==
    /\ phase = "check" /\ todo = {}
    /\ phase' = "prepare"
    /\ UNCHANGED <<run, todo, opt, lists, hosts, records, faults>>

\* Hosts are staged, the deployment state and the manifest are written.
Prepare ==
    /\ phase = "prepare"
    /\ phase' = "resolve"
    /\ manifest' = [manifest EXCEPT ![run] = "running"]
    /\ UNCHANGED <<run, todo, opt, lists, hosts, outcome, stops, faults>>

\* The profile resolves and the try begins.  The timeline variant has every
\* shaper in the caller's list before it arms the first.
Resolve ==
    /\ phase = "resolve"
    /\ IF opt.mode = "timeline"
       THEN phase' = "arm" /\ todo' = Peer /\ shapers' = Peer
       ELSE phase' = "arm" /\ todo' = opt.shaped /\ shapers' = {}
    /\ UNCHANGED <<run, opt, current, registered, missed, hosts, records, faults>>

\* Raising or being signalled here ends the process: no finally is open.
EndsBeforeTry ==
    /\ phase \in Before
    /\ Fault
    /\ phase' = "idle" /\ todo' = {}
    /\ outcome' = [outcome EXCEPT ![run] = "aborted"]
    /\ UNCHANGED <<run, opt, lists, hosts, manifest, stops>>

------------------------------------------------------------------------------
(* ProfileShaper on one peer, under _ota_arm_profile or the timeline loop *)

\* arm begins with the clean slate.  The shaper is in the callee's list by
\* then.  Teardown swallows its own failures.
CleanSlate(p) ==
    /\ phase = "arm" /\ p \in todo
    /\ registered' = registered \cup {p}
    /\ current' = p
    /\ phase' = "guard"
    /\ \/ /\ qdisc' = [qdisc EXCEPT ![p] = NoQdisc] /\ missed' = missed \ {p}
          /\ UNCHANGED faults
       \/ Fault /\ UNCHANGED <<qdisc, missed>>
    /\ UNCHANGED <<run, todo, opt, shapers, containers, watchdogs, unguarded,
                   unreached, records>>

\* Mutant: a stale predecessor is left sleeping.
EveryWatchdog(p) == watchdogs

\* The fixed container name: a launch removes the peer's older watchdogs.
Surviving(p) == IF ContainerMode THEN {w \in watchdogs : w[1] # p} ELSE watchdogs

\* Mutant: shaping starts without a watchdog.
LaunchNothing ==
    /\ phase = "guard"
    /\ phase' = IF opt.mode = "timeline" THEN "arm" ELSE "tbf"
    /\ todo' = IF opt.mode = "timeline" THEN todo \ {current} ELSE todo
    /\ UNCHANGED <<run, opt, lists, qdisc, containers, watchdogs, unguarded,
                   unreached, records, faults>>

\* Then the detached watchdog, before any shaping.  The launcher runs with
\* check=False: a watchdog that did not start is not noticed, whether or not
\* the command got as far as removing the stale predecessor.
LaunchWatchdog ==
    /\ phase = "guard"
    /\ \/ /\ watchdogs' = Surviving(current) \cup {<<current, run>>}
          /\ unguarded' = unguarded \ {current}
          /\ UNCHANGED faults
       \/ /\ Fault
          /\ watchdogs' \in {watchdogs, Surviving(current)}
          /\ unguarded' = unguarded \cup {current}
    /\ phase' = IF opt.mode = "timeline" THEN "arm" ELSE "tbf"
    /\ todo' = IF opt.mode = "timeline" THEN todo \ {current} ELSE todo
    /\ UNCHANGED <<run, opt, lists, qdisc, containers, unreached, records>>

SetQdisc(p, whole) == qdisc' = [qdisc EXCEPT ![p] = [run |-> run, whole |-> whole]]

\* The shaping commands, one by one: a rate stage, then netem below it.
TbfStage ==
    /\ phase = "tbf"
    /\ SetQdisc(current, FALSE)
    /\ phase' = "netem"
    /\ UNCHANGED <<run, todo, opt, lists, containers, watchdogs, unguarded,
                   unreached, records, faults>>

NetemStage ==
    /\ phase = "netem"
    /\ SetQdisc(current, TRUE)
    /\ phase' = "arm"
    /\ todo' = todo \ {current}
    /\ UNCHANGED <<run, opt, lists, containers, watchdogs, unguarded,
                   unreached, records, faults>>

\* _ota_arm_profile returns: only now the caller's list is the callee's.
Armed ==
    /\ phase = "arm" /\ todo = {}
    /\ shapers' = IF opt.mode = "timeline" THEN shapers ELSE registered
    /\ phase' = "start" /\ todo' = Peer
    /\ UNCHANGED <<run, opt, current, registered, missed, hosts, records, faults>>

------------------------------------------------------------------------------
(* The rest of the try *)

\* A --stop of the present run is done with the peer, or with all of them.
StopHasPassed(p) ==
    manifest[run] = "stopped" \/ (stopping.run = run /\ p \notin stopping.todo)

\* _ota_start_peers does not look whether the run is still wanted.
StartPeer(p) ==
    /\ phase = "start" /\ p \in todo
    /\ containers' = [containers EXCEPT ![p] = @ \cup {run}]
    /\ todo' = todo \ {p}
    /\ overtaken' = IF StopHasPassed(p) THEN overtaken \cup {<<p, run>>} ELSE overtaken
    /\ UNCHANGED <<run, phase, opt, lists, qdisc, watchdogs, unguarded,
                   unreached, manifest, outcome, stopping, faults>>

Started ==
    /\ phase = "start" /\ todo = {}
    /\ phase' = "verify"
    /\ todo' = IF opt.mode = "timeline" THEN Peer ELSE {}
    /\ UNCHANGED <<run, opt, lists, hosts, records, faults>>

\* ProfileShaper.apply: a timeline step replaces the peer's tree in place.
ApplyStep(p) ==
    /\ phase = "verify" /\ p \in todo
    /\ SetQdisc(p, TRUE)
    /\ todo' = todo \ {p}
    /\ UNCHANGED <<run, phase, opt, lists, containers, watchdogs, unguarded,
                   unreached, records, faults>>

\* Verification returns, or raises with the errors it found: either way the
\* finally runs.
Verified ==
    /\ phase = "verify" /\ todo = {}
    /\ phase' = "revert" /\ todo' = shapers
    /\ UNCHANGED <<run, opt, lists, hosts, records, faults>>

\* A command raises, or SIGTERM is turned into SystemExit.
LeaveTry ==
    /\ phase \in InTry
    /\ Fault
    /\ phase' = "revert" /\ todo' = shapers
    /\ UNCHANGED <<run, opt, lists, hosts, records>>

------------------------------------------------------------------------------
(* The finally *)

\* ProfileShaper.teardown swallows a failure.
Revert(p) ==
    /\ phase = "revert" /\ p \in todo
    /\ todo' = todo \ {p}
    /\ \/ /\ qdisc' = [qdisc EXCEPT ![p] = NoQdisc]
          /\ UNCHANGED <<unreached, faults>>
       \/ /\ Fault
          /\ unreached' = unreached \cup {<<"revert", p, run>>}
          /\ UNCHANGED qdisc
    /\ UNCHANGED <<run, phase, opt, lists, containers, watchdogs, unguarded, records>>

Reverted ==
    /\ phase = "revert" /\ todo = {}
    /\ phase' = "collect"
    /\ UNCHANGED <<run, todo, opt, lists, hosts, records, faults>>

\* Logs are collected; --keep-running ends the run here.
Collect ==
    /\ phase = "collect"
    /\ IF opt.keep
       THEN phase' = "idle" /\ todo' = {} /\ outcome' = [outcome EXCEPT ![run] = "kept"]
       ELSE phase' = "stop" /\ todo' = Peer /\ UNCHANGED outcome
    /\ UNCHANGED <<run, opt, lists, hosts, manifest, stops, faults>>

\* _ota_stop_peers runs with check=False.
StopPeer(p) ==
    /\ phase = "stop" /\ p \in todo
    /\ todo' = todo \ {p}
    /\ \/ /\ containers' = [containers EXCEPT ![p] = @ \ {run}]
          /\ UNCHANGED <<unreached, faults>>
       \/ /\ Fault
          /\ unreached' = unreached \cup {<<"stop", p, run>>}
          /\ UNCHANGED containers
    /\ UNCHANGED <<run, phase, opt, lists, qdisc, watchdogs, unguarded, records>>

\* Mutant: the manifest is closed while peers are still to be stopped.
StopsAsked == phase = "stop"

StopsDone == phase = "stop" /\ todo = {}

Stopped ==
    /\ StopsDone
    /\ phase' = "idle" /\ todo' = {}
    /\ manifest' = [manifest EXCEPT ![run] = "stopped"]
    /\ outcome' = [outcome EXCEPT ![run] = "finished"]
    /\ UNCHANGED <<run, opt, lists, hosts, stops, faults>>

\* Raising in the finally, or a signal that lands in it, skips what is left.
LeaveFinally ==
    /\ phase \in Finally
    /\ Fault
    /\ phase' = "idle" /\ todo' = {}
    /\ outcome' = [outcome EXCEPT ![run] = "aborted"]
    /\ UNCHANGED <<run, opt, lists, hosts, manifest, stops>>

\* SIGKILL or a dead machine, inside the try: no finally.
Crash ==
    /\ phase \in InTry
    /\ Fault
    /\ phase' = "idle" /\ todo' = {}
    /\ outcome' = [outcome EXCEPT ![run] = "aborted"]
    /\ UNCHANGED <<run, opt, lists, hosts, manifest, stops>>

------------------------------------------------------------------------------
(* Beside the runs *)

Orchestration == <<run, phase, todo, opt, lists, qdisc, watchdogs, unguarded,
                   outcome, overtaken>>

\* ota-smoke --stop chooses among the runs whose manifest says running, those
\* of a live orchestrator included: an operator who is refused by the conflict
\* check is told to.  (Bound: one --stop at a time.)
StopCommand(r) ==
    /\ stopping = NoStop
    /\ manifest[r] = "running"
    /\ stopping' = [run |-> r, todo |-> Peer]
    /\ UNCHANGED <<Orchestration, containers, unreached, manifest, faults>>

\* The same _ota_stop_peers as in the finally.
StopCommandPeer(p) ==
    /\ p \in stopping.todo
    /\ stopping' = [stopping EXCEPT !.todo = @ \ {p}]
    /\ \/ /\ containers' = [containers EXCEPT ![p] = @ \ {stopping.run}]
          /\ UNCHANGED <<unreached, faults>>
       \/ /\ Fault
          /\ unreached' = unreached \cup {<<"stop", p, stopping.run>>}
          /\ UNCHANGED containers
    /\ UNCHANGED <<Orchestration, manifest>>

\* The manifest is closed whatever the peers answered.
StopCommandEnds ==
    /\ stopping # NoStop /\ stopping.todo = {}
    /\ manifest' = [manifest EXCEPT ![stopping.run] = "stopped"]
    /\ stopping' = NoStop
    /\ UNCHANGED <<Orchestration, containers, unreached, faults>>

\* Or the command is broken off, and the manifest stays open.
StopCommandDies ==
    /\ stopping # NoStop
    /\ Fault
    /\ stopping' = NoStop
    /\ UNCHANGED <<Orchestration, containers, unreached, manifest>>

StopBeside ==
    \/ \E r \in Run : StopCommand(r)
    \/ \E p \in Peer : StopCommandPeer(p)
    \/ StopCommandEnds \/ StopCommandDies

\* The sleep ends, after _PROFILE_SAFETY_MAX_S: a run is shorter than that, so
\* not while the run that launched it is up.
WatchdogFires(w) ==
    /\ w \in watchdogs
    /\ phase = "idle" \/ w[2] < run
    /\ watchdogs' = watchdogs \ {w}
    /\ qdisc' = [qdisc EXCEPT ![w[1]] = NoQdisc]
    /\ UNCHANGED <<run, phase, todo, opt, lists, containers, unguarded,
                   unreached, records, faults>>

Orchestrator ==
    \/ Checked \/ Prepare \/ Resolve \/ LaunchWatchdog \/ TbfStage \/ NetemStage
    \/ Armed \/ Started \/ Verified \/ Reverted \/ Collect \/ Stopped
    \/ \E p \in Peer : \/ ConflictCheck(p) \/ CleanSlate(p) \/ StartPeer(p)
                       \/ ApplyStep(p) \/ Revert(p) \/ StopPeer(p)

Next ==
    \/ \E o \in Options : Begin(o)
    \/ Orchestrator
    \/ EndsBeforeTry \/ LeaveTry \/ LeaveFinally \/ Crash
    \/ StopBeside
    \/ \E w \in watchdogs : WatchdogFires(w)

Spec == Init /\ [][Next]_vars

\* A started orchestrator goes on (or dies, which is a step of its own), and
\* every sleep ends.
Fairness ==
    /\ WF_vars(Orchestrator)
    /\ \A p \in Peer, r \in Run : WF_vars(WatchdogFires(<<p, r>>))

FairSpec == Spec /\ Fairness

------------------------------------------------------------------------------
(* Properties *)

TypeOK ==
    /\ run \in 0..MaxRun
    /\ phase \in {"idle"} \cup Before \cup InTry \cup Finally
    /\ todo \subseteq Peer
    /\ opt \in Option
    /\ current \in Peer \cup {NoPeer}
    /\ registered \subseteq Peer /\ shapers \subseteq Peer /\ missed \subseteq Peer
    /\ qdisc \in [Peer -> [run : 0..MaxRun, whole : BOOLEAN]]
    /\ containers \in [Peer -> SUBSET Run]
    /\ watchdogs \subseteq Peer \X Run
    /\ unguarded \subseteq Peer
    /\ unreached \subseteq {"revert", "stop"} \X Peer \X Run
    /\ manifest \in [Run -> {"none", "running", "stopped"}]
    /\ outcome \in [Run -> {"none", "refused", "aborted", "kept", "finished"}]
    /\ stopping \in [run : Run, todo : SUBSET Peer] \cup {NoStop}
    /\ overtaken \subseteq Peer \X Run
    /\ faults \in 0..MaxFaults

\* The promise of ProfileShaper.arm: a crash at any point still reverts the
\* interface.  No peer is ever shaped, by any run and through any sequence of
\* failures, without a watchdog asleep on it, unless its launch failed.
CrashSafe ==
    \A p \in Peer : qdisc[p] # NoQdisc =>
        p \in unguarded \/ \E r \in Run : <<p, r>> \in watchdogs

\* What a run that got past the conflict check verifies, it verifies alone on
\* its peers and under its own profile: complete on the peers the profile has
\* a direction for, unless the launch of the watchdog that replaces a stale one
\* failed, and nothing left of another run on the others, unless the check took
\* a shaped peer for clear and no arming cleaned it since.
OwnProfile(p) ==
    IF (IF opt.mode = "timeline" THEN p \notin todo ELSE p \in opt.shaped)
    THEN [run |-> run, whole |-> TRUE]
    ELSE NoQdisc

MeasuredUnderOwnProfile ==
    (phase = "verify" /\ ~opt.skip_check) =>
        \A p \in Peer : /\ containers[p] \subseteq {run}
                        /\ \/ qdisc[p] = OwnProfile(p)
                           \/ p \in unguarded
                           \/ p \in missed /\ OwnProfile(p) = NoQdisc

Ended(r) == outcome[r] \in {"kept", "finished"}

\* Once arming has returned its handles, a run whose finally goes through
\* leaves no shaping behind on a peer it could reach.
HandedOverShapingIsReverted ==
    \A p \in Peer : LET r == qdisc[p].run IN
        (r # 0 /\ r = run /\ Ended(r) /\ p \in shapers) => <<"revert", p, r>> \in unreached

\* Shaping is there while a run measures, its own and whole, and gone once the
\* run is over.
ShapingFollowsTheRun == MeasuredUnderOwnProfile /\ HandedOverShapingIsReverted

\* No container of the run is left on the peer, unless the command that should
\* have stopped it did not get there.
StoppedOn(p, r) == r \notin containers[p] \/ <<"stop", p, r>> \in unreached

\* A manifest that says stopped is true of every peer, whoever closed it and
\* whatever went on beside it, except where the run's own orchestrator started
\* the peer after a --stop had passed; and a run that finished has stopped
\* those too.
StoppedMeansStopped ==
    \A r \in Run, p \in Peer :
        /\ manifest[r] = "stopped" => StoppedOn(p, r) \/ <<p, r>> \in overtaken
        /\ outcome[r] = "finished" => StoppedOn(p, r)

\* Whoever shaped a peer and however the run ended, the shaping goes away,
\* unless the watchdog launch is what failed.
ShapingGoesAway ==
    \A p \in Peer : qdisc[p] # NoQdisc ~> (qdisc[p] = NoQdisc \/ p \in unguarded)

\* Claimed at the finally: a stuck qdisc must never outlive the run.  Even a
\* run whose finally went through, with every revert it tried done.
QdiscNeverOutlivesTheRun ==
    \A p \in Peer : LET r == qdisc[p].run IN
        (r # 0 /\ Ended(r)) => <<"revert", p, r>> \in unreached
===============================================================================
