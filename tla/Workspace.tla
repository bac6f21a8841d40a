------------------------------- MODULE Workspace -------------------------------
(***************************************************************************)
(* The commands of one workspace on one host: rosotacom start, stop and    *)
(* smoke --local, each a process of its own, over the communication        *)
(* containers and the smoke networks docker keeps for all of them.         *)
(*                                                                         *)
(* Nothing is locked.  A command lists what runs, decides, and acts later; *)
(* the image build alone puts minutes in between.  Stopping a container    *)
(* removes it.  A fresh instance is named after the command that opens it. *)
(***************************************************************************)
EXTENDS Integers, FiniteSets

CONSTANTS
    Identity,    \* the two peers of every session and smoke
    Command,     \* bound: the commands, numbered as they are issued
    Options,     \* what operators may ask for, by command
    MaxFaults,   \* bound: steps that raise, and processes killed
    Host,        \* the host's network
    None

\* --force, --skip-conflict-check, --instance-id of an earlier start (a smoke
\* opens its own), --keep-running; stop without an identity means every one.
Option == [kind : {"start", "stop", "smoke"}, identity : Identity \cup {None},
           target : {"t1", "t2"}, force : BOOLEAN, skip : BOOLEAN,
           join : BOOLEAN, keep : BOOLEAN]

ASSUME WorkspaceAssumption ==
    /\ Options \in [Command -> SUBSET Option]
    /\ \A c \in Command : \A o \in Options[c] :
          /\ o.kind = "start" => o.identity # None
          /\ o.join => o.kind = "start"
    /\ Identity # {}
    /\ Command \subseteq Nat
    /\ MaxFaults \in Nat
    /\ Host \notin Command
    /\ None \notin Identity \cup Command

Ended  == {"done", "refused", "failed", "killed"}
InTry  == {"network", "run", "wait", "verify"}
Phase  == {"idle", "list", "conflicts", "own", "guard", "cleanup", "remove"} \cup InTry \cup Ended

\* by: the command whose docker run made it.
Container == [inst : Command, identity : Identity, net : Command \cup {Host}, by : Command]
Name      == Command \X Identity

VARIABLES
    containers,  \* communication containers docker knows
    networks,    \* smoke networks, labelled with their target
    cmd,         \* the commands
    faults

vars == <<containers, networks, cmd, faults>>

NoOption == [kind |-> "stop", identity |-> None, target |-> "t1", force |-> FALSE,
             skip |-> FALSE, join |-> FALSE, keep |-> FALSE]

NotIssued == [phase |-> "idle", opt |-> NoOption,
              identity |-> None,    \* whose container is being started
              inst     |-> None,
              todo     |-> {},      \* names still to stop
              returned |-> {},      \* names whose start_session returned
              saw      |-> {}]      \* history: what was in the way at the check

Init ==
    /\ containers = {}
    /\ networks = {}
    /\ cmd = [c \in Command |-> NotIssued]
    /\ faults = 0

NameOf(x) == <<x.inst, x.identity>>

\* _stop_container_name: whoever bears the name by now.
Stop(name) == {x \in containers : NameOf(x) # name}

In(c, phase) == cmd[c].phase = phase

Goto(c, phase) == cmd' = [cmd EXCEPT ![c].phase = phase]

Fault == faults < MaxFaults /\ faults' = faults + 1

------------------------------------------------------------------------------
(* Issuing a command *)

\* A start joins the instance of another start, or opens its own.
Issue(c, o) ==
    /\ In(c, "idle")
    /\ \A d \in Command : d < c => ~In(d, "idle")
    /\ \E inst \in IF o.join
                   THEN {cmd[d].inst : d \in {e \in Command : cmd[e].opt.kind = "start" /\ e < c}}
                   ELSE {c} :
          cmd' = [cmd EXCEPT ![c] =
                     [phase |-> IF o.kind = "smoke" THEN "guard" ELSE "list", opt |-> o,
                      identity |-> o.identity, inst |-> inst,
                      todo |-> {}, returned |-> {}, saw |-> {}]]
    /\ UNCHANGED <<containers, networks, faults>>

------------------------------------------------------------------------------
(* rosotacom start *)

\* _matching_com_containers, any instance and any network, without the
\* command's own name.
Conflicts(c) == {x \in containers : /\ x.identity = cmd[c].identity
                                    /\ NameOf(x) # <<cmd[c].inst, cmd[c].identity>>}

ListConflicts(c) ==
    /\ In(c, "list") /\ cmd[c].opt.kind = "start"
    /\ LET found == IF cmd[c].opt.skip THEN {} ELSE Conflicts(c)
       IN  cmd' = [cmd EXCEPT ![c].saw   = found,
                              ![c].todo  = {NameOf(x) : x \in found},
                              ![c].phase = IF found = {} THEN "own"
                                           ELSE IF cmd[c].opt.force THEN "conflicts"
                                           ELSE "refused"]
    /\ UNCHANGED <<containers, networks, faults>>

\* Mutant: the loop ends with its first container.
StopFirst(c) ==
    /\ In(c, "conflicts")
    /\ \E name \in cmd[c].todo :
          /\ containers' = Stop(name)
          /\ cmd' = [cmd EXCEPT ![c].todo = {}, ![c].phase = "own"]
    /\ UNCHANGED <<networks, faults>>

StopConflict(c) ==
    /\ In(c, "conflicts")
    /\ \E name \in cmd[c].todo :
          /\ containers' = Stop(name)
          /\ cmd' = [cmd EXCEPT ![c].todo  = @ \ {name},
                                ![c].phase = IF cmd[c].todo = {name} THEN "own" ELSE @]
    /\ UNCHANGED <<networks, faults>>

\* --force replaces a container of the same name too: an instance rejoined.
StopOwn(c) ==
    /\ In(c, "own")
    /\ containers' = IF cmd[c].opt.force THEN Stop(<<cmd[c].inst, cmd[c].identity>>)
                     ELSE containers
    /\ Goto(c, "run")
    /\ UNCHANGED <<networks, faults>>

------------------------------------------------------------------------------
(* rosotacom smoke --local *)

\* Mutant: the attached containers are looked up on the command's own network.
OnOwnNetwork(c) == {x \in containers : x.net = cmd[c].inst}

\* Containers on the networks with the target's label.
OnTargetNetworks(c) ==
    {x \in containers : \E n \in networks : n.target = cmd[c].opt.target /\ x.net = n.inst}

\* What the guard is about: smoke runs of the target that are up.
SmokeContainers(target) ==
    {x \in containers : x.net # Host /\ cmd[x.by].opt.target = target}

Guard(c) ==
    /\ In(c, "guard")
    /\ cmd' = [cmd EXCEPT ![c].saw   = IF cmd[c].opt.skip THEN {}
                                       ELSE SmokeContainers(cmd[c].opt.target),
                          ![c].phase = IF ~cmd[c].opt.skip /\ OnTargetNetworks(c) # {}
                                       THEN "refused" ELSE "network"]
    /\ UNCHANGED <<containers, networks, faults>>

FirstPeer == CHOOSE p \in Identity : TRUE

\* _ensure_smoke_network; then start_session for the first peer, isolated, so
\* without the conflict check, and without --force.
EnsureNetwork(c) ==
    /\ In(c, "network")
    /\ networks' = networks \cup {[inst |-> cmd[c].inst, target |-> cmd[c].opt.target]}
    /\ cmd' = [cmd EXCEPT ![c].identity = FirstPeer, ![c].phase = "run"]
    /\ UNCHANGED <<containers, faults>>

------------------------------------------------------------------------------
(* start_session, for a start and for each peer of a smoke *)

\* Image build and docker run; a name that exists is rejoined.
RunContainer(c) ==
    /\ In(c, "run")
    /\ LET new == [inst |-> cmd[c].inst, identity |-> cmd[c].identity,
                   net  |-> IF cmd[c].opt.kind = "smoke" THEN cmd[c].inst ELSE Host,
                   by   |-> c]
       IN  containers' = IF \E x \in containers : NameOf(x) = NameOf(new)
                         THEN containers ELSE containers \cup {new}
    /\ Goto(c, "wait")
    /\ UNCHANGED <<networks, faults>>

Up(c) == \E x \in containers : NameOf(x) = <<cmd[c].inst, cmd[c].identity>>

\* _wait_for_container_ready, and start_session returns.
Ready(c) ==
    /\ In(c, "wait") /\ Up(c)
    /\ LET returned == cmd[c].returned \cup {<<cmd[c].inst, cmd[c].identity>>}
           rest     == {p \in Identity : <<cmd[c].inst, p>> \notin returned}
       IN  cmd' = [cmd EXCEPT
                      ![c].returned = returned,
                      ![c].phase    = IF cmd[c].opt.kind = "start" THEN "done"
                                      ELSE IF rest = {} THEN "verify" ELSE "run",
                      ![c].identity = IF cmd[c].opt.kind = "start" \/ rest = {} THEN @
                                      ELSE CHOOSE p \in rest : TRUE]
    /\ UNCHANGED <<containers, networks, faults>>

\* Mutant: only a smoke with both peers up is cleaned up after.
CleanupCompleteOnly(c) ==
    IF cmd[c].opt.kind = "smoke" /\ cmd[c].phase \in InTry
    THEN cmd' = [cmd EXCEPT ![c].phase = "cleanup",
                            ![c].todo  = IF cmd[c].opt.keep \/ cmd[c].phase # "verify"
                                         THEN {} ELSE cmd[c].returned]
    ELSE Goto(c, "failed")

\* What follows an exception: a smoke has a finally, the others end.
AfterRaise(c) ==
    IF cmd[c].opt.kind = "smoke" /\ cmd[c].phase \in InTry
    THEN cmd' = [cmd EXCEPT ![c].phase = "cleanup",
                            ![c].todo  = IF cmd[c].opt.keep THEN {} ELSE cmd[c].returned]
    ELSE Goto(c, "failed")

\* Mutant: without the deadline a wait for a container that is gone goes on.
NeverReadyWaits(c) ==
    /\ In(c, "wait") /\ ~Up(c)
    /\ UNCHANGED vars

\* The container is gone before it was ready: somebody stopped it, and the
\* deadline of the wait ends it.
NeverReady(c) ==
    /\ In(c, "wait") /\ ~Up(c)
    /\ AfterRaise(c)
    /\ UNCHANGED <<containers, networks, faults>>

------------------------------------------------------------------------------
(* The rest of smoke, and stop *)

\* Verification returns or raises: the finally follows.
Verified(c) ==
    /\ In(c, "verify")
    /\ AfterRaise(c)
    /\ UNCHANGED <<containers, networks, faults>>

\* stop lists every container of its identities, any network.
ListToStop(c) ==
    /\ In(c, "list") /\ cmd[c].opt.kind = "stop"
    /\ LET found == {x \in containers : cmd[c].identity \in {None, x.identity}}
       IN  cmd' = [cmd EXCEPT ![c].saw   = found,
                              ![c].todo  = {NameOf(x) : x \in found},
                              ![c].phase = "cleanup"]
    /\ UNCHANGED <<containers, networks, faults>>

\* Mutant: the finally stops by what it knows of the peers, any instance.
CleanupByIdentity(c) ==
    /\ In(c, "cleanup")
    /\ \E name \in cmd[c].todo :
          /\ containers' = {x \in containers : x.identity # name[2]}
          /\ cmd' = [cmd EXCEPT ![c].todo = @ \ {name}]
    /\ UNCHANGED <<networks, faults>>

Cleanup(c) ==
    /\ In(c, "cleanup")
    /\ \E name \in cmd[c].todo :
          /\ containers' = Stop(name)
          /\ cmd' = [cmd EXCEPT ![c].todo = @ \ {name}]
    /\ UNCHANGED <<networks, faults>>

Cleaned(c) ==
    /\ In(c, "cleanup") /\ cmd[c].todo = {}
    /\ Goto(c, IF cmd[c].opt.kind = "smoke" /\ ~cmd[c].opt.keep THEN "remove" ELSE "done")
    /\ UNCHANGED <<containers, networks, faults>>

\* _remove_smoke_network: docker refuses while a container is attached, and
\* nobody looks at the answer.
RemoveNetwork(c) ==
    /\ In(c, "remove")
    /\ networks' = {n \in networks : n.inst = cmd[c].inst => \E x \in containers : x.net = n.inst}
    /\ Goto(c, "done")
    /\ UNCHANGED <<containers, faults>>

------------------------------------------------------------------------------
(* Trouble *)

Running(c) == cmd[c].phase \notin Ended \cup {"idle"}

\* Any call may raise (a build, docker, the readiness timeout), Ctrl-C too.
Raise(c) ==
    /\ Running(c) /\ Fault
    /\ AfterRaise(c)
    /\ UNCHANGED <<containers, networks>>

\* SIGKILL, or SIGTERM, which these commands do not catch.
Kill(c) ==
    /\ Running(c) /\ Fault
    /\ Goto(c, "killed")
    /\ UNCHANGED <<containers, networks>>

Step(c) ==
    \/ ListConflicts(c) \/ StopConflict(c) \/ StopOwn(c)
    \/ Guard(c) \/ EnsureNetwork(c)
    \/ RunContainer(c) \/ Ready(c) \/ NeverReady(c)
    \/ Verified(c) \/ ListToStop(c) \/ Cleanup(c) \/ Cleaned(c) \/ RemoveNetwork(c)

Next == \E c \in Command :
    \/ \E o \in Options[c] : Issue(c, o)
    \/ Step(c) \/ Raise(c) \/ Kill(c)

Spec == Init /\ [][Next]_vars

------------------------------------------------------------------------------
(* Properties *)

TypeOK ==
    /\ containers \subseteq Container
    /\ networks \subseteq [inst : Command, target : {"t1", "t2"}]
    /\ cmd \in [Command -> [phase : Phase, opt : Option \cup {NoOption},
                            identity : Identity \cup {None}, inst : Command \cup {None},
                            todo : SUBSET Name, returned : SUBSET Name,
                            saw : SUBSET Container]]
    /\ faults \in 0..MaxFaults

\* What was in a command's way when it looked is gone once it goes on: a start
\* never runs beside a session of its identity that was up when it checked (it
\* stops them all, or gives up), a smoke never beside a smoke of its target that
\* was up, left behind by a failed run or not, and a stop that is done left none
\* of what it found.  Whatever other commands do in between.
NothingSeenSurvives ==
    \A c \in Command :
        \/ cmd[c].phase \in {"own", "network", "run", "wait", "verify", "remove", "done"}
        \/ cmd[c].phase = "cleanup" /\ cmd[c].opt.kind = "smoke"
        => cmd[c].saw \cap containers = {}

\* "A parallel run's containers must never be stopped from here": a smoke
\* stops only what its own docker run made, however it fails.
SmokeStopsOnlyItsOwn ==
    [][\A c \in Command :
          cmd'[c] # cmd[c] /\ cmd[c].opt.kind = "smoke"
             => \A x \in containers \ containers' : x.by = c]_vars

\* A smoke whose finally got through leaves no container whose start returned;
\* when both peers had started it leaves nothing at all, its network neither,
\* though docker removes that only once every container is off it.
SmokeCleansUp ==
    \A c \in Command :
        In(c, "done") /\ cmd[c].opt.kind = "smoke" /\ ~cmd[c].opt.keep =>
            /\ \A x \in containers : NameOf(x) \notin cmd[c].returned
            /\ cmd[c].returned = {c} \X Identity =>
                  /\ \A x \in containers : x.by # c
                  /\ \A n \in networks : n.inst # c
================================================================================
