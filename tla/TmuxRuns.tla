-------------------------------- MODULE TmuxRuns --------------------------------
(***************************************************************************)
(* Scenarios and interactive smoke runs ("rigs") beside the commands of    *)
(* the workspace: a tmux session whose panes are processes of their own    *)
(* that start the communication containers and the applications.           *)
(*                                                                         *)
(* A start opens the session and its windows one by one and goes; a stop   *)
(* finds the session by its name and takes the containers down first, the  *)
(* panes last.  tmux knows a session by name alone, so a window opens in   *)
(* whatever session bears the name by then.  A console is started          *)
(* detached: to attach only watches it.                                    *)
(***************************************************************************)
EXTENDS Workspace

CONSTANTS
    ConsoleOptions,  \* what operators may ask for of consoles, by command
    Apps,            \* the targets that are scenarios, with the peers that run an application
    LineUps,         \* bound: the kinds of commands met together, in order
    Faulty           \* bound: the kinds of commands that may raise or be killed

ConsoleOption == [kind : {"scenario", "scenario stop", "rig", "rig stop"},
                  identity : Identity \cup {None}, target : STRING \cup {None},
                  force : BOOLEAN, skip : BOOLEAN, join : {FALSE}, keep : {FALSE}]

ASSUME TmuxRunsAssumption ==
    /\ DOMAIN ConsoleOptions = Command
    /\ \A line \in LineUps : DOMAIN line = Command
    /\ \A c \in Command : \A o \in ConsoleOptions[c] :
          /\ o \in ConsoleOption
          /\ o.kind \in {"scenario", "rig"} => o.target # None
          /\ o.kind = "scenario" => o.identity # None /\ o.target \in DOMAIN Apps

VARIABLES
    apps,    \* application containers: instance, target, identity
    tmux,    \* sessions: name, and the instance in their options, None at first
    panes,   \* live panes: session, instance, target, identity, app, where they are, todo
    runs,    \* the manifests: [instance, console, stopped]
    alone    \* history: the stop that has had the workspace to itself

consoleVars == <<apps, tmux, panes, runs>>
tmuxVars    == <<vars, consoleVars, alone>>

Kind(c)   == cmd[c].opt.kind
Target(c) == cmd[c].opt.target
OfRig(c)  == Kind(c) \in {"rig", "rig stop"}
IsStop(c) == Kind(c) \in {"scenario stop", "rig stop"}
Console(c) == IF OfRig(c) THEN <<"rig", Target(c)>> ELSE <<Target(c), cmd[c].opt.identity>>

AppPeers(c) == IF Target(c) \in DOMAIN Apps THEN Apps[Target(c)] ELSE {}

Peers(c) == IF OfRig(c) THEN Identity ELSE {cmd[c].opt.identity}

TmuxInit ==
    /\ Init
    /\ apps = {} /\ tmux = {} /\ panes = {} /\ runs = {} /\ alone = {}

Open(name) == \E s \in tmux : s.name = name

\* A container of the instance, or of any.
Matches(inst, x) == inst \in {None, x.inst}

------------------------------------------------------------------------------
(* Issuing *)

Met(c, o) == \E line \in LineUps : /\ line[c] = o.kind
                                   /\ \A d \in Command : d < c => line[d] = Kind(d)

IssueConsole(c, o) ==
    /\ In(c, "idle")
    /\ \A d \in Command : d < c => ~In(d, "idle")
    /\ cmd' = [cmd EXCEPT ![c] = [NotIssued EXCEPT
                  !.phase = "look", !.opt = o, !.identity = o.identity,
                  !.inst = IF o.kind \in {"scenario", "rig"} THEN c ELSE None]]
    /\ alone' = IF o.kind \in {"scenario", "rig"} THEN {} ELSE {c}
    /\ UNCHANGED <<containers, networks, faults, consoleVars>>

\* start_scenario: a session of that name is replaced, with --force.
LookForScenario(c) ==
    /\ In(c, "look") /\ Kind(c) = "scenario"
    /\ IF ~Open(Console(c)) THEN Goto(c, "record")
       ELSE IF cmd[c].opt.force
       THEN cmd' = [cmd EXCEPT ![c].phase = "apps", ![c].todo = Peers(c), ![c].inst = None]
       ELSE Goto(c, "refused")
    /\ UNCHANGED <<containers, networks, faults, consoleVars>>

\* _start_interactive_smoke: a session of that name is left as it is.
LookForRig(c) ==
    /\ In(c, "look") /\ Kind(c) = "rig"
    /\ Goto(c, IF Open(Console(c)) THEN "done" ELSE "guard")
    /\ UNCHANGED <<containers, networks, faults, consoleVars>>

RigGuard(c) == OfRig(c) /\ Guard(c) /\ UNCHANGED consoleVars

RigNetwork(c) ==
    /\ In(c, "network") /\ OfRig(c)
    /\ networks' = networks \cup {[inst |-> c, target |-> Target(c)]}
    /\ Goto(c, "record")
    /\ UNCHANGED <<containers, faults, consoleVars>>

\* What a stop without all its selectors chooses from.  A scenario is known by
\* the name of its session too, a rig by the options of the session alone.
ActiveScenarios(c) ==
    {s.name : s \in {r \in tmux : /\ r.name[1] # "rig"
                                  /\ Target(c) \in {None, r.name[1]}
                                  /\ cmd[c].opt.identity \in {None, r.name[2]}}}

ActiveRigs(c) ==
    {s \in tmux : s.name[1] = "rig" /\ s.tag # None /\ Target(c) \in {None, s.name[2]}}

ComNames(inst, peers) ==
    {NameOf(x) : x \in {y \in containers : Matches(inst, y) /\ y.identity \in peers}}

\* Mutant: the bridges are looked up by peer though the run is known.
BridgesOfPeers(inst) == ComNames(None, Identity)

\* The bridges of a rig: by name when the run is known, else every instance's.
Bridges(inst) == IF inst # None THEN {inst} \X Identity ELSE ComNames(None, Identity)

\* stop_scenario: what bears the names, when both are given.
FindScenario(c) ==
    /\ In(c, "look") /\ Kind(c) = "scenario stop"
    /\ LET found == IF None \in {Target(c), cmd[c].opt.identity} THEN ActiveScenarios(c)
                    ELSE {Console(c)}
       IN  IF Cardinality(found) = 1
           THEN \E name \in found :
                   cmd' = [cmd EXCEPT ![c].opt.target = name[1], ![c].opt.identity = name[2],
                                      ![c].todo = {name[2]}, ![c].phase = "apps"]
           ELSE Goto(c, "refused")
    /\ UNCHANGED <<containers, networks, faults, consoleVars>>

\* _stop_interactive_smoke: the run of the one active rig; without one, or
\* with several, a target that was given and no run.
FindRig(c) ==
    /\ In(c, "look") /\ Kind(c) = "rig stop"
    /\ LET found == ActiveRigs(c)
           take(inst, target) ==
               cmd' = [cmd EXCEPT ![c].inst = inst, ![c].opt.target = target, ![c].todo = Identity,
                                  ![c].returned = Bridges(inst), ![c].phase = "apps"]
       IN  IF Cardinality(found) = 1 THEN \E s \in found : take(s.tag, s.name[2])
           ELSE IF Target(c) # None THEN take(None, Target(c))
           ELSE Goto(c, "refused")
    /\ UNCHANGED <<containers, networks, faults, consoleVars>>

------------------------------------------------------------------------------
(* Taking a console down, for a stop and for a scenario that is replaced *)

\* _stop_scenario_application, by peer.
StopApp(c) ==
    /\ In(c, "apps")
    /\ \E p \in cmd[c].todo :  \* a peer without one has nothing to stop
          /\ apps' = {x \in apps : ~(/\ x.target = Target(c) /\ x.identity = p
                                     /\ Matches(cmd[c].inst, x))}
          /\ cmd' = [cmd EXCEPT ![c].todo = @ \ {p}]
    /\ UNCHANGED <<containers, networks, faults, tmux, panes, runs>>

\* A scenario lists the communication containers of its peer only now, those
\* of every instance and network.
ListComs(c) ==
    /\ In(c, "apps") /\ cmd[c].todo = {}
    /\ LET names == IF OfRig(c) THEN cmd[c].returned ELSE ComNames(None, Peers(c))
       IN  cmd' = [cmd EXCEPT ![c].phase = "coms", ![c].todo = names,
                              ![c].saw = {x \in containers : NameOf(x) \in names}]
    /\ UNCHANGED <<containers, networks, faults, consoleVars>>

StopCom(c) ==
    /\ In(c, "coms")
    /\ \E name \in cmd[c].todo :
          /\ containers' = Stop(name)
          /\ cmd' = [cmd EXCEPT ![c].todo = @ \ {name}]
    /\ UNCHANGED <<networks, faults, consoleVars>>

\* kill-session hangs up the panes: what was not run yet is not run, what is
\* attached to a pane may go with it.
KillSession(c) ==
    /\ In(c, "coms") /\ cmd[c].todo = {}
    /\ LET hung == {p \in panes : p.session = Console(c)}
       IN  /\ \E gone \in SUBSET {p \in hung : p.at = "up"} :
                 /\ containers' = {x \in containers : \A p \in gone : p.app \/ NameOf(x) # NameOf(p)}
                 /\ apps' = {x \in apps : \A p \in gone : p.app => NameOf(x) # NameOf(p)}
           /\ panes' = panes \ hung
    /\ tmux' = {s \in tmux : s.name # Console(c)}
    /\ IF Kind(c) = "scenario"
       THEN cmd' = [cmd EXCEPT ![c].phase = "record", ![c].inst = c]
       ELSE Goto(c, IF OfRig(c) THEN "unnet" ELSE "mark")
    /\ UNCHANGED <<networks, faults, runs>>

\* Mutant: without a run there is no network to remove.
RemoveKnownNetwork(c) ==
    /\ In(c, "unnet")
    /\ networks' = {n \in networks : n.inst = cmd[c].inst => \E x \in containers : x.net = n.inst}
    /\ Goto(c, "mark")
    /\ UNCHANGED <<containers, faults, consoleVars>>

\* _remove_smoke_network: the run's, or every one with the target's label;
\* docker keeps those a container is attached to.
RemoveNetworks(c) ==
    /\ In(c, "unnet")
    /\ networks' = {n \in networks :
                      (IF cmd[c].inst # None THEN n.inst = cmd[c].inst ELSE n.target = Target(c))
                         => \E x \in containers : x.net = n.inst}
    /\ Goto(c, "mark")
    /\ UNCHANGED <<containers, faults, consoleVars>>

\* The manifests that name the console, the latest of them (a later command
\* has a later date).
Latest(c) ==
    LET named == {r \in runs : r.console = Console(c) /\ Matches(cmd[c].inst, r)}
    IN  {r \in named : \A q \in named : q.inst <= r.inst}

MarkStopped(c) ==
    /\ In(c, "mark")
    /\ runs' = (runs \ Latest(c)) \cup {[r EXCEPT !.stopped = TRUE] : r \in Latest(c)}
    /\ Goto(c, "done")
    /\ UNCHANGED <<containers, networks, faults, apps, tmux, panes>>

------------------------------------------------------------------------------
(* Opening a console *)

Pane(c, p, app, at) == [session |-> Console(c), inst |-> c, target |-> Target(c),
                        identity |-> p, app |-> app, at |-> at, todo |-> {}]

\* A scenario's own bridge, and a window for its application.
ScenarioPane(c)    == Pane(c, cmd[c].opt.identity, FALSE, "list")
ScenarioWindows(c) == {Pane(c, p, TRUE, "run") : p \in Peers(c) \cap AppPeers(c)}

\* A rig's bridges of both peers, then the applications.
RigPane(c)    == Pane(c, FirstPeer, FALSE, "run")
RigWindows(c) == {Pane(c, p, FALSE, "spec") : p \in Identity \ {FirstPeer}} \cup
                 {Pane(c, p, TRUE, "spec") : p \in AppPeers(c)}

RecordRun(c) ==
    /\ In(c, "record")
    /\ runs' = runs \cup {[inst |-> c, console |-> Console(c), stopped |-> FALSE]}
    /\ Goto(c, "open")
    /\ UNCHANGED <<containers, networks, faults, apps, tmux, panes>>

\* new-session with the first communication pane; tmux refuses a second
\* session of the name.
OpenSession(c) ==
    /\ In(c, "open")
    /\ IF Open(Console(c))
       THEN Goto(c, "failed") /\ UNCHANGED <<tmux, panes>>
       ELSE /\ tmux' = tmux \cup {[name |-> Console(c), tag |-> None]}
            /\ panes' = panes \cup {IF OfRig(c) THEN RigPane(c) ELSE ScenarioPane(c)}
            /\ Goto(c, "tag")
    /\ UNCHANGED <<containers, networks, faults, apps, runs>>

\* set-option: target, instance and network of the run.
TagSession(c) ==
    /\ In(c, "tag") /\ Open(Console(c))
    /\ tmux' = {IF s.name = Console(c) THEN [s EXCEPT !.tag = c] ELSE s : s \in tmux}
    /\ cmd' = [cmd EXCEPT ![c].phase = "windows",
                          ![c].todo  = IF OfRig(c) THEN RigWindows(c) ELSE ScenarioWindows(c)]
    /\ UNCHANGED <<containers, networks, faults, apps, panes, runs>>

\* new-window: the other communication panes, then the applications.
NewWindow(c) ==
    /\ In(c, "windows") /\ Open(Console(c))
    /\ \E p \in cmd[c].todo :
          /\ p.app => \A q \in cmd[c].todo : q.app
          /\ panes' = panes \cup {p}
          /\ cmd' = [cmd EXCEPT ![c].todo = @ \ {p}]
    /\ UNCHANGED <<containers, networks, faults, apps, tmux, runs>>

\* tmux fails: somebody killed the session meanwhile.
NoSession(c) ==
    /\ In(c, "tag") \/ In(c, "windows")
    /\ ~Open(Console(c))
    /\ Goto(c, "failed")
    /\ UNCHANGED <<containers, networks, faults, consoleVars>>

\* select-window; a rig is started, a scenario waits until its bridge is ready.
Opened(c) ==
    /\ In(c, "windows") /\ cmd[c].todo = {} /\ Open(Console(c))
    /\ Goto(c, IF OfRig(c) THEN "done" ELSE "ready")
    /\ UNCHANGED <<containers, networks, faults, consoleVars>>

BridgeUp(inst, p) == \E x \in containers : NameOf(x) = <<inst, p>>

\* Within 600 s, or a timeout.
ScenarioReady(c) ==
    /\ In(c, "ready")
    /\ Goto(c, IF BridgeUp(c, cmd[c].opt.identity) THEN "done" ELSE "failed")
    /\ UNCHANGED <<containers, networks, faults, consoleVars>>

------------------------------------------------------------------------------
(* The panes *)

Move(p, q) == panes' = (panes \ {p}) \cup {q}

\* rosotacom start of a scenario's bridge: the conflicts of its peer, any
\* instance; it was given --force or --no-force with the scenario.
PaneList(p) ==
    /\ p.at = "list"
    /\ LET found == ComNames(None, {p.identity}) \ {NameOf(p)}
       IN  IF found # {} /\ ~cmd[p.inst].opt.force
           THEN panes' = panes \ {p}
           ELSE Move(p, [p EXCEPT !.at = "run", !.todo = found])
    /\ UNCHANGED <<containers, apps>>

PaneStopConflict(p) ==
    /\ p.at = "run"
    /\ \E name \in p.todo :
          /\ containers' = Stop(name)
          /\ Move(p, [p EXCEPT !.todo = @ \ {name}])
    /\ UNCHANGED apps

\* Build and docker run of the bridge, attached to the pane.  A network that
\* is gone fails it.
PaneRun(p) ==
    /\ p.at = "run" /\ ~p.app /\ p.todo = {}
    /\ LET rig == p.session[1] = "rig"
       IN  IF rig /\ \A n \in networks : n.inst # p.inst
           THEN panes' = panes \ {p} /\ UNCHANGED containers
           ELSE /\ containers' = containers \cup
                      {[inst |-> p.inst, identity |-> p.identity,
                        net |-> IF rig THEN p.inst ELSE Host, by |-> p.inst]}
                /\ Move(p, [p EXCEPT !.at = "up"])
    /\ UNCHANGED apps

\* The other panes of a rig wait for the configuration the first container
\* writes for all peers, its applications for the bridge of their peer too.
PaneWait(p) ==
    /\ p.at = "spec"
    /\ \E q \in panes : /\ q.inst = p.inst /\ q.at = "up"
                        /\ ~q.app /\ q.identity = FirstPeer
    /\ Move(p, [p EXCEPT !.at = IF p.app THEN "bridge" ELSE "run"])
    /\ UNCHANGED <<containers, apps>>

\* Up, or gone or late: the pane's shell exits.
PaneBridge(p) ==
    /\ p.at = "bridge"
    /\ IF BridgeUp(p.inst, p.identity) THEN Move(p, [p EXCEPT !.at = "run"])
       ELSE panes' = panes \ {p}
    /\ UNCHANGED <<containers, apps>>

\* run_scenario_application; in a rig in the network of the bridge.
PaneRunApp(p) ==
    /\ p.at = "run" /\ p.app
    /\ IF p.session[1] = "rig" /\ ~BridgeUp(p.inst, p.identity)
       THEN panes' = panes \ {p} /\ UNCHANGED apps
       ELSE /\ apps' = apps \cup {[inst |-> p.inst, target |-> p.target, identity |-> p.identity]}
            /\ Move(p, [p EXCEPT !.at = "up"])
    /\ UNCHANGED containers

PaneStep(p) ==
    /\ \/ PaneList(p) \/ PaneStopConflict(p) \/ PaneRun(p)
       \/ PaneWait(p) \/ PaneBridge(p) \/ PaneRunApp(p)
    /\ UNCHANGED <<networks, cmd, faults, tmux, runs>>

------------------------------------------------------------------------------
(* The workspace with its consoles *)

ConsoleStep(c) ==
    \/ LookForScenario(c) \/ LookForRig(c) \/ RigGuard(c) \/ RigNetwork(c)
    \/ FindScenario(c) \/ FindRig(c)
    \/ StopApp(c) \/ ListComs(c) \/ StopCom(c) \/ KillSession(c)
    \/ RemoveNetworks(c) \/ MarkStopped(c)
    \/ RecordRun(c) \/ OpenSession(c) \/ TagSession(c) \/ NewWindow(c) \/ NoSession(c)
    \/ Opened(c) \/ ScenarioReady(c)

\* A stop of the target may take the network from under a smoke that has no
\* container on it yet: docker run fails then.
NetworkGone(c) == /\ Kind(c) = "smoke" /\ In(c, "run")
                  /\ \A n \in networks : n.inst # cmd[c].inst

RunRefused(c) ==
    /\ NetworkGone(c)
    /\ AfterRaise(c)
    /\ UNCHANGED <<containers, networks, faults>>

\* A step of a process; a stop that has the workspace to itself still has it.
CommandStep(c) ==
    /\ \/ /\ Kind(c) \in {"start", "stop", "smoke"}
          /\ IF NetworkGone(c) THEN RunRefused(c) ELSE Step(c)
          /\ UNCHANGED consoleVars
       \/ ConsoleStep(c)
    /\ alone' = alone \cap {c}

Trouble(c) ==
    /\ Kind(c) \in Faulty
    /\ Raise(c) \/ Kill(c)
    /\ alone' = alone \cap {c}
    /\ UNCHANGED consoleVars

TmuxNext ==
    \/ \E c \in Command :
          \/ \E o \in Options[c] :
                Met(c, o) /\ Issue(c, o) /\ alone' = {} /\ UNCHANGED consoleVars
          \/ \E o \in ConsoleOptions[c] : Met(c, o) /\ IssueConsole(c, o)
          \/ CommandStep(c) \/ Trouble(c)
    \/ \E p \in panes : PaneStep(p) /\ alone' = {}

TmuxSpec == TmuxInit /\ [][TmuxNext]_tmuxVars

------------------------------------------------------------------------------
(* Properties *)

\* No command waits for what may never come: whoever stops its containers,
\* takes its network or kills its session, it has a step of its own to take.
\* Every step moves a phase on or empties a set, so every command ends.
NobodyIsStuck ==
    \A c \in Command : Running(c) => ENABLED <<CommandStep(c)>>_tmuxVars

\* "scenario stop owns cleanup" and "smoke --stop": a stop that had the
\* workspace to itself leaves no session or pane of its console.  A scenario's
\* leaves no bridge and no application of its peer, those of crashed runs
\* included.  A rig's that found the run by its options leaves nothing of that
\* run and marks it; without a run it leaves nothing of the target at all.
StopCleansUp ==
    \A c \in alone : In(c, "done") =>
        /\ ~Open(Console(c))
        /\ \A p \in panes : p.session # Console(c)
        /\ \A x \in containers : x.identity \in Peers(c) => ~Matches(cmd[c].inst, x)
        /\ \A x \in apps : ~(/\ x.target = Target(c) /\ x.identity \in Peers(c)
                             /\ Matches(cmd[c].inst, x))
        /\ OfRig(c) => \A n \in networks : n.inst # cmd[c].inst
                          /\ (cmd[c].inst = None => n.target # Target(c))
        /\ OfRig(c) /\ cmd[c].inst # None =>
              \A r \in runs : r.inst = cmd[c].inst => r.stopped

\* "One run can never stop another run's containers by accident": starting a
\* rig stops nothing, and stopping one stops the containers of the run it
\* found, and those attached to the session it kills; only a stop that found
\* no run takes every instance.
RigsStayApart ==
    [][\A c \in Command : cmd'[c] # cmd[c] /\ OfRig(c) =>
          \A x \in (containers \ containers') \cup (apps \ apps') :
             \/ Kind(c) = "rig stop" /\ Matches(cmd[c].inst, x)
             \/ \E p \in panes \ panes' : NameOf(p) = NameOf(x)]_tmuxVars
================================================================================
