----------------------------- MODULE OtaRun_proofs -----------------------------
(***************************************************************************)
(* Proofs about OtaRun: for any set of peers, any number of runs and       *)
(* faults, and any options.                                                *)
(***************************************************************************)
EXTENDS OtaRun, TLAPS

USE OtaRunAssumption

------------------------------------------------------------------------------
(* Type correctness *)

\* A busy orchestrator has a run, and a shaper being armed has a peer.
Busy ==
    /\ phase # "idle" => run \in Run
    /\ phase \in {"guard", "tbf", "netem"} => current \in Peer

\* One host's state replaced.
LEMMA QdiscUpdates ==
    ASSUME qdisc \in [Peer -> [run : 0..MaxRun, whole : BOOLEAN]], NEW p \in Peer
    PROVE  /\ [qdisc EXCEPT ![p] = NoQdisc] \in [Peer -> [run : 0..MaxRun, whole : BOOLEAN]]
           /\ \A whole \in BOOLEAN : run \in Run =>
                  [qdisc EXCEPT ![p] = [run |-> run, whole |-> whole]]
                      \in [Peer -> [run : 0..MaxRun, whole : BOOLEAN]]
BY DEF NoQdisc, Run

LEMMA ContainersUpdates ==
    ASSUME containers \in [Peer -> SUBSET Run], NEW p \in Peer
    PROVE  \A r \in Run : [containers EXCEPT ![p] = @ \ {r}] \in [Peer -> SUBSET Run]
OBVIOUS

\* A --stop touches nothing of the orchestrators and of the shaping, takes
\* containers away and counts whom it did not reach.
LEMMA StopIsApart ==
    ASSUME TypeOK, StopBeside
    PROVE  /\ UNCHANGED <<run, phase, todo, opt, current, registered, shapers, missed, qdisc,
                          watchdogs, unguarded, outcome, overtaken>>
           /\ unreached \subseteq unreached'
           /\ \A p \in Peer : containers'[p] \subseteq containers[p]
<1>1. containers \in [Peer -> SUBSET Run]
  BY DEF TypeOK
<1>2. CASE (\E r \in Run : StopCommand(r)) \/ StopCommandEnds \/ StopCommandDies
  BY <1>2 DEF StopCommand, StopCommandEnds, StopCommandDies, Orchestration, lists
<1>3. CASE \E p \in Peer : StopCommandPeer(p)
  BY <1>1, <1>3 DEF StopCommandPeer, Orchestration, lists
<1> QED
  BY <1>2, <1>3 DEF StopBeside

LEMMA TypeInductive == Spec => [](TypeOK /\ Busy)
<1> USE DEF Run, Before, InTry, Finally, Option, hosts, records, lists, stops, Fault, NoStop
<1>1. Init => TypeOK /\ Busy
  BY DEF Init, TypeOK, Busy, NoQdisc
<1>2. TypeOK /\ Busy /\ [Next]_vars => (TypeOK /\ Busy)'
  <2> SUFFICES ASSUME TypeOK, Busy, [Next]_vars PROVE (TypeOK /\ Busy)'
    OBVIOUS
  <2> USE DEF TypeOK, Busy
  <2>1. ASSUME NEW o \in Options, Begin(o) PROVE (TypeOK /\ Busy)'
    BY <2>1 DEF Begin
  <2>2. ASSUME NEW p \in Peer, ConflictCheck(p) PROVE (TypeOK /\ Busy)'
    <3>1. /\ phase' \in {phase, "idle"} /\ todo' \subseteq Peer /\ missed' \subseteq Peer
          /\ faults' \in 0..MaxFaults
      BY <2>2 DEF ConflictCheck
    <3>2. outcome' \in [Run -> {"none", "refused", "aborted", "kept", "finished"}]
      BY <2>2 DEF ConflictCheck
    <3>3. UNCHANGED <<run, opt, current, registered, shapers, hosts, manifest, stops>>
      BY <2>2 DEF ConflictCheck
    <3> QED
      BY <3>1, <3>2, <3>3
  <2>3. CASE Checked \/ Prepare \/ Resolve
    BY <2>3 DEF Checked, Prepare, Resolve
  <2>4. CASE EndsBeforeTry \/ LeaveTry \/ LeaveFinally \/ Crash
    BY <2>4 DEF EndsBeforeTry, LeaveTry, LeaveFinally, Crash
  <2>5. ASSUME NEW p \in Peer, CleanSlate(p) PROVE (TypeOK /\ Busy)'
    <3>1. qdisc' \in [Peer -> [run : 0..MaxRun, whole : BOOLEAN]]
      <4>1. qdisc' = qdisc \/ qdisc' = [qdisc EXCEPT ![p] = NoQdisc]
        BY <2>5 DEF CleanSlate
      <4> QED
        BY <4>1, QdiscUpdates
    <3> QED
      BY <2>5, <3>1 DEF CleanSlate
  <2>6. CASE LaunchWatchdog
    <3>1. <<current, run>> \in Peer \X Run /\ current \in Peer
      BY <2>6 DEF LaunchWatchdog
    <3>2. watchdogs' \subseteq Peer \X Run
      BY <2>6, <3>1 DEF LaunchWatchdog, Surviving
    <3>3. unguarded' \subseteq Peer /\ faults' \in 0..MaxFaults
      BY <2>6, <3>1 DEF LaunchWatchdog
    <3>4. phase' \in {"arm", "tbf"} /\ todo' \subseteq Peer
      BY <2>6 DEF LaunchWatchdog
    <3> QED
      BY <2>6, <3>1, <3>2, <3>3, <3>4 DEF LaunchWatchdog
  <2>7. CASE TbfStage \/ NetemStage
    <3>1. qdisc' \in [Peer -> [run : 0..MaxRun, whole : BOOLEAN]]
      <4>1. \E whole \in BOOLEAN :
                qdisc' = [qdisc EXCEPT ![current] = [run |-> run, whole |-> whole]]
        BY <2>7 DEF TbfStage, NetemStage, SetQdisc
      <4>2. run \in Run /\ current \in Peer
        BY <2>7 DEF TbfStage, NetemStage
      <4> QED
        BY <4>1, <4>2, QdiscUpdates
    <3> QED
      BY <2>7, <3>1 DEF TbfStage, NetemStage
  <2>8. CASE Armed \/ Started \/ Verified \/ Reverted \/ Collect \/ Stopped
    BY <2>8 DEF Armed, Started, Verified, Reverted, Collect, Stopped, StopsDone
  <2>9. ASSUME NEW p \in Peer, StartPeer(p) PROVE (TypeOK /\ Busy)'
    BY <2>9 DEF StartPeer
  <2>10. ASSUME NEW p \in Peer, ApplyStep(p) PROVE (TypeOK /\ Busy)'
    <3>1. qdisc' \in [Peer -> [run : 0..MaxRun, whole : BOOLEAN]]
      BY <2>10 DEF ApplyStep, SetQdisc
    <3> QED
      BY <2>10, <3>1 DEF ApplyStep
  <2>11. ASSUME NEW p \in Peer, Revert(p) PROVE (TypeOK /\ Busy)'
    <3>1. qdisc' \in [Peer -> [run : 0..MaxRun, whole : BOOLEAN]]
      <4>1. qdisc' = qdisc \/ qdisc' = [qdisc EXCEPT ![p] = NoQdisc]
        BY <2>11 DEF Revert
      <4> QED
        BY <4>1, QdiscUpdates
    <3>2. <<"revert", p, run>> \in {"revert", "stop"} \X Peer \X Run
      BY <2>11 DEF Revert
    <3>3. unreached' \subseteq {"revert", "stop"} \X Peer \X Run
      BY <2>11, <3>2 DEF Revert
    <3> QED
      BY <2>11, <3>1, <3>3 DEF Revert
  <2>12. ASSUME NEW p \in Peer, StopPeer(p) PROVE (TypeOK /\ Busy)'
    <3>1. containers' \in [Peer -> SUBSET Run]
      <4>1. containers' = containers \/ containers' = [containers EXCEPT ![p] = @ \ {run}]
        BY <2>12 DEF StopPeer
      <4>2. run \in Run /\ containers \in [Peer -> SUBSET Run]
        BY <2>12 DEF StopPeer
      <4> HIDE DEF TypeOK, Run
      <4> QED
        BY <4>1, <4>2, ContainersUpdates
    <3>2. <<"stop", p, run>> \in {"revert", "stop"} \X Peer \X Run
      BY <2>12 DEF StopPeer
    <3>3. unreached' \subseteq {"revert", "stop"} \X Peer \X Run
      BY <2>12, <3>2 DEF StopPeer
    <3> QED
      BY <2>12, <3>1, <3>3 DEF StopPeer
  <2>13. CASE StopBeside
    <3>1. CASE (\E r \in Run : StopCommand(r)) \/ StopCommandEnds \/ StopCommandDies
      BY <3>1 DEF StopCommand, StopCommandEnds, StopCommandDies, Orchestration
    <3>2. ASSUME NEW p \in Peer, StopCommandPeer(p) PROVE (TypeOK /\ Busy)'
      <4>1. stopping \in [run : Run, todo : SUBSET Peer]
        BY <3>2 DEF StopCommandPeer
      <4>2. stopping' \in [run : Run, todo : SUBSET Peer]
        BY <3>2, <4>1 DEF StopCommandPeer
      <4>3. containers' \in [Peer -> SUBSET Run]
        <5>1. \/ containers' = containers
              \/ containers' = [containers EXCEPT ![p] = @ \ {stopping.run}]
          BY <3>2 DEF StopCommandPeer
        <5>2. stopping.run \in Run /\ containers \in [Peer -> SUBSET Run]
          BY <4>1
        <5> HIDE DEF TypeOK, Run
        <5> QED
          BY <5>1, <5>2, ContainersUpdates
      <4>4. <<"stop", p, stopping.run>> \in {"revert", "stop"} \X Peer \X Run
        BY <4>1
      <4>5. unreached' \subseteq {"revert", "stop"} \X Peer \X Run
        BY <3>2, <4>4 DEF StopCommandPeer
      <4>6. faults' \in 0..MaxFaults
        BY <3>2 DEF StopCommandPeer
      <4>7. UNCHANGED <<Orchestration, manifest>>
        BY <3>2 DEF StopCommandPeer
      <4> QED
        BY <4>2, <4>3, <4>5, <4>6, <4>7 DEF Orchestration
    <3> QED
      BY <2>13, <3>1, <3>2 DEF StopBeside
  <2>14. ASSUME NEW w \in watchdogs, WatchdogFires(w) PROVE (TypeOK /\ Busy)'
    <3>1. w[1] \in Peer /\ watchdogs' \subseteq watchdogs
      BY <2>14 DEF WatchdogFires
    <3>2. qdisc' \in [Peer -> [run : 0..MaxRun, whole : BOOLEAN]]
      BY <2>14, <3>1, QdiscUpdates DEF WatchdogFires
    <3> QED
      BY <2>14, <3>1, <3>2 DEF WatchdogFires
  <2>15. CASE UNCHANGED vars
    BY <2>15 DEF vars
  <2> QED
    BY <2>1, <2>2, <2>3, <2>4, <2>5, <2>6, <2>7, <2>8, <2>9, <2>10, <2>11, <2>12,
       <2>13, <2>14, <2>15 DEF Next, Orchestrator
<1> QED
  BY <1>1, <1>2, PTL DEF Spec

\* The bookkeeping of the orchestrator and of the hosts stays well typed.
THEOREM TypeCorrect == Spec => []TypeOK
BY TypeInductive, PTL

------------------------------------------------------------------------------
(* The safety watchdogs *)

Guarded(p)      == p \in unguarded \/ \E r \in Run : <<p, r>> \in watchdogs
GuardedByRun(p) == p \in unguarded \/ <<p, run>> \in watchdogs

\* CrashSafe alone is not inductive: shaping is safe because the watchdog was
\* launched before it and cannot end while its run is up.  A static run shapes
\* a peer right after its launch; a timeline run launches on all peers first.
CrashInv ==
    /\ CrashSafe
    /\ phase \in {"tbf", "netem"} => opt.mode # "timeline" /\ GuardedByRun(current)
    /\ (opt.mode = "timeline" /\ phase \in {"arm", "guard"}) =>
           \A p \in Peer \ todo : GuardedByRun(p)
    /\ (opt.mode = "timeline" /\ phase \in {"start", "verify"}) =>
           \A p \in Peer : GuardedByRun(p)
    /\ (opt.mode = "static" /\ phase = "verify") => todo = {}

\* Every step that leaves qdiscs and watchdogs alone, by where it goes: into a
\* phase that shapes nothing, or along the loops.
LEMMA QuietSteps ==
    ASSUME TypeOK, [Next]_vars
    PROVE  \/ \E p \in Peer : CleanSlate(p) \/ ApplyStep(p) \/ Revert(p)
           \/ LaunchWatchdog \/ TbfStage \/ NetemStage
           \/ \E w \in watchdogs : WatchdogFires(w)
           \/ /\ UNCHANGED <<qdisc, watchdogs, unguarded>>
              /\ \/ phase' \notin InTry
                 \/ Resolve \/ Armed \/ Started \/ \E p \in Peer : StartPeer(p)
                 \/ UNCHANGED vars
                 \/ StopBeside
<1>1. CASE \E o \in Options : Begin(o)
  BY <1>1 DEF Begin, hosts, InTry
<1>2. CASE Orchestrator
  <2>1. CASE \/ Checked \/ Prepare \/ Verified \/ Reverted \/ Collect \/ Stopped
             \/ \E p \in Peer : ConflictCheck(p) \/ StopPeer(p)
    BY <2>1 DEF Checked, Prepare, Verified, Reverted, Collect, Stopped, StopsDone,
                ConflictCheck, StopPeer, hosts, InTry
  <2>2. CASE Resolve \/ Armed \/ Started \/ \E p \in Peer : StartPeer(p)
    BY <2>2 DEF Resolve, Armed, Started, StartPeer, hosts
  <2> QED
    BY <1>2, <2>1, <2>2 DEF Orchestrator
<1>3. CASE EndsBeforeTry \/ LeaveTry \/ LeaveFinally \/ Crash
  BY <1>3 DEF EndsBeforeTry, LeaveTry, LeaveFinally, Crash, hosts, InTry
<1>4. CASE StopBeside
  BY <1>4, StopIsApart
<1>5. CASE UNCHANGED vars
  BY <1>5 DEF vars
<1> QED
  BY <1>1, <1>2, <1>3, <1>4, <1>5 DEF Next

LEMMA CrashInvInductive == Spec => []CrashInv
<1>1. Init => CrashInv
  BY DEF Init, CrashInv, CrashSafe
<1>2. TypeOK /\ Busy /\ CrashInv /\ [Next]_vars => CrashInv'
  <2> SUFFICES ASSUME TypeOK, Busy, CrashInv, [Next]_vars PROVE CrashInv'
    OBVIOUS
  <2>0. /\ qdisc \in [Peer -> [run : 0..MaxRun, whole : BOOLEAN]]
        /\ watchdogs \subseteq Peer \X Run
        /\ \A p \in Peer : GuardedByRun(p) /\ phase # "idle" => Guarded(p)
    BY DEF TypeOK, Guarded, GuardedByRun, Busy
  <2>1. ASSUME NEW p \in Peer, CleanSlate(p) PROVE CrashInv'
    <3>1. qdisc' = qdisc \/ qdisc' = [qdisc EXCEPT ![p] = NoQdisc]
      BY <2>1 DEF CleanSlate
    <3>2. CrashSafe'
      BY <2>0, <2>1, <3>1 DEF CleanSlate, CrashInv, CrashSafe
    <3> QED
      BY <2>1, <3>2 DEF CleanSlate, CrashInv, GuardedByRun
  <2>2. CASE LaunchWatchdog
    <3>1. current \in Peer /\ run \in Run
      BY <2>2 DEF LaunchWatchdog, Busy
    <3>2. /\ \A w \in watchdogs : w[1] # current => w \in watchdogs'
          /\ \A p \in Peer : p # current /\ p \in unguarded => p \in unguarded'
          /\ current \in unguarded' \/ <<current, run>> \in watchdogs'
      BY <2>2 DEF LaunchWatchdog, Surviving
    <3>3. /\ \A p \in Peer : Guarded(p) => Guarded(p)'
          /\ \A p \in Peer : GuardedByRun(p) => GuardedByRun(p)'
          /\ GuardedByRun(current)' /\ Guarded(current)'
      <4>1. run' = run
        BY <2>2 DEF LaunchWatchdog
      <4>2. \A p \in Peer, r \in Run :
                p # current /\ <<p, r>> \in watchdogs => <<p, r>> \in watchdogs'
        BY <3>2
      <4>3. ASSUME NEW p \in Peer, p = current
            PROVE  GuardedByRun(p)' /\ Guarded(p)'
        BY <3>1, <3>2, <4>1, <4>3 DEF Guarded, GuardedByRun
      <4>4. ASSUME NEW p \in Peer, p # current
            PROVE  (Guarded(p) => Guarded(p)') /\ (GuardedByRun(p) => GuardedByRun(p)')
        BY <3>1, <3>2, <4>1, <4>2, <4>4 DEF Guarded, GuardedByRun
      <4>5. GuardedByRun(current)' /\ Guarded(current)'
        <5>1. current' = current
          BY <2>2 DEF LaunchWatchdog, lists
        <5> QED
          BY <3>1, <3>2, <4>1, <5>1 DEF Guarded, GuardedByRun
      <4> QED
        BY <4>3, <4>4, <4>5
    <3>4. CrashSafe'
      BY <2>2, <3>3 DEF LaunchWatchdog, CrashInv, CrashSafe, Guarded
    <3>5. phase = "guard" /\ phase' = (IF opt.mode = "timeline" THEN "arm" ELSE "tbf")
          /\ todo' = (IF opt.mode = "timeline" THEN todo \ {current} ELSE todo)
          /\ UNCHANGED <<opt, current>>
      BY <2>2 DEF LaunchWatchdog, lists
    <3> QED
      BY <3>1, <3>3, <3>4, <3>5 DEF CrashInv
  <2>3. CASE TbfStage \/ NetemStage
    <3>1. phase \in {"tbf", "netem"} /\ UNCHANGED <<current, opt, watchdogs, unguarded, run>>
      BY <2>3 DEF TbfStage, NetemStage, lists
    <3>2. current \in Peer /\ GuardedByRun(current) /\ Guarded(current)
      BY <2>0, <3>1 DEF Busy, CrashInv
    <3>3. \A p \in Peer : p # current => qdisc'[p] = qdisc[p]
      BY <2>0, <2>3 DEF TbfStage, NetemStage, SetQdisc
    <3>4. CrashSafe'
      BY <3>1, <3>2, <3>3 DEF CrashInv, CrashSafe, Guarded
    <3>5. \/ phase' = "netem" /\ todo' = todo
          \/ phase' = "arm" /\ todo' = todo \ {current}
      BY <2>3 DEF TbfStage, NetemStage
    <3>6. opt.mode # "timeline"
      BY <3>1 DEF CrashInv
    <3> QED
      BY <3>1, <3>2, <3>4, <3>5, <3>6 DEF CrashInv, GuardedByRun
  <2>4. ASSUME NEW p \in Peer, ApplyStep(p) PROVE CrashInv'
    <3>1. UNCHANGED <<phase, opt, watchdogs, unguarded, run>> /\ phase = "verify"
          /\ p \in todo /\ todo' \subseteq todo
      BY <2>4 DEF ApplyStep
    <3>2. opt.mode = "timeline" /\ Guarded(p)
      BY <2>0, <3>1 DEF CrashInv, TypeOK, Option
    <3>3. \A q \in Peer : q # p => qdisc'[q] = qdisc[q]
      BY <2>0, <2>4 DEF ApplyStep, SetQdisc
    <3>4. CrashSafe'
      BY <3>1, <3>2, <3>3 DEF CrashInv, CrashSafe, Guarded
    <3> QED
      BY <3>1, <3>2, <3>4 DEF CrashInv, GuardedByRun
  <2>5. ASSUME NEW p \in Peer, Revert(p) PROVE CrashInv'
    <3>1. qdisc' = qdisc \/ qdisc' = [qdisc EXCEPT ![p] = NoQdisc]
      BY <2>5 DEF Revert
    <3>2. CrashSafe'
      BY <2>0, <2>5, <3>1 DEF Revert, CrashInv, CrashSafe
    <3> QED
      BY <2>5, <3>2 DEF Revert, CrashInv
  <2>6. ASSUME NEW w \in watchdogs, WatchdogFires(w) PROVE CrashInv'
    <3>1. /\ w \in Peer \X Run /\ watchdogs' = watchdogs \ {w}
          /\ qdisc' = [qdisc EXCEPT ![w[1]] = NoQdisc]
          /\ UNCHANGED <<run, phase, todo, opt, current, unguarded>>
          /\ phase = "idle" \/ w[2] < run
      BY <2>0, <2>6 DEF WatchdogFires, lists
    <3>2. \A p \in Peer, r \in Run : p # w[1] /\ <<p, r>> \in watchdogs => <<p, r>> \in watchdogs'
      BY <3>1
    <3>3. \A p \in Peer : p # w[1] => qdisc'[p] = qdisc[p]
      BY <2>0, <3>1
    <3>4. qdisc'[w[1]] = NoQdisc
      BY <2>0, <3>1
    <3>5. CrashSafe'
      BY <3>1, <3>2, <3>3, <3>4 DEF CrashInv, CrashSafe
    <3>6. phase # "idle" => \A p \in Peer : GuardedByRun(p) => GuardedByRun(p)'
      <4> SUFFICES ASSUME phase # "idle", NEW p \in Peer, <<p, run>> \in watchdogs
                   PROVE  <<p, run>> \in watchdogs'
        BY <3>1 DEF GuardedByRun
      <4>1. w[2] < run /\ run \in Nat
        BY <3>1 DEF TypeOK
      <4>2. w # <<p, run>>
        BY <3>1, <4>1
      <4> QED
        BY <3>1, <4>2
    <3>7. phase \in {"tbf", "netem"} => current \in Peer
      BY DEF Busy
    <3> QED
      BY <3>1, <3>5, <3>6, <3>7 DEF CrashInv
  <2>7. CASE UNCHANGED <<qdisc, watchdogs, unguarded>> /\ phase' \notin InTry
    BY <2>7 DEF CrashInv, CrashSafe, InTry
  <2>8. CASE Resolve
    BY <2>8 DEF Resolve, CrashInv, CrashSafe, hosts
  <2>9. CASE Armed
    BY <2>9 DEF Armed, CrashInv, CrashSafe, GuardedByRun, hosts
  <2>10. CASE Started \/ \E p \in Peer : StartPeer(p)
    BY <2>10 DEF Started, StartPeer, CrashInv, CrashSafe, GuardedByRun, hosts, lists
  <2>11. CASE UNCHANGED vars \/ StopBeside
    <3>1. UNCHANGED <<run, phase, todo, opt, current, qdisc, watchdogs, unguarded>>
      BY <2>11, StopIsApart DEF vars
    <3> QED
      BY <3>1 DEF CrashInv, CrashSafe, GuardedByRun
  <2> QED
    BY <2>1, <2>2, <2>3, <2>4, <2>5, <2>6, <2>7, <2>8, <2>9, <2>10, <2>11, QuietSteps
<1> QED
  BY <1>1, <1>2, TypeInductive, PTL DEF Spec

\* A crash at any point still reverts the interface: whatever runs, faults and
\* signals came before, a shaped peer has a watchdog asleep on it, unless
\* launching it is what failed (the promise of ProfileShaper.arm).
THEOREM ShapedPeersAreGuarded == Spec => []CrashSafe
<1>1. CrashInv => CrashSafe
  BY DEF CrashInv
<1> QED
  BY <1>1, CrashInvInductive, PTL

------------------------------------------------------------------------------
(* The finally reverts what arming handed over *)

\* This run shapes the peer no more, or its revert did not get there.
SettledOn(p) == qdisc[p].run # run \/ <<"revert", p, run>> \in unreached

\* HandedOverShapingIsReverted follows the revert loop: a peer it has visited
\* is settled and stays so, since nothing shapes once the try is left, and only
\* a run that came through the loop ends kept or finished.
HandOverInv ==
    /\ \A r \in Run : (r > run \/ (r = run /\ phase # "idle")) => outcome[r] = "none"
    /\ \A p \in Peer : qdisc[p].run <= run
    /\ phase = "revert" => \A p \in shapers \ todo : SettledOn(p)
    /\ phase \in {"collect", "stop"} => \A p \in shapers : SettledOn(p)
    /\ (phase = "idle" /\ run # 0 /\ Ended(run)) => \A p \in shapers : SettledOn(p)

\* Taking a qdisc away settles the peer, and disturbs no other.
LEMMA ClearingSettles ==
    ASSUME TypeOK, NEW p \in Peer, qdisc' = [qdisc EXCEPT ![p] = NoQdisc],
           run' = run, unreached' = unreached
    PROVE  /\ \A q \in Peer : qdisc[q].run <= run => qdisc'[q].run <= run
           /\ \A q \in Peer : SettledOn(q) => SettledOn(q)' \/ run = 0
           /\ run # 0 => SettledOn(p)'
BY DEF TypeOK, SettledOn, NoQdisc

LEMMA HandOverInductive == Spec => []HandOverInv
<1>1. Init => HandOverInv
  BY DEF Init, HandOverInv, NoQdisc, Run
<1>2. TypeOK /\ Busy /\ HandOverInv /\ [Next]_vars => HandOverInv'
  <2> SUFFICES ASSUME TypeOK, Busy, HandOverInv, [Next]_vars PROVE HandOverInv'
    OBVIOUS
  <2>0. /\ run \in 0..MaxRun /\ run \in Nat /\ (phase # "idle" => run \in Run)
        /\ qdisc \in [Peer -> [run : 0..MaxRun, whole : BOOLEAN]]
        /\ outcome \in [Run -> {"none", "refused", "aborted", "kept", "finished"}]
        /\ watchdogs \subseteq Peer \X Run
        /\ shapers \subseteq Peer
    BY DEF TypeOK, Busy
  <2>1. ASSUME NEW o \in Options, Begin(o) PROVE HandOverInv'
    <3>1. /\ run' = run + 1 /\ phase' = "check"
          /\ UNCHANGED <<qdisc, outcome>>
      BY <2>1 DEF Begin, hosts, records
    <3>2. \A p \in Peer : qdisc[p].run \in 0..MaxRun /\ qdisc[p].run <= run
      BY <2>0 DEF HandOverInv
    <3>3. \A p \in Peer : qdisc'[p].run <= run'
      BY <2>0, <3>1, <3>2
    <3>4. \A r \in Run : r > run' \/ r = run' => outcome'[r] = "none"
      BY <2>0, <3>1 DEF HandOverInv, Run
    <3> QED
      BY <3>1, <3>3, <3>4 DEF HandOverInv
  <2>2. ASSUME NEW p \in Peer, ConflictCheck(p) PROVE HandOverInv'
    BY <2>0, <2>2 DEF ConflictCheck, HandOverInv, SettledOn, hosts, lists, Ended
  <2>3. CASE \/ Checked \/ Prepare \/ Resolve \/ LaunchWatchdog \/ Armed \/ Started
    BY <2>3 DEF Checked, Prepare, Resolve, LaunchWatchdog, Armed, Started, HandOverInv,
                hosts, lists, records
  <2>4. ASSUME NEW p \in Peer, CleanSlate(p) PROVE HandOverInv'
    <3>1. \A q \in Peer : qdisc'[q].run <= run
      BY <2>0, <2>4 DEF CleanSlate, HandOverInv, NoQdisc
    <3> QED
      BY <2>4, <3>1 DEF CleanSlate, HandOverInv, records
  <2>5. CASE TbfStage \/ NetemStage \/ \E p \in Peer : ApplyStep(p)
    <3>1. \A q \in Peer : qdisc'[q].run <= run
      BY <2>0, <2>5 DEF TbfStage, NetemStage, ApplyStep, SetQdisc, HandOverInv
    <3> QED
      BY <2>5, <3>1 DEF TbfStage, NetemStage, ApplyStep, HandOverInv, records
  <2>6. CASE \E p \in Peer : StartPeer(p)
    BY <2>6 DEF StartPeer, HandOverInv, records
  <2>7. CASE Verified \/ LeaveTry
    <3>1. /\ phase # "idle" /\ phase' = "revert" /\ todo' = shapers
          /\ UNCHANGED <<run, shapers, qdisc, outcome>>
      BY <2>7 DEF Verified, LeaveTry, lists, hosts, records, InTry
    <3> QED
      BY <3>1 DEF HandOverInv
  <2>8. ASSUME NEW p \in Peer, Revert(p) PROVE HandOverInv'
    <3>1. /\ phase = "revert" /\ phase' = phase /\ p \in todo /\ todo' = todo \ {p}
          /\ UNCHANGED <<run, shapers, outcome>>
      BY <2>8 DEF Revert, lists, records
    <3>2. CASE qdisc' = [qdisc EXCEPT ![p] = NoQdisc] /\ unreached' = unreached
      <4>1. run # 0
        BY <2>0, <3>1 DEF Run
      <4>2. /\ \A q \in Peer : qdisc'[q].run <= run
            /\ \A q \in Peer : SettledOn(q) => SettledOn(q)'
            /\ SettledOn(p)'
        BY <2>0, <3>1, <3>2, <4>1, ClearingSettles DEF HandOverInv
      <4> QED
        BY <2>0, <3>1, <4>2 DEF HandOverInv
    <3>3. CASE unreached' = unreached \cup {<<"revert", p, run>>} /\ qdisc' = qdisc
      BY <3>1, <3>3 DEF HandOverInv, SettledOn
    <3> QED
      BY <2>8, <3>2, <3>3 DEF Revert
  <2>9. CASE Reverted \/ Collect \/ Stopped
    <3>1. /\ UNCHANGED <<run, shapers, qdisc, unreached>>
          /\ \A p \in Peer : SettledOn(p) => SettledOn(p)'
      BY <2>9 DEF Reverted, Collect, Stopped, lists, hosts, SettledOn
    <3>2. \A p \in shapers : SettledOn(p)
      BY <2>9 DEF Reverted, Collect, Stopped, StopsDone, HandOverInv
    <3>3. /\ phase # "idle" /\ phase' \in {"collect", "stop", "idle"}
          /\ \A r \in Run : r # run \/ phase' # "idle" => outcome'[r] = outcome[r]
      BY <2>0, <2>9 DEF Reverted, Collect, Stopped, StopsDone, records
    <3> QED
      BY <2>0, <3>1, <3>2, <3>3 DEF HandOverInv
  <2>10. ASSUME NEW p \in Peer, StopPeer(p) PROVE HandOverInv'
    <3>1. /\ phase = "stop" /\ UNCHANGED <<phase, run, shapers, qdisc, outcome>>
          /\ unreached \subseteq unreached'
      BY <2>10 DEF StopPeer, lists, records
    <3> QED
      BY <3>1 DEF HandOverInv, SettledOn
  <2>11. CASE EndsBeforeTry \/ LeaveFinally \/ Crash
    <3>1. /\ phase # "idle" /\ phase' = "idle"
          /\ outcome' = [outcome EXCEPT ![run] = "aborted"]
          /\ UNCHANGED <<run, shapers, qdisc>>
      BY <2>11 DEF EndsBeforeTry, LeaveFinally, Crash, lists, hosts, Before, InTry, Finally
    <3> QED
      BY <2>0, <3>1 DEF HandOverInv, Ended
  <2>12. CASE StopBeside
    <3>1. /\ UNCHANGED <<phase, todo, run, shapers, qdisc, outcome>>
          /\ unreached \subseteq unreached'
      BY <2>12, StopIsApart
    <3> QED
      BY <3>1 DEF HandOverInv, SettledOn, Ended
  <2>13. ASSUME NEW w \in watchdogs, WatchdogFires(w) PROVE HandOverInv'
    <3>1. /\ w[1] \in Peer /\ qdisc' = [qdisc EXCEPT ![w[1]] = NoQdisc]
          /\ UNCHANGED <<run, phase, todo, shapers, unreached, outcome>>
      BY <2>0, <2>13 DEF WatchdogFires, lists, records
    <3>2. /\ \A q \in Peer : qdisc'[q].run <= run
          /\ run # 0 => \A q \in Peer : SettledOn(q) => SettledOn(q)'
      BY <3>1, ClearingSettles DEF HandOverInv
    <3> QED
      BY <2>0, <3>1, <3>2 DEF HandOverInv, Ended, Run
  <2>14. CASE UNCHANGED vars
    BY <2>14 DEF vars, HandOverInv, SettledOn, Ended
  <2> QED
    BY <2>1, <2>2, <2>3, <2>4, <2>5, <2>6, <2>7, <2>8, <2>9, <2>10, <2>11, <2>12,
       <2>13, <2>14 DEF Next, Orchestrator
<1> QED
  BY <1>1, <1>2, TypeInductive, PTL DEF Spec

\* Once arming has returned its handles, a run whose finally goes through leaves
\* no shaping behind on a peer its revert reached, in either sudo mode.
THEOREM TheFinallyReverts == Spec => []HandedOverShapingIsReverted
<1>1. TypeOK /\ HandOverInv => HandedOverShapingIsReverted
  <2> SUFFICES ASSUME TypeOK, HandOverInv, NEW p \in Peer,
                      qdisc[p].run # 0, qdisc[p].run = run, Ended(run), p \in shapers
               PROVE  <<"revert", p, run>> \in unreached
    BY DEF HandedOverShapingIsReverted
  <2>1. run \in Run
    BY DEF TypeOK, Run
  <2>2. phase = "idle"
    BY <2>1 DEF HandOverInv, Ended
  <2> QED
    BY <2>2 DEF HandOverInv, SettledOn
<1> QED
  BY <1>1, TypeCorrect, HandOverInductive, PTL

------------------------------------------------------------------------------
(* The manifest *)

\* StoppedMeansStopped is kept by the two stop loops, the finally's and that of
\* a --stop beside it: a peer one of them has visited is stopped or counted as
\* not reached, and stays so unless the orchestrator starts it behind the loop.
StopInv ==
    /\ StoppedMeansStopped
    /\ phase = "stop" => \A p \in Peer \ todo : StoppedOn(p, run)
    /\ \A p \in Peer \ stopping.todo :
           \/ stopping = NoStop
           \/ StoppedOn(p, stopping.run)
           \/ <<p, stopping.run>> \in overtaken

\* Taking containers away and counting failures keeps what is stopped stopped.
LEMMA StoppedStays ==
    ASSUME unreached \subseteq unreached', \A p \in Peer : containers'[p] \subseteq containers[p],
           NEW p \in Peer, NEW r \in Run, StoppedOn(p, r)
    PROVE  StoppedOn(p, r)'
BY DEF StoppedOn

\* A run that is up has not ended.
NotEnded == phase # "idle" => outcome[run] = "none"

\* The steps of the two stop loops, the starts behind them, and the rest.
LEMMA StopSteps ==
    ASSUME TypeOK, Busy, [Next]_vars
    PROVE  \/ \E p \in Peer : StartPeer(p) \/ StopPeer(p) \/ StopCommandPeer(p)
           \/ Stopped \/ StopCommandEnds
           \/ \E r \in Run : StopCommand(r)
           \/ /\ UNCHANGED <<containers, overtaken>> /\ unreached \subseteq unreached'
              /\ stopping' \in {stopping, NoStop}
              /\ \A r \in Run : /\ manifest'[r] = "stopped" => manifest[r] = "stopped"
                                /\ outcome'[r] = "finished" => outcome[r] = "finished"
              /\ \/ phase' # "stop"
                 \/ todo' = Peer
                 \/ UNCHANGED <<phase, todo, run>>
<1> USE DEF hosts, records, stops
<1>0. /\ outcome \in [Run -> {"none", "refused", "aborted", "kept", "finished"}]
      /\ manifest \in [Run -> {"none", "running", "stopped"}]
      /\ phase # "idle" => run \in Run
  BY DEF TypeOK, Busy
<1>1. CASE \/ EndsBeforeTry \/ LeaveTry \/ LeaveFinally \/ Crash \/ Collect
           \/ \E p \in Peer : ConflictCheck(p)
  BY <1>0, <1>1 DEF EndsBeforeTry, LeaveTry, LeaveFinally, Crash, Collect, ConflictCheck,
                    Before, InTry, Finally
<1>2. CASE Prepare
  BY <1>0, <1>2 DEF Prepare
<1>3. CASE UNCHANGED vars \/ \E w \in watchdogs : WatchdogFires(w)
  BY <1>3 DEF vars, WatchdogFires
<1>4. CASE \/ Checked \/ Resolve \/ Armed \/ Started \/ Verified \/ Reverted
           \/ \E o \in Options : Begin(o)
  BY <1>4 DEF Checked, Resolve, Armed, Started, Verified, Reverted, Begin
<1>5. CASE \/ LaunchWatchdog \/ TbfStage \/ NetemStage
           \/ \E p \in Peer : CleanSlate(p) \/ ApplyStep(p) \/ Revert(p)
  BY <1>5 DEF LaunchWatchdog, TbfStage, NetemStage, CleanSlate, ApplyStep, Revert
<1>6. CASE StopCommandDies
  BY <1>6 DEF StopCommandDies, Orchestration
<1> QED
  BY <1>1, <1>2, <1>3, <1>4, <1>5, <1>6 DEF Next, Orchestrator, StopBeside

LEMMA StopInvInductive == Spec => []StopInv
<1>1. Init => StopInv
  BY DEF Init, StopInv, StoppedMeansStopped, StoppedOn
<1>2. TypeOK /\ Busy /\ NotEnded /\ StopInv /\ [Next]_vars => StopInv'
  <2> SUFFICES ASSUME TypeOK, Busy, NotEnded, StopInv, [Next]_vars PROVE StopInv'
    OBVIOUS
  <2>0. /\ containers \in [Peer -> SUBSET Run]
        /\ manifest \in [Run -> {"none", "running", "stopped"}]
        /\ outcome \in [Run -> {"none", "refused", "aborted", "kept", "finished"}]
        /\ stopping \in [run : Run, todo : SUBSET Peer] \cup {NoStop}
        /\ phase # "idle" => run \in Run
    BY DEF TypeOK, Busy
  <2>1. ASSUME NEW p \in Peer, StartPeer(p) PROVE StopInv'
    <3>1. /\ containers' = [containers EXCEPT ![p] = @ \cup {run}]
          /\ phase = "start" /\ phase' = "start"
          /\ UNCHANGED <<run, manifest, outcome, stopping, unreached>>
          /\ overtaken \subseteq overtaken'
          /\ StopHasPassed(p) => <<p, run>> \in overtaken'
          /\ outcome[run] # "finished"
      BY <2>1 DEF StartPeer, NotEnded
    <3>2. \A q \in Peer, r \in Run : (q # p \/ r # run) /\ StoppedOn(q, r) => StoppedOn(q, r)'
      BY <2>0, <3>1 DEF StoppedOn
    <3>3. StoppedMeansStopped'
      BY <3>1, <3>2 DEF StopInv, StoppedMeansStopped, StopHasPassed
    <3>4. ASSUME NEW q \in Peer \ stopping.todo, stopping # NoStop
          PROVE  StoppedOn(q, stopping.run)' \/ <<q, stopping.run>> \in overtaken'
      <4>1. stopping.run \in Run
        BY <2>0, <3>4
      <4> QED
        BY <3>1, <3>2, <3>4, <4>1 DEF StopInv, StopHasPassed
    <3> QED
      BY <3>1, <3>3, <3>4 DEF StopInv
  <2>2. ASSUME NEW p \in Peer, StopPeer(p) PROVE StopInv'
    <3>1. /\ phase = "stop" /\ phase' = "stop" /\ todo' = todo \ {p} /\ run \in Run
          /\ unreached \subseteq unreached'
          /\ UNCHANGED <<run, manifest, outcome, stopping, overtaken>>
          /\ \/ containers' = [containers EXCEPT ![p] = @ \ {run}]
             \/ containers' = containers /\ <<"stop", p, run>> \in unreached'
      BY <2>0, <2>2 DEF StopPeer, records, stops
    <3>2. (\A q \in Peer : containers'[q] \subseteq containers[q]) /\ StoppedOn(p, run)'
      BY <2>0, <3>1 DEF StoppedOn
    <3>3. \A q \in Peer, r \in Run : StoppedOn(q, r) => StoppedOn(q, r)'
      BY <3>1, <3>2, StoppedStays
    <3> QED
      BY <2>0, <3>1, <3>2, <3>3 DEF StopInv, StoppedMeansStopped
  <2>3. ASSUME NEW p \in Peer, StopCommandPeer(p) PROVE StopInv'
    <3>1. /\ stopping \in [run : Run, todo : SUBSET Peer]
          /\ stopping' = [stopping EXCEPT !.todo = @ \ {p}]
          /\ unreached \subseteq unreached'
          /\ UNCHANGED <<run, phase, todo, manifest, outcome, overtaken>>
          /\ \/ containers' = [containers EXCEPT ![p] = @ \ {stopping.run}]
             \/ containers' = containers /\ <<"stop", p, stopping.run>> \in unreached'
      BY <2>0, <2>3 DEF StopCommandPeer, Orchestration, NoStop
    <3>2. /\ \A q \in Peer : containers'[q] \subseteq containers[q]
          /\ StoppedOn(p, stopping.run)'
      <4>1. stopping'.run = stopping.run
        BY <3>1
      <4> QED
        BY <2>0, <3>1, <4>1 DEF StoppedOn
    <3>3. \A q \in Peer, r \in Run : StoppedOn(q, r) => StoppedOn(q, r)'
      BY <3>1, <3>2, StoppedStays
    <3>4. stopping'.run = stopping.run /\ stopping'.todo = stopping.todo \ {p}
      BY <3>1
    <3>5. stopping # NoStop
      BY <3>1 DEF NoStop, Run
    <3>6. ASSUME NEW q \in Peer \ stopping'.todo
          PROVE  StoppedOn(q, stopping.run)' \/ <<q, stopping.run>> \in overtaken'
      BY <3>1, <3>2, <3>3, <3>4, <3>5, <3>6 DEF StopInv
    <3>7. StoppedMeansStopped'
      BY <3>1, <3>3 DEF StopInv, StoppedMeansStopped
    <3>8. phase' = "stop" => \A q \in Peer \ todo' : StoppedOn(q, run)'
      BY <2>0, <3>1, <3>3 DEF StopInv
    <3> QED
      BY <3>1, <3>4, <3>6, <3>7, <3>8 DEF StopInv, StoppedOn
  <2>4. CASE Stopped
    <3>1. /\ phase = "stop" /\ todo = {} /\ phase' = "idle" /\ run \in Run
          /\ manifest' = [manifest EXCEPT ![run] = "stopped"]
          /\ outcome' = [outcome EXCEPT ![run] = "finished"]
          /\ UNCHANGED <<containers, unreached, stopping, overtaken>>
      BY <2>0, <2>4 DEF Stopped, StopsDone, hosts, stops
    <3>2. \A q \in Peer, r \in Run : StoppedOn(q, r)' <=> StoppedOn(q, r)
      BY <3>1 DEF StoppedOn
    <3>3. \A q \in Peer : StoppedOn(q, run)
      BY <3>1 DEF StopInv
    <3> QED
      BY <2>0, <3>1, <3>2, <3>3 DEF StopInv, StoppedMeansStopped
  <2>5. CASE StopCommandEnds
    <3>1. /\ stopping # NoStop /\ stopping.todo = {} /\ stopping' = NoStop
          /\ manifest' = [manifest EXCEPT ![stopping.run] = "stopped"]
          /\ UNCHANGED <<run, phase, todo, outcome, containers, unreached, overtaken>>
      BY <2>5 DEF StopCommandEnds, Orchestration
    <3>2. \A q \in Peer, r \in Run : StoppedOn(q, r)' <=> StoppedOn(q, r)
      BY <3>1 DEF StoppedOn
    <3>3. \A q \in Peer : StoppedOn(q, stopping.run) \/ <<q, stopping.run>> \in overtaken
      BY <3>1 DEF StopInv
    <3> QED
      BY <2>0, <3>1, <3>2, <3>3 DEF StopInv, StoppedMeansStopped
  <2>6. ASSUME NEW r \in Run, StopCommand(r) PROVE StopInv'
    <3>1. /\ stopping' = [run |-> r, todo |-> Peer]
          /\ UNCHANGED <<run, phase, todo, manifest, outcome, containers, unreached, overtaken>>
      BY <2>6 DEF StopCommand, Orchestration
    <3>2. stopping'.todo = Peer
      BY <3>1
    <3> QED
      BY <3>1, <3>2 DEF StopInv, StoppedMeansStopped, StoppedOn
  <2>7. CASE /\ UNCHANGED <<containers, overtaken>> /\ unreached \subseteq unreached'
             /\ stopping' \in {stopping, NoStop}
             /\ \A r \in Run : /\ manifest'[r] = "stopped" => manifest[r] = "stopped"
                               /\ outcome'[r] = "finished" => outcome[r] = "finished"
             /\ \/ phase' # "stop"
                \/ todo' = Peer
                \/ UNCHANGED <<phase, todo, run>>
    <3>1. \A q \in Peer, r \in Run : StoppedOn(q, r) => StoppedOn(q, r)'
      BY <2>7, StoppedStays
    <3>2. StoppedMeansStopped'
      BY <2>7, <3>1 DEF StopInv, StoppedMeansStopped
    <3>3. phase' = "stop" => \A q \in Peer \ todo' : StoppedOn(q, run)'
      BY <2>0, <2>7, <3>1 DEF StopInv
    <3>4. CASE stopping' = NoStop
      BY <3>2, <3>3, <3>4 DEF StopInv, NoStop
    <3>5. CASE stopping' = stopping /\ stopping # NoStop
      <4>1. stopping.run \in Run
        BY <2>0, <3>5
      <4>2. \A q \in Peer \ stopping.todo :
                StoppedOn(q, stopping.run) \/ <<q, stopping.run>> \in overtaken
        BY <3>5 DEF StopInv
      <4>3. \A q \in Peer : StoppedOn(q, stopping.run) => StoppedOn(q, stopping.run)'
        BY <2>7, <3>5 DEF StoppedOn
      <4> QED
        BY <2>7, <3>2, <3>3, <3>5, <4>2, <4>3 DEF StopInv
    <3> QED
      BY <2>7, <3>4, <3>5
  <2> QED
    BY <2>1, <2>2, <2>3, <2>4, <2>5, <2>6, <2>7, StopSteps
<1>3. TypeOK /\ Busy /\ HandOverInv => NotEnded
  BY DEF TypeOK, Busy, HandOverInv, NotEnded
<1> QED
  BY <1>1, <1>2, <1>3, TypeInductive, HandOverInductive, PTL DEF Spec

\* A manifest that says stopped is true of every peer the stop reached, whether
\* the finally or a --stop beside the run wrote it, except where the run went on
\* to start a peer the --stop had passed; a run that finished leaves none.
THEOREM StoppedIsTrue == Spec => []StoppedMeansStopped
<1>1. StopInv => StoppedMeansStopped
  BY DEF StopInv
<1> QED
  BY <1>1, StopInvInductive, PTL

------------------------------------------------------------------------------
(* A run measures under its own profile *)

Arming    == {"arm", "guard", "tbf", "netem"}
Measuring == Arming \cup {"start", "verify"}

Whole    == [run |-> run, whole |-> TRUE]
Fresh(p) == \A w \in watchdogs : w[1] = p => w[2] = run
Safe(p)  == p \in unguarded \/ Fresh(p)
Done(p)  == phase \in {"start", "verify"} \/ p \notin todo

\* No run shapes the peer, as far as the conflict check could tell.
Unshaped(p) == qdisc[p] = NoQdisc \/ p \in missed

\* Alone on its peers from the conflict check on.
Alone ==
    /\ phase = "check" => \A p \in Peer \ todo : NoContainers(p) /\ Unshaped(p)
    /\ phase \in {"prepare", "resolve"} => \A p \in Peer : NoContainers(p) /\ Unshaped(p)
    /\ phase \in Arming => \A p \in Peer : NoContainers(p)
    /\ phase \in {"start", "verify"} => \A p \in Peer : containers[p] \subseteq {run}
    /\ phase = "start" => \A p \in todo : NoContainers(p)

\* The static loop guards a peer and shapes it before it goes on to the next.
StaticInv == (opt.mode = "static" /\ phase \in Measuring) =>
    /\ phase \in Arming => todo \subseteq opt.shaped
    /\ phase \in {"guard", "tbf", "netem"} => current \in todo
    /\ phase \in {"tbf", "netem"} => Safe(current)
    /\ phase = "verify" => todo = {}
    /\ \A p \in Peer \ opt.shaped : Unshaped(p)
    /\ \A p \in Peer : p \in opt.shaped /\ Done(p) =>
                           p \in unguarded \/ (Fresh(p) /\ qdisc[p] = Whole)

\* The timeline loop guards every peer, and its steps shape them afterwards.
TimelineInv == (opt.mode = "timeline" /\ phase \in Measuring) =>
    /\ phase \notin {"tbf", "netem"}
    /\ phase = "guard" => current \in todo
    /\ \A p \in Peer : Done(p) => Safe(p)
    /\ phase # "verify" => \A p \in Peer : Unshaped(p)
    /\ phase = "verify" => \A p \in Peer :
           IF p \in todo THEN Unshaped(p) ELSE qdisc[p] = Whole \/ p \in unguarded

\* MeasuredUnderOwnProfile needs what was established on the way: nothing was
\* left on a peer the conflict check saw, and in container mode a launch
\* removes the watchdogs of earlier runs, so that none is left to take the
\* shaping away under the run that follows.
MeasuredInv == ~opt.skip_check => Alone /\ StaticInv /\ TimelineInv

\* A step whose command does not matter here ends outside these phases.
LEMMA LeavingSteps ==
    ASSUME [Next]_vars
    PROVE  \/ \E o \in Options : Begin(o)
           \/ Checked \/ Prepare \/ Resolve \/ LaunchWatchdog \/ TbfStage \/ NetemStage
           \/ Armed \/ Started
           \/ \E p \in Peer : \/ ConflictCheck(p) \/ CleanSlate(p) \/ StartPeer(p)
                              \/ ApplyStep(p)
           \/ \E w \in watchdogs : WatchdogFires(w)
           \/ StopBeside
           \/ phase' \in Finally \cup {"idle"}
           \/ UNCHANGED vars
<1>1. CASE EndsBeforeTry \/ LeaveTry \/ LeaveFinally \/ Crash
  BY <1>1 DEF EndsBeforeTry, LeaveTry, LeaveFinally, Crash, Finally
<1>2. CASE \/ Verified \/ Reverted \/ Collect \/ Stopped
           \/ \E p \in Peer : Revert(p) \/ StopPeer(p)
  BY <1>2 DEF Verified, Reverted, Collect, Stopped, Revert, StopPeer, Finally
<1> QED
  BY <1>1, <1>2 DEF Next, Orchestrator

\* A run keeps its options, and only Begin sets them.
LEMMA OptionsStay ==
    ASSUME TypeOK, [Next]_vars
    PROVE  (\E o \in Options : Begin(o)) \/ UNCHANGED opt
<1>1. CASE Orchestrator
  BY <1>1 DEF Orchestrator, Checked, Prepare, Resolve, LaunchWatchdog, TbfStage, NetemStage,
              Armed, Started, Verified, Reverted, Collect, Stopped, ConflictCheck,
              CleanSlate, StartPeer, ApplyStep, Revert, StopPeer
<1>2. CASE EndsBeforeTry \/ LeaveTry \/ LeaveFinally \/ Crash
  BY <1>2 DEF EndsBeforeTry, LeaveTry, LeaveFinally, Crash
<1>3. CASE StopBeside \/ \E w \in watchdogs : WatchdogFires(w)
  BY <1>3, StopIsApart DEF WatchdogFires
<1> QED
  BY <1>1, <1>2, <1>3 DEF Next, vars

LEMMA LaunchRefreshes ==
    ASSUME ContainerMode, TypeOK, Busy, LaunchWatchdog
    PROVE  /\ Safe(current)'
           /\ \A q \in Peer : q # current => /\ q \in unguarded <=> q \in unguarded'
                                             /\ Fresh(q) => Fresh(q)'
<1>1. /\ run' = run /\ current' = current /\ current \in Peer
      /\ Surviving(current) = {w \in watchdogs : w[1] # current}
  BY DEF LaunchWatchdog, lists, Surviving, Busy
<1>2. \A w \in watchdogs' : w \in watchdogs \/ w = <<current, run>>
  BY <1>1 DEF LaunchWatchdog
<1>3. CASE /\ watchdogs' = Surviving(current) \cup {<<current, run>>}
           /\ unguarded' = unguarded \ {current}
  BY <1>1, <1>2, <1>3 DEF Safe, Fresh
<1>4. CASE unguarded' = unguarded \cup {current}
  BY <1>1, <1>2, <1>4 DEF Safe, Fresh
<1> QED
  BY <1>3, <1>4 DEF LaunchWatchdog

\* While a run is up, only a stale watchdog fires, and it clears its peer.
LEMMA FiringClears ==
    ASSUME TypeOK, phase # "idle", NEW w \in watchdogs, WatchdogFires(w)
    PROVE  /\ \A q \in Peer : qdisc'[q] = qdisc[q] \/ qdisc'[q] = NoQdisc
           /\ \A q \in Peer : Fresh(q) => Fresh(q)' /\ qdisc'[q] = qdisc[q]
<1>1. /\ w \in Peer \X Run /\ watchdogs' = watchdogs \ {w}
      /\ qdisc' = [qdisc EXCEPT ![w[1]] = NoQdisc]
      /\ run' = run /\ w[2] < run /\ run \in Nat
  BY DEF WatchdogFires, TypeOK
<1>2. \A q \in Peer : q # w[1] => qdisc'[q] = qdisc[q]
  BY <1>1 DEF TypeOK
<1>3. ~Fresh(w[1]) /\ qdisc'[w[1]] = NoQdisc
  BY <1>1 DEF TypeOK, Fresh
<1>4. \A q \in Peer : Fresh(q) => Fresh(q)'
  BY <1>1 DEF Fresh
<1> QED
  BY <1>2, <1>3, <1>4

LEMMA AloneStep ==
    ASSUME TypeOK, Busy, MeasuredInv, [Next]_vars, ~opt'.skip_check
    PROVE  Alone'
<1> USE DEF Arming, hosts, records, lists, stops, NoContainers
<1>1. CASE \E o \in Options : Begin(o)
  BY <1>1 DEF Begin, Alone
<1>2. ASSUME UNCHANGED opt PROVE Alone'
  <2>0. Alone /\ containers \in [Peer -> SUBSET Run] /\ todo \subseteq Peer
    BY <1>2 DEF MeasuredInv, TypeOK
  <2>1. ASSUME NEW p \in Peer, ConflictCheck(p) PROVE Alone'
    <3>1. \A q \in Peer : Unshaped(q) => Unshaped(q)'
      BY <2>1 DEF ConflictCheck, Unshaped
    <3>2. phase' = "check" => NoContainers(p) /\ Unshaped(p)' /\ todo' = todo \ {p}
      BY <2>1 DEF ConflictCheck, Clear, Unshaped
    <3> QED
      BY <2>0, <2>1, <3>1, <3>2 DEF ConflictCheck, Alone
  <2>2. CASE Checked \/ Prepare
    BY <2>0, <2>2 DEF Checked, Prepare, Alone, Unshaped
  <2>3. CASE Resolve
    BY <2>0, <2>3 DEF Resolve, Alone
  <2>4. CASE LaunchWatchdog \/ TbfStage \/ NetemStage \/ \E p \in Peer : CleanSlate(p)
    <3>1. /\ UNCHANGED containers /\ phase \in Arming /\ phase' \in Arming
      BY <2>4 DEF LaunchWatchdog, TbfStage, NetemStage, CleanSlate
    <3> QED
      BY <2>0, <3>1 DEF Alone
  <2>5. CASE Armed
    BY <2>0, <2>5 DEF Armed, Alone
  <2>6. ASSUME NEW p \in Peer, StartPeer(p) PROVE Alone'
    BY <2>0, <2>6 DEF StartPeer, Alone
  <2>7. CASE Started
    BY <2>0, <2>7 DEF Started, Alone
  <2>8. ASSUME NEW p \in Peer, ApplyStep(p) PROVE Alone'
    BY <2>0, <2>8 DEF ApplyStep, Alone
  <2>9. ASSUME NEW w \in watchdogs, WatchdogFires(w) PROVE Alone'
    <3>1. UNCHANGED <<run, phase, todo, containers>>
      BY <2>9 DEF WatchdogFires
    <3>2. phase # "idle" => \A q \in Peer : Unshaped(q) => Unshaped(q)'
      BY <2>9, FiringClears DEF WatchdogFires, Unshaped
    <3> QED
      BY <2>0, <3>1, <3>2 DEF Alone
  <2>10. CASE phase' \in Finally \cup {"idle"}
    BY <2>10 DEF Alone, Finally
  <2>11. CASE UNCHANGED vars
    BY <2>0, <2>11 DEF vars, Alone, Unshaped
  <2>12. CASE \E o \in Options : Begin(o)
    BY <1>1, <2>12
  <2>13. CASE StopBeside
    <3>1. /\ UNCHANGED <<run, phase, todo, missed, qdisc>>
          /\ \A q \in Peer : containers'[q] \subseteq containers[q]
      BY <2>13, StopIsApart
    <3>2. \A q \in Peer : /\ NoContainers(q) => NoContainers(q)'
                          /\ Unshaped(q) => Unshaped(q)'
      BY <3>1 DEF Unshaped
    <3> QED
      BY <2>0, <3>1, <3>2 DEF Alone
  <2> QED
    BY <2>1, <2>2, <2>3, <2>4, <2>5, <2>6, <2>7, <2>8, <2>9, <2>10, <2>11, <2>12,
       <2>13, LeavingSteps
<1> QED
  BY <1>1, <1>2, OptionsStay

LEMMA StaticStep ==
    ASSUME ContainerMode, TypeOK, Busy, MeasuredInv, [Next]_vars, ~opt'.skip_check
    PROVE  StaticInv'
<1> USE DEF Arming, Measuring, hosts, records, lists, stops
<1>1. CASE \E o \in Options : Begin(o)
  BY <1>1 DEF Begin, StaticInv
<1>2. ASSUME UNCHANGED opt, opt.mode = "static" PROVE StaticInv'
  <2>0. /\ Alone /\ StaticInv
        /\ qdisc \in [Peer -> [run : 0..MaxRun, whole : BOOLEAN]]
        /\ phase # "idle" => run \in Run
        /\ todo \subseteq Peer /\ opt.shaped \subseteq Peer
    BY <1>2 DEF MeasuredInv, TypeOK, Busy, Option
  <2>1. CASE Checked \/ Prepare \/ \E p \in Peer : ConflictCheck(p)
    BY <2>1 DEF Checked, Prepare, ConflictCheck, StaticInv
  <2>2. CASE Resolve
    BY <1>2, <2>0, <2>2 DEF Resolve, StaticInv, Alone, Unshaped, Done
  <2>3. ASSUME NEW p \in Peer, CleanSlate(p) PROVE StaticInv'
    <3>1. /\ phase = "arm" /\ phase' = "guard" /\ p \in todo /\ current' = p
          /\ UNCHANGED <<run, todo, watchdogs, unguarded>>
      BY <2>3 DEF CleanSlate
    <3>2. \A q \in Peer : q # p => qdisc'[q] = qdisc[q]
      BY <2>0, <2>3 DEF CleanSlate
    <3>3. \A q \in Peer : Unshaped(q) => Unshaped(q)'
      BY <2>0, <2>3 DEF CleanSlate, Unshaped
    <3> QED
      BY <1>2, <2>0, <3>1, <3>2, <3>3 DEF StaticInv, Done, Fresh, Whole
  <2>4. CASE LaunchWatchdog
    <3>1. /\ phase = "guard" /\ phase' = "tbf" /\ current' = current /\ current \in todo
          /\ UNCHANGED <<run, todo, missed, qdisc>>
      BY <1>2, <2>0, <2>4 DEF LaunchWatchdog, StaticInv
    <3>2. \A q \in Peer : q # current /\ q \in opt.shaped /\ Done(q) =>
              q \in unguarded' \/ (Fresh(q)' /\ qdisc'[q] = Whole')
      BY <1>2, <2>0, <2>4, <3>1, LaunchRefreshes DEF StaticInv, Whole
    <3> QED
      BY <1>2, <2>0, <2>4, <3>1, <3>2, LaunchRefreshes DEF StaticInv, Done, Unshaped
  <2>5. CASE TbfStage \/ NetemStage
    <3>1. /\ phase \in {"tbf", "netem"} /\ current' = current
          /\ current \in Peer /\ current \in todo /\ Safe(current) /\ todo \subseteq opt.shaped
          /\ UNCHANGED <<run, missed, watchdogs, unguarded>>
      BY <1>2, <2>0, <2>5 DEF TbfStage, NetemStage, StaticInv
    <3>2. \A q \in Peer : q # current => qdisc'[q] = qdisc[q]
      BY <2>0, <2>5 DEF TbfStage, NetemStage, SetQdisc
    <3>3. \/ phase' = "netem" /\ todo' = todo
          \/ phase' = "arm" /\ todo' = todo \ {current} /\ qdisc'[current] = Whole
      BY <2>0, <2>5, <3>1 DEF TbfStage, NetemStage, SetQdisc, Whole
    <3>4. \A q \in Peer : q \notin opt.shaped => Unshaped(q)'
      BY <1>2, <2>0, <3>1, <3>2 DEF StaticInv, Unshaped
    <3>5. \A q \in Peer : q \in opt.shaped /\ q \notin todo =>
              q \in unguarded' \/ (Fresh(q)' /\ qdisc'[q] = Whole')
      BY <1>2, <2>0, <3>1, <3>2 DEF StaticInv, Done, Fresh, Whole
    <3>6. Safe(current)'
      BY <3>1 DEF Safe, Fresh
    <3>7. CASE phase' = "netem" /\ todo' = todo
      BY <1>2, <3>1, <3>4, <3>5, <3>6, <3>7 DEF StaticInv, Done
    <3>8. CASE phase' = "arm" /\ todo' = todo \ {current} /\ qdisc'[current] = Whole
      <4>1. current \in unguarded' \/ (Fresh(current)' /\ qdisc'[current] = Whole')
        BY <3>1, <3>6, <3>8 DEF Safe, Whole
      <4> QED
        BY <1>2, <3>1, <3>4, <3>5, <3>8, <4>1 DEF StaticInv, Done
    <3> QED
      BY <3>3, <3>7, <3>8
  <2>6. CASE Armed
    BY <1>2, <2>0, <2>6 DEF Armed, StaticInv, Done, Fresh, Whole, Unshaped
  <2>7. CASE Started \/ \E p \in Peer : StartPeer(p)
    BY <1>2, <2>0, <2>7 DEF Started, StartPeer, StaticInv, Done, Fresh, Whole, Unshaped
  <2>8. ASSUME NEW p \in Peer, ApplyStep(p) PROVE StaticInv'
    <3>1. phase = "verify" /\ todo = {}
      BY <1>2, <2>0, <2>8 DEF ApplyStep, StaticInv
    <3> QED
      BY <2>8, <3>1 DEF ApplyStep
  <2>9. ASSUME NEW w \in watchdogs, WatchdogFires(w) PROVE StaticInv'
    <3>1. UNCHANGED <<run, phase, todo, current, missed, unguarded>>
      BY <2>9 DEF WatchdogFires
    <3>2. phase # "idle" =>
              /\ \A q \in Peer : qdisc'[q] = qdisc[q] \/ qdisc'[q] = NoQdisc
              /\ \A q \in Peer : Fresh(q) => Fresh(q)' /\ qdisc'[q] = qdisc[q]
      BY <2>9, FiringClears
    <3> QED
      BY <1>2, <2>0, <3>1, <3>2 DEF StaticInv, Done, Safe, Whole, Unshaped
  <2>10. CASE phase' \in Finally \cup {"idle"}
    BY <2>10 DEF StaticInv, Finally
  <2>11. CASE UNCHANGED vars
    BY <2>0, <2>11 DEF vars, StaticInv, Done, Safe, Fresh, Whole, Unshaped
  <2>12. CASE \E o \in Options : Begin(o)
    BY <1>1, <2>12
  <2>13. CASE StopBeside
    <3>1. UNCHANGED <<run, phase, todo, current, missed, qdisc, watchdogs, unguarded>>
      BY <2>13, StopIsApart
    <3> QED
      BY <1>2, <2>0, <3>1 DEF StaticInv, Done, Safe, Fresh, Whole, Unshaped
  <2> QED
    BY <2>1, <2>2, <2>3, <2>4, <2>5, <2>6, <2>7, <2>8, <2>9, <2>10, <2>11, <2>12,
       <2>13, LeavingSteps
<1>3. CASE opt'.mode # "static"
  BY <1>3 DEF StaticInv
<1> QED
  BY <1>1, <1>2, <1>3, OptionsStay

LEMMA TimelineStep ==
    ASSUME ContainerMode, TypeOK, Busy, MeasuredInv, [Next]_vars, ~opt'.skip_check
    PROVE  TimelineInv'
<1> USE DEF Arming, Measuring, hosts, records, lists, stops
<1>1. CASE \E o \in Options : Begin(o)
  BY <1>1 DEF Begin, TimelineInv
<1>2. ASSUME UNCHANGED opt, opt.mode = "timeline" PROVE TimelineInv'
  <2>0. /\ Alone /\ TimelineInv
        /\ qdisc \in [Peer -> [run : 0..MaxRun, whole : BOOLEAN]]
        /\ phase # "idle" => run \in Run
        /\ todo \subseteq Peer
    BY <1>2 DEF MeasuredInv, TypeOK, Busy
  <2>1. CASE Checked \/ Prepare \/ \E p \in Peer : ConflictCheck(p)
    BY <2>1 DEF Checked, Prepare, ConflictCheck, TimelineInv
  <2>2. CASE Resolve
    BY <1>2, <2>0, <2>2 DEF Resolve, TimelineInv, Alone, Unshaped, Done
  <2>3. ASSUME NEW p \in Peer, CleanSlate(p) PROVE TimelineInv'
    <3>1. /\ phase = "arm" /\ phase' = "guard" /\ p \in todo /\ current' = p
          /\ UNCHANGED <<run, todo, watchdogs, unguarded>>
      BY <2>3 DEF CleanSlate
    <3>2. \A q \in Peer : Unshaped(q) => Unshaped(q)'
      BY <2>0, <2>3 DEF CleanSlate, Unshaped
    <3> QED
      BY <1>2, <2>0, <3>1, <3>2 DEF TimelineInv, Done, Safe, Fresh, Whole
  <2>4. CASE LaunchWatchdog
    <3>1. /\ phase = "guard" /\ phase' = "arm" /\ current' = current /\ current \in todo
          /\ todo' = todo \ {current} /\ UNCHANGED <<run, missed, qdisc>>
      BY <1>2, <2>0, <2>4 DEF LaunchWatchdog, TimelineInv
    <3>2. /\ Safe(current)'
          /\ \A q \in Peer : q # current => (Safe(q) => Safe(q)')
      BY <2>4, LaunchRefreshes DEF Safe
    <3>3. \A q \in Peer : Done(q)' => Safe(q)'
      BY <1>2, <2>0, <3>1, <3>2 DEF TimelineInv, Done
    <3>4. \A q \in Peer : Unshaped(q)'
      BY <1>2, <2>0, <3>1 DEF TimelineInv, Unshaped
    <3> QED
      BY <3>1, <3>3, <3>4 DEF TimelineInv
  <2>5. CASE TbfStage \/ NetemStage
    BY <1>2, <2>0, <2>5 DEF TbfStage, NetemStage, TimelineInv
  <2>6. CASE Armed
    BY <1>2, <2>0, <2>6 DEF Armed, TimelineInv, Done, Safe, Fresh, Unshaped
  <2>7. CASE Started \/ \E p \in Peer : StartPeer(p)
    BY <1>2, <2>0, <2>7 DEF Started, StartPeer, TimelineInv, Done, Safe, Fresh, Unshaped
  <2>8. ASSUME NEW p \in Peer, ApplyStep(p) PROVE TimelineInv'
    <3>1. /\ phase = "verify" /\ p \in todo /\ todo' = todo \ {p}
          /\ UNCHANGED <<run, phase, missed, watchdogs, unguarded>>
      BY <2>8 DEF ApplyStep, lists
    <3>2. qdisc'[p] = Whole /\ \A q \in Peer : q # p => qdisc'[q] = qdisc[q]
      BY <2>0, <2>8 DEF ApplyStep, SetQdisc, Whole
    <3> QED
      BY <1>2, <2>0, <3>1, <3>2 DEF TimelineInv, Done, Safe, Fresh, Whole, Unshaped
  <2>9. ASSUME NEW w \in watchdogs, WatchdogFires(w) PROVE TimelineInv'
    <3>1. UNCHANGED <<run, phase, todo, current, missed, unguarded>>
      BY <2>9 DEF WatchdogFires
    <3>2. phase # "idle" =>
              /\ \A q \in Peer : qdisc'[q] = qdisc[q] \/ qdisc'[q] = NoQdisc
              /\ \A q \in Peer : Fresh(q) => Fresh(q)' /\ qdisc'[q] = qdisc[q]
      BY <2>9, FiringClears
    <3>3. phase \in Measuring => \A q \in Peer : Done(q) => Safe(q)'
      BY <1>2, <2>0, <3>1, <3>2 DEF TimelineInv, Safe
    <3>4. phase = "verify" =>
              \A q \in Peer : IF q \in todo THEN Unshaped(q)'
                              ELSE qdisc'[q] = Whole \/ q \in unguarded
      BY <1>2, <2>0, <3>1, <3>2 DEF TimelineInv, Done, Safe, Unshaped
    <3>5. phase \in Measuring /\ phase # "verify" =>
              \A q \in Peer : Unshaped(q)'
      BY <1>2, <2>0, <3>1, <3>2 DEF TimelineInv, Unshaped
    <3> QED
      BY <1>2, <2>0, <3>1, <3>3, <3>4, <3>5 DEF TimelineInv, Done, Whole
  <2>10. CASE phase' \in Finally \cup {"idle"}
    BY <2>10 DEF TimelineInv, Finally
  <2>11. CASE UNCHANGED vars
    BY <2>0, <2>11 DEF vars, TimelineInv, Done, Safe, Fresh, Whole, Unshaped
  <2>12. CASE \E o \in Options : Begin(o)
    BY <1>1, <2>12
  <2>13. CASE StopBeside
    <3>1. UNCHANGED <<run, phase, todo, current, missed, qdisc, watchdogs, unguarded>>
      BY <2>13, StopIsApart
    <3> QED
      BY <1>2, <2>0, <3>1 DEF TimelineInv, Done, Safe, Fresh, Whole, Unshaped
  <2> QED
    BY <2>1, <2>2, <2>3, <2>4, <2>5, <2>6, <2>7, <2>8, <2>9, <2>10, <2>11, <2>12,
       <2>13, LeavingSteps
<1>3. CASE opt'.mode # "timeline"
  BY <1>3 DEF TimelineInv
<1> QED
  BY <1>1, <1>2, <1>3, OptionsStay

LEMMA MeasuredInductive == ContainerMode => (Spec => []MeasuredInv)
<1> SUFFICES ASSUME ContainerMode PROVE Spec => []MeasuredInv
  OBVIOUS
<1>1. Init => MeasuredInv
  BY DEF Init, MeasuredInv, Alone, StaticInv, TimelineInv, Arming, Measuring
<1>2. TypeOK /\ Busy /\ MeasuredInv /\ [Next]_vars => MeasuredInv'
  BY AloneStep, StaticStep, TimelineStep DEF MeasuredInv
<1> QED
  BY <1>1, <1>2, TypeInductive, PTL DEF Spec

\* In container mode, what a run verifies it verifies alone on its peers and
\* under its own profile, whatever earlier runs left behind; and in both modes
\* its finally takes the shaping away that arming handed over.
THEOREM ShapingIsTheRuns == ContainerMode => (Spec => []ShapingFollowsTheRun)
<1> SUFFICES ASSUME ContainerMode PROVE Spec => []ShapingFollowsTheRun
  OBVIOUS
<1>1. TypeOK /\ MeasuredInv => MeasuredUnderOwnProfile
  <2> SUFFICES ASSUME TypeOK, MeasuredInv, phase = "verify", ~opt.skip_check, NEW p \in Peer
               PROVE  /\ containers[p] \subseteq {run}
                      /\ \/ qdisc[p] = OwnProfile(p)
                         \/ p \in unguarded
                         \/ p \in missed /\ OwnProfile(p) = NoQdisc
    BY DEF MeasuredUnderOwnProfile
  <2>1. Alone /\ StaticInv /\ TimelineInv /\ opt.mode \in {"static", "timeline"}
    BY DEF MeasuredInv, TypeOK, Option
  <2>2. CASE opt.mode = "static"
    BY <2>1, <2>2 DEF Alone, StaticInv, Measuring, Done, OwnProfile, Whole, Unshaped
  <2>3. CASE opt.mode = "timeline"
    BY <2>1, <2>3 DEF Alone, TimelineInv, Measuring, OwnProfile, Whole, Unshaped
  <2> QED
    BY <2>1, <2>2, <2>3
<1>2. MeasuredUnderOwnProfile /\ HandedOverShapingIsReverted => ShapingFollowsTheRun
  BY DEF ShapingFollowsTheRun
<1>3. Spec => []MeasuredInv
  BY MeasuredInductive
<1> QED
  BY <1>1, <1>2, <1>3, TypeCorrect, TheFinallyReverts, PTL
================================================================================
