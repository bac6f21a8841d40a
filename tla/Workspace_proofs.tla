--------------------------- MODULE Workspace_proofs ---------------------------
(***************************************************************************)
(* Proofs about Workspace, then about TmuxRuns, the consoles beside its    *)
(* commands: for any number of commands, any options and any number of     *)
(* exceptions and kills.                                                   *)
(***************************************************************************)
EXTENDS TmuxRuns, TLAPS

USE WorkspaceAssumption

------------------------------------------------------------------------------
(* Type correctness *)

\* A command's record, and what its fields say of one another: a phase belongs
\* to one kind of command, and who starts a container knows whose.
Record == [phase : Phase, opt : Option \cup {NoOption},
           identity : Identity \cup {None}, inst : Command \cup {None},
           todo : SUBSET Name, returned : SUBSET Name, saw : SUBSET Container]

Well(r) ==
    /\ r.phase = "idle" => r = NotIssued
    /\ r.phase # "idle" => r.inst \in Command
    /\ r.opt.kind = "start" => r.identity \in Identity
    /\ r.phase \in {"run", "wait"} => r.identity \in Identity
    /\ r.phase \in {"list", "conflicts", "own"} => r.opt.kind # "smoke"
    /\ r.phase \in {"guard", "network", "verify", "remove"} => r.opt.kind = "smoke"
    /\ r.phase \in {"conflicts", "own", "run", "wait"} => r.opt.kind # "stop"

Issued == \A c \in Command : Well(cmd[c])

\* One field of a record replaced.
LEMMA FieldUpdates ==
    ASSUME NEW r \in Record
    PROVE  /\ \A phase \in Phase : [r EXCEPT !.phase = phase] \in Record
           /\ \A identity \in Identity : [r EXCEPT !.identity = identity] \in Record
           /\ \A todo \in SUBSET Name : [r EXCEPT !.todo = todo] \in Record
           /\ \A returned \in SUBSET Name : [r EXCEPT !.returned = returned] \in Record
           /\ \A saw \in SUBSET Container : [r EXCEPT !.saw = saw] \in Record
BY DEF Record

\* Command c takes a step to these values of its fields; no other command moves.
Becomes(c, ph, id, td, rt, sw) ==
    /\ cmd' \in [Command -> Record]
    /\ \A d \in Command : d # c => cmd'[d] = cmd[d]
    /\ cmd'[c].phase = ph /\ cmd'[c].identity = id
    /\ cmd'[c].todo = td /\ cmd'[c].returned = rt /\ cmd'[c].saw = sw
    /\ cmd'[c].opt = cmd[c].opt /\ cmd'[c].inst = cmd[c].inst

\* The ways an action writes the fields of its command's record.
LEMMA GotoStep ==
    ASSUME cmd \in [Command -> Record], NEW c \in Command, NEW ph \in Phase,
           Goto(c, ph)
    PROVE  Becomes(c, ph, cmd[c].identity, cmd[c].todo, cmd[c].returned, cmd[c].saw)
<1> DEFINE r1 == [cmd[c] EXCEPT !.phase = ph]
<1>1. r1 \in Record
  BY FieldUpdates
<1>2. cmd' = [cmd EXCEPT ![c] = r1]
  BY DEF Goto
<1>3. /\ r1.phase = ph
       /\ r1.identity = cmd[c].identity
       /\ r1.todo = cmd[c].todo
       /\ r1.returned = cmd[c].returned
       /\ r1.saw = cmd[c].saw
       /\ r1.opt = cmd[c].opt
       /\ r1.inst = cmd[c].inst
  BY DEF Record
<1> QED BY <1>1, <1>2, <1>3 DEF Becomes

LEMMA TodoStep ==
    ASSUME cmd \in [Command -> Record], NEW c \in Command, NEW td, td \in SUBSET Name,
           cmd' = [cmd EXCEPT ![c].todo = td]
    PROVE  Becomes(c, cmd[c].phase, cmd[c].identity, td, cmd[c].returned, cmd[c].saw)
<1> DEFINE r1 == [cmd[c] EXCEPT !.todo = td]
<1>1. r1 \in Record
  BY FieldUpdates
<1>2. cmd' = [cmd EXCEPT ![c] = r1]
  OBVIOUS
<1>3. /\ r1.phase = cmd[c].phase
       /\ r1.identity = cmd[c].identity
       /\ r1.todo = td
       /\ r1.returned = cmd[c].returned
       /\ r1.saw = cmd[c].saw
       /\ r1.opt = cmd[c].opt
       /\ r1.inst = cmd[c].inst
  BY DEF Record
<1> QED BY <1>1, <1>2, <1>3 DEF Becomes

LEMMA TodoPhaseStep ==
    ASSUME cmd \in [Command -> Record], NEW c \in Command, NEW td, td \in SUBSET Name, NEW ph \in Phase,
           cmd' = [cmd EXCEPT ![c].todo = td, ![c].phase = ph]
    PROVE  Becomes(c, ph, cmd[c].identity, td, cmd[c].returned, cmd[c].saw)
<1> DEFINE r1 == [cmd[c] EXCEPT !.todo = td]
           r2 == [r1 EXCEPT !.phase = ph]
<1>1. r1 \in Record
  BY FieldUpdates
<1>2. r2 \in Record
  BY <1>1, FieldUpdates
<1>3. cmd' = [cmd EXCEPT ![c] = r2]
  OBVIOUS
<1>4. /\ r2.phase = ph
       /\ r2.identity = cmd[c].identity
       /\ r2.todo = td
       /\ r2.returned = cmd[c].returned
       /\ r2.saw = cmd[c].saw
       /\ r2.opt = cmd[c].opt
       /\ r2.inst = cmd[c].inst
  BY DEF Record
<1> QED BY <1>2, <1>3, <1>4 DEF Becomes

LEMMA PhaseTodoStep ==
    ASSUME cmd \in [Command -> Record], NEW c \in Command, NEW td, td \in SUBSET Name, NEW ph \in Phase,
           cmd' = [cmd EXCEPT ![c].phase = ph, ![c].todo = td]
    PROVE  Becomes(c, ph, cmd[c].identity, td, cmd[c].returned, cmd[c].saw)
<1> DEFINE r1 == [cmd[c] EXCEPT !.phase = ph]
           r2 == [r1 EXCEPT !.todo = td]
<1>1. r1 \in Record
  BY FieldUpdates
<1>2. r2 \in Record
  BY <1>1, FieldUpdates
<1>3. cmd' = [cmd EXCEPT ![c] = r2]
  OBVIOUS
<1>4. /\ r2.phase = ph
       /\ r2.identity = cmd[c].identity
       /\ r2.todo = td
       /\ r2.returned = cmd[c].returned
       /\ r2.saw = cmd[c].saw
       /\ r2.opt = cmd[c].opt
       /\ r2.inst = cmd[c].inst
  BY DEF Record
<1> QED BY <1>2, <1>3, <1>4 DEF Becomes

LEMMA SawPhaseStep ==
    ASSUME cmd \in [Command -> Record], NEW c \in Command, NEW sw, sw \in SUBSET Container, NEW ph \in Phase,
           cmd' = [cmd EXCEPT ![c].saw = sw, ![c].phase = ph]
    PROVE  Becomes(c, ph, cmd[c].identity, cmd[c].todo, cmd[c].returned, sw)
<1> DEFINE r1 == [cmd[c] EXCEPT !.saw = sw]
           r2 == [r1 EXCEPT !.phase = ph]
<1>1. r1 \in Record
  BY FieldUpdates
<1>2. r2 \in Record
  BY <1>1, FieldUpdates
<1>3. cmd' = [cmd EXCEPT ![c] = r2]
  OBVIOUS
<1>4. /\ r2.phase = ph
       /\ r2.identity = cmd[c].identity
       /\ r2.todo = cmd[c].todo
       /\ r2.returned = cmd[c].returned
       /\ r2.saw = sw
       /\ r2.opt = cmd[c].opt
       /\ r2.inst = cmd[c].inst
  BY DEF Record
<1> QED BY <1>2, <1>3, <1>4 DEF Becomes

LEMMA ListStep ==
    ASSUME cmd \in [Command -> Record], NEW c \in Command, NEW sw, sw \in SUBSET Container, NEW td, td \in SUBSET Name, NEW ph \in Phase,
           cmd' = [cmd EXCEPT ![c].saw = sw, ![c].todo = td, ![c].phase = ph]
    PROVE  Becomes(c, ph, cmd[c].identity, td, cmd[c].returned, sw)
<1> DEFINE r1 == [cmd[c] EXCEPT !.saw = sw]
           r2 == [r1 EXCEPT !.todo = td]
           r3 == [r2 EXCEPT !.phase = ph]
<1>1. r1 \in Record
  BY FieldUpdates
<1>2. r2 \in Record
  BY <1>1, FieldUpdates
<1>3. r3 \in Record
  BY <1>2, FieldUpdates
<1>4. cmd' = [cmd EXCEPT ![c] = r3]
  OBVIOUS
<1>5. /\ r3.phase = ph
       /\ r3.identity = cmd[c].identity
       /\ r3.todo = td
       /\ r3.returned = cmd[c].returned
       /\ r3.saw = sw
       /\ r3.opt = cmd[c].opt
       /\ r3.inst = cmd[c].inst
  BY DEF Record
<1> QED BY <1>3, <1>4, <1>5 DEF Becomes

LEMMA PeerStep ==
    ASSUME cmd \in [Command -> Record], NEW c \in Command, NEW id \in Identity, NEW ph \in Phase,
           cmd' = [cmd EXCEPT ![c].identity = id, ![c].phase = ph]
    PROVE  Becomes(c, ph, id, cmd[c].todo, cmd[c].returned, cmd[c].saw)
<1> DEFINE r1 == [cmd[c] EXCEPT !.identity = id]
           r2 == [r1 EXCEPT !.phase = ph]
<1>1. r1 \in Record
  BY FieldUpdates
<1>2. r2 \in Record
  BY <1>1, FieldUpdates
<1>3. cmd' = [cmd EXCEPT ![c] = r2]
  OBVIOUS
<1>4. /\ r2.phase = ph
       /\ r2.identity = id
       /\ r2.todo = cmd[c].todo
       /\ r2.returned = cmd[c].returned
       /\ r2.saw = cmd[c].saw
       /\ r2.opt = cmd[c].opt
       /\ r2.inst = cmd[c].inst
  BY DEF Record
<1> QED BY <1>2, <1>3, <1>4 DEF Becomes

LEMMA ReturnStep ==
    ASSUME cmd \in [Command -> Record], NEW c \in Command, NEW rt, rt \in SUBSET Name, NEW ph \in Phase, NEW id \in Identity,
           cmd' = [cmd EXCEPT ![c].returned = rt, ![c].phase = ph, ![c].identity = id]
    PROVE  Becomes(c, ph, id, cmd[c].todo, rt, cmd[c].saw)
<1> DEFINE r1 == [cmd[c] EXCEPT !.returned = rt]
           r2 == [r1 EXCEPT !.phase = ph]
           r3 == [r2 EXCEPT !.identity = id]
<1>1. r1 \in Record
  BY FieldUpdates
<1>2. r2 \in Record
  BY <1>1, FieldUpdates
<1>3. r3 \in Record
  BY <1>2, FieldUpdates
<1>4. cmd' = [cmd EXCEPT ![c] = r3]
  OBVIOUS
<1>5. /\ r3.phase = ph
       /\ r3.identity = id
       /\ r3.todo = cmd[c].todo
       /\ r3.returned = rt
       /\ r3.saw = cmd[c].saw
       /\ r3.opt = cmd[c].opt
       /\ r3.inst = cmd[c].inst
  BY DEF Record
<1> QED BY <1>3, <1>4, <1>5 DEF Becomes

\* What the record of a command is made of.
LEMMA RecordOf ==
    ASSUME TypeOK, Issued, NEW c \in Command
    PROVE  /\ cmd \in [Command -> Record] /\ cmd[c] \in Record /\ Well(cmd[c])
           /\ cmd[c].todo \in SUBSET Name /\ cmd[c].returned \in SUBSET Name
           /\ cmd[c].saw \in SUBSET Container
           /\ cmd[c].opt.kind \in {"start", "stop", "smoke"} /\ cmd[c].opt.target \in {"t1", "t2"}
BY DEF TypeOK, Issued, Record, Option, NoOption

\* A list of containers and the names on it.
LEMMA NamesOf ==
    ASSUME TypeOK, NEW s \in SUBSET containers
    PROVE  s \in SUBSET Container /\ {NameOf(x) : x \in s} \in SUBSET Name
BY DEF TypeOK, NameOf, Name, Container

\* What a phase asks of the command that enters it.
Allowed(c, ph, id) ==
    /\ ph # "idle" /\ cmd[c].phase # "idle"
    /\ cmd[c].opt.kind = "start" \/ ph \in {"run", "wait"} => id \in Identity
    /\ ph \in {"list", "conflicts", "own"} => cmd[c].opt.kind # "smoke"
    /\ ph \in {"guard", "network", "verify", "remove"} => cmd[c].opt.kind = "smoke"
    /\ ph \in {"conflicts", "own", "run", "wait"} => cmd[c].opt.kind # "stop"

LEMMA AllowedKeepsIssued ==
    ASSUME TypeOK, Issued, NEW c \in Command, NEW ph, NEW id, NEW td, NEW rt, NEW sw,
           Becomes(c, ph, id, td, rt, sw), Allowed(c, ph, id)
    PROVE  cmd' \in [Command -> Record] /\ Issued'
<1>1. Well(cmd'[c])
  BY RecordOf DEF Becomes, Well, Allowed
<1> QED BY <1>1 DEF Becomes, Issued

\* A step to another phase and nothing else.
LEMMA GotoEffect ==
    ASSUME TypeOK, Issued, NEW c \in Command, NEW ph \in Phase, Goto(c, ph),
           Allowed(c, ph, cmd[c].identity)
    PROVE  /\ Becomes(c, ph, cmd[c].identity, cmd[c].todo, cmd[c].returned, cmd[c].saw)
           /\ cmd' \in [Command -> Record] /\ Issued'
<1>1. Becomes(c, ph, cmd[c].identity, cmd[c].todo, cmd[c].returned, cmd[c].saw)
  BY RecordOf, GotoStep
<1> QED BY <1>1, AllowedKeepsIssued

\* start lists its conflicts.
LEMMA ListConflictsEffect ==
    ASSUME TypeOK, Issued, NEW c \in Command, ListConflicts(c)
    PROVE  /\ LET found == IF cmd[c].opt.skip THEN {} ELSE Conflicts(c)
              IN  Becomes(c, IF found = {} THEN "own"
                             ELSE IF cmd[c].opt.force THEN "conflicts" ELSE "refused",
                          cmd[c].identity, {NameOf(x) : x \in found}, cmd[c].returned, found)
           /\ cmd' \in [Command -> Record] /\ Issued'
<1> DEFINE found == IF cmd[c].opt.skip THEN {} ELSE Conflicts(c)
           ph    == IF found = {} THEN "own"
                    ELSE IF cmd[c].opt.force THEN "conflicts" ELSE "refused"
           td    == {NameOf(x) : x \in found}
<1>1. found \in SUBSET Container /\ td \in SUBSET Name /\ ph \in Phase
  BY NamesOf DEF Conflicts, Phase, InTry, Ended
<1>2. cmd' = [cmd EXCEPT ![c].saw = found, ![c].todo = td, ![c].phase = ph]
  BY DEF ListConflicts
<1>3. Allowed(c, ph, cmd[c].identity)
  BY RecordOf DEF ListConflicts, In, Well, Allowed
<1> HIDE DEF found, ph, td
<1>4. Becomes(c, ph, cmd[c].identity, td, cmd[c].returned, found)
  BY RecordOf, <1>1, <1>2, ListStep
<1>5. cmd' \in [Command -> Record] /\ Issued'
  BY <1>3, <1>4, AllowedKeepsIssued
<1> QED BY <1>4, <1>5 DEF found, ph, td

\* start stops one of them.
LEMMA StopConflictEffect ==
    ASSUME TypeOK, Issued, NEW c \in Command, StopConflict(c)
    PROVE  /\ \E name \in cmd[c].todo :
                /\ containers' = Stop(name)
                /\ Becomes(c, IF cmd[c].todo = {name} THEN "own" ELSE "conflicts",
                           cmd[c].identity, cmd[c].todo \ {name}, cmd[c].returned, cmd[c].saw)
           /\ cmd' \in [Command -> Record] /\ Issued'
<1>1. PICK name \in cmd[c].todo :
         /\ containers' = Stop(name)
         /\ cmd' = [cmd EXCEPT ![c].todo  = @ \ {name},
                               ![c].phase = IF cmd[c].todo = {name} THEN "own" ELSE @]
  BY DEF StopConflict
<1> DEFINE td == cmd[c].todo \ {name}
           ph == IF cmd[c].todo = {name} THEN "own" ELSE "conflicts"
<1>2. cmd' = [cmd EXCEPT ![c].todo = td, ![c].phase = ph]
  BY RecordOf, <1>1 DEF StopConflict, In, Record
<1>3. td \in SUBSET Name /\ ph \in Phase
  BY RecordOf DEF Phase
<1>4. Allowed(c, ph, cmd[c].identity)
  BY RecordOf, <1>1 DEF StopConflict, In, Well, Allowed
<1> HIDE DEF td, ph
<1>5. Becomes(c, ph, cmd[c].identity, td, cmd[c].returned, cmd[c].saw)
  BY RecordOf, <1>2, <1>3, TodoPhaseStep
<1>6. cmd' \in [Command -> Record] /\ Issued'
  BY <1>4, <1>5, AllowedKeepsIssued
<1> QED BY <1>1, <1>5, <1>6 DEF td, ph

\* The smoke guard.
LEMMA GuardEffect ==
    ASSUME TypeOK, Issued, NEW c \in Command, Guard(c)
    PROVE  /\ Becomes(c, IF ~cmd[c].opt.skip /\ OnTargetNetworks(c) # {} THEN "refused" ELSE "network",
                      cmd[c].identity, cmd[c].todo, cmd[c].returned,
                      IF cmd[c].opt.skip THEN {} ELSE SmokeContainers(cmd[c].opt.target))
           /\ cmd' \in [Command -> Record] /\ Issued'
<1> DEFINE sw == IF cmd[c].opt.skip THEN {} ELSE SmokeContainers(cmd[c].opt.target)
           ph == IF ~cmd[c].opt.skip /\ OnTargetNetworks(c) # {} THEN "refused" ELSE "network"
<1>1. sw \in SUBSET Container /\ ph \in Phase
  BY NamesOf DEF SmokeContainers, Phase, InTry, Ended
<1>2. cmd' = [cmd EXCEPT ![c].saw = sw, ![c].phase = ph]
  BY DEF Guard
<1>3. Allowed(c, ph, cmd[c].identity)
  BY RecordOf DEF Guard, In, Well, Allowed
<1> HIDE DEF sw, ph
<1>4. Becomes(c, ph, cmd[c].identity, cmd[c].todo, cmd[c].returned, sw)
  BY RecordOf, <1>1, <1>2, SawPhaseStep
<1>5. cmd' \in [Command -> Record] /\ Issued'
  BY <1>3, <1>4, AllowedKeepsIssued
<1> QED BY <1>4, <1>5 DEF sw, ph

\* The smoke network.
LEMMA EnsureNetworkEffect ==
    ASSUME TypeOK, Issued, NEW c \in Command, EnsureNetwork(c)
    PROVE  /\ Becomes(c, "run", FirstPeer, cmd[c].todo, cmd[c].returned, cmd[c].saw)
           /\ cmd' \in [Command -> Record] /\ Issued'
<1>1. FirstPeer \in Identity /\ "run" \in Phase
  BY DEF FirstPeer, Phase, InTry
<1>2. Becomes(c, "run", FirstPeer, cmd[c].todo, cmd[c].returned, cmd[c].saw)
  BY RecordOf, <1>1, PeerStep DEF EnsureNetwork
<1>3. Allowed(c, "run", FirstPeer)
  BY RecordOf, <1>1 DEF EnsureNetwork, In, Well, Allowed
<1> QED BY <1>2, <1>3, AllowedKeepsIssued

\* start_session returns.
LEMMA ReadyEffect ==
    ASSUME TypeOK, Issued, NEW c \in Command, Ready(c)
    PROVE  /\ LET returned == cmd[c].returned \cup {<<cmd[c].inst, cmd[c].identity>>}
                  rest     == {p \in Identity : <<cmd[c].inst, p>> \notin returned}
              IN  Becomes(c, IF cmd[c].opt.kind = "start" THEN "done"
                             ELSE IF rest = {} THEN "verify" ELSE "run",
                          IF cmd[c].opt.kind = "start" \/ rest = {} THEN cmd[c].identity
                          ELSE CHOOSE p \in rest : TRUE,
                          cmd[c].todo, returned, cmd[c].saw)
           /\ cmd' \in [Command -> Record] /\ Issued'
<1> DEFINE rt   == cmd[c].returned \cup {<<cmd[c].inst, cmd[c].identity>>}
           rest == {p \in Identity : <<cmd[c].inst, p>> \notin rt}
           ph   == IF cmd[c].opt.kind = "start" THEN "done"
                   ELSE IF rest = {} THEN "verify" ELSE "run"
           id   == IF cmd[c].opt.kind = "start" \/ rest = {} THEN cmd[c].identity
                   ELSE CHOOSE p \in rest : TRUE
<1>1. cmd[c].inst \in Command /\ cmd[c].identity \in Identity
  BY RecordOf DEF Ready, In, Well
<1>2. rt \in SUBSET Name /\ ph \in Phase /\ id \in Identity
  BY RecordOf, <1>1 DEF Name, Phase, InTry, Ended
<1>3. cmd' = [cmd EXCEPT ![c].returned = rt, ![c].phase = ph, ![c].identity = id]
  BY DEF Ready
<1>4. Allowed(c, ph, id)
  BY RecordOf, <1>1, <1>2 DEF Ready, In, Well, Allowed
<1> HIDE DEF rt, rest, ph, id
<1>5. Becomes(c, ph, id, cmd[c].todo, rt, cmd[c].saw)
  BY RecordOf, <1>2, <1>3, ReturnStep
<1>6. cmd' \in [Command -> Record] /\ Issued'
  BY <1>4, <1>5, AllowedKeepsIssued
<1> QED BY <1>5, <1>6 DEF rt, rest, ph, id

\* stop lists what it will stop.
LEMMA ListToStopEffect ==
    ASSUME TypeOK, Issued, NEW c \in Command, ListToStop(c)
    PROVE  /\ LET found == {x \in containers : cmd[c].identity \in {None, x.identity}}
              IN  Becomes(c, "cleanup", cmd[c].identity, {NameOf(x) : x \in found},
                          cmd[c].returned, found)
           /\ cmd' \in [Command -> Record] /\ Issued'
<1> DEFINE found == {x \in containers : cmd[c].identity \in {None, x.identity}}
           td    == {NameOf(x) : x \in found}
<1>1. found \in SUBSET Container /\ td \in SUBSET Name /\ "cleanup" \in Phase
  BY NamesOf DEF Phase
<1>2. cmd' = [cmd EXCEPT ![c].saw = found, ![c].todo = td, ![c].phase = "cleanup"]
  BY DEF ListToStop
<1>3. Allowed(c, "cleanup", cmd[c].identity)
  BY RecordOf DEF ListToStop, In, Well, Allowed
<1> HIDE DEF found, td
<1>4. Becomes(c, "cleanup", cmd[c].identity, td, cmd[c].returned, found)
  BY RecordOf, <1>1, <1>2, ListStep
<1>5. cmd' \in [Command -> Record] /\ Issued'
  BY <1>3, <1>4, AllowedKeepsIssued
<1> QED BY <1>4, <1>5 DEF found, td

\* stop, and the finally of a smoke, stop one container.
LEMMA CleanupEffect ==
    ASSUME TypeOK, Issued, NEW c \in Command, Cleanup(c)
    PROVE  /\ \E name \in cmd[c].todo :
                /\ containers' = Stop(name)
                /\ Becomes(c, cmd[c].phase, cmd[c].identity, cmd[c].todo \ {name},
                           cmd[c].returned, cmd[c].saw)
           /\ cmd' \in [Command -> Record] /\ Issued'
<1>1. PICK name \in cmd[c].todo :
         /\ containers' = Stop(name)
         /\ cmd' = [cmd EXCEPT ![c].todo = @ \ {name}]
  BY DEF Cleanup
<1> DEFINE td == cmd[c].todo \ {name}
<1>2. cmd' = [cmd EXCEPT ![c].todo = td] /\ td \in SUBSET Name
  BY RecordOf, <1>1
<1>3. Allowed(c, cmd[c].phase, cmd[c].identity)
  BY RecordOf DEF Cleanup, In, Well, Allowed
<1> HIDE DEF td
<1>4. Becomes(c, cmd[c].phase, cmd[c].identity, td, cmd[c].returned, cmd[c].saw)
  BY RecordOf, <1>2, TodoStep
<1>5. cmd' \in [Command -> Record] /\ Issued'
  BY <1>3, <1>4, AllowedKeepsIssued
<1> QED BY <1>1, <1>4, <1>5 DEF td

\* An exception, inside the try of a smoke or elsewhere.
LEMMA AfterRaiseEffect ==
    ASSUME TypeOK, Issued, NEW c \in Command, AfterRaise(c),
           cmd[c].phase # "idle"
    PROVE  /\ \/ /\ cmd[c].opt.kind = "smoke" /\ cmd[c].phase \in InTry
                 /\ Becomes(c, "cleanup", cmd[c].identity,
                            IF cmd[c].opt.keep THEN {} ELSE cmd[c].returned,
                            cmd[c].returned, cmd[c].saw)
              \/ Becomes(c, "failed", cmd[c].identity, cmd[c].todo, cmd[c].returned, cmd[c].saw)
           /\ cmd' \in [Command -> Record] /\ Issued'
<1> DEFINE td == IF cmd[c].opt.keep THEN {} ELSE cmd[c].returned
<1>1. td \in SUBSET Name /\ "cleanup" \in Phase /\ "failed" \in Phase
  BY RecordOf DEF Phase, Ended
<1>2. \A ph \in {"cleanup", "failed"} : Allowed(c, ph, cmd[c].identity)
  BY RecordOf DEF Well, Allowed
<1>3. CASE cmd[c].opt.kind = "smoke" /\ cmd[c].phase \in InTry
  <2>1. cmd' = [cmd EXCEPT ![c].phase = "cleanup", ![c].todo = td]
    BY <1>3 DEF AfterRaise
  <2> HIDE DEF td
  <2>2. Becomes(c, "cleanup", cmd[c].identity, td, cmd[c].returned, cmd[c].saw)
    BY RecordOf, <1>1, <2>1, PhaseTodoStep
  <2>3. cmd' \in [Command -> Record] /\ Issued'
    BY <1>2, <2>2, AllowedKeepsIssued
  <2> QED BY <1>3, <2>2, <2>3 DEF td
<1>4. CASE ~(cmd[c].opt.kind = "smoke" /\ cmd[c].phase \in InTry)
  <2>1. Goto(c, "failed")
    BY <1>4 DEF AfterRaise
  <2> QED BY <1>1, <1>2, <2>1, GotoEffect
<1> QED BY <1>3, <1>4

\* Issuing a command gives it its options and the instance it works on.
LEMMA IssueEffect ==
    ASSUME TypeOK, Issued, NEW c \in Command, NEW o \in Options[c], Issue(c, o)
    PROVE  \E inst \in Command :
             /\ o.join => o.kind = "start" /\ \E d \in Command :
                    d # c /\ cmd[d].opt.kind = "start" /\ inst = cmd[d].inst
             /\ ~o.join => inst = c
             /\ cmd' \in [Command -> Record] /\ Issued'
             /\ \A d \in Command : d # c => cmd'[d] = cmd[d]
             /\ cmd[c].opt.kind = "stop" /\ cmd[c].saw = {}
             /\ cmd'[c] = [phase |-> IF o.kind = "smoke" THEN "guard" ELSE "list", opt |-> o,
                           identity |-> o.identity, inst |-> inst,
                           todo |-> {}, returned |-> {}, saw |-> {}]
<1>1. /\ o \in Option /\ cmd \in [Command -> Record] /\ cmd[c] = NotIssued
      /\ o.kind = "start" => o.identity \in Identity
      /\ o.join => o.kind = "start"
  BY RecordOf DEF Issue, In, Option, Well
<1>2. \A d \in Command : cmd[d].opt.kind = "start" => d # c /\ cmd[d].inst \in Command
  BY <1>1 DEF Issued, Well, NotIssued, NoOption
<1>3. PICK inst \in IF o.join
                    THEN {cmd[d].inst : d \in {e \in Command : cmd[e].opt.kind = "start" /\ e < c}}
                    ELSE {c} :
         cmd' = [cmd EXCEPT ![c] =
                   [phase |-> IF o.kind = "smoke" THEN "guard" ELSE "list", opt |-> o,
                    identity |-> o.identity, inst |-> inst,
                    todo |-> {}, returned |-> {}, saw |-> {}]]
  BY <1>1 DEF Issue
<1>4. /\ inst \in Command
      /\ o.join => \E d \in Command : d # c /\ cmd[d].opt.kind = "start" /\ inst = cmd[d].inst
      /\ ~o.join => inst = c
  BY <1>2, <1>3
<1> DEFINE r == [phase |-> IF o.kind = "smoke" THEN "guard" ELSE "list", opt |-> o,
                 identity |-> o.identity, inst |-> inst,
                 todo |-> {}, returned |-> {}, saw |-> {}]
<1>5. r \in Record
  BY <1>1, <1>4 DEF Record, Option, Phase
<1>6. Well(r)
  BY <1>1, <1>4 DEF Well
<1>7. cmd' = [cmd EXCEPT ![c] = r]
  BY <1>3
<1> HIDE DEF r
<1>8. /\ cmd' \in [Command -> Record]
      /\ \A d \in Command : d # c => cmd'[d] = cmd[d]
      /\ cmd'[c] = r
  BY <1>1, <1>5, <1>7
<1>9. Issued'
  BY <1>6, <1>8 DEF Issued
<1>10. cmd[c].opt.kind = "stop" /\ cmd[c].saw = {}
  BY <1>1 DEF NotIssued, NoOption
<1> QED BY <1>1, <1>4, <1>8, <1>9, <1>10 DEF r

LEMMA TypeInductive == Spec => [](TypeOK /\ Issued)
<1> DEFINE Inv == TypeOK /\ Issued
<1>1. Init => Inv
  BY DEF Init, TypeOK, Issued, Well, NotIssued, NoOption, Option, Phase
<1>2. Inv /\ [Next]_vars => Inv'
  <2> SUFFICES ASSUME TypeOK, Issued, [Next]_vars PROVE Inv'
    OBVIOUS
  <2>a. ASSUME cmd' \in [Command -> Record] /\ Issued', containers' \subseteq Container,
               networks' \subseteq [inst : Command, target : {"t1", "t2"}],
               faults' \in 0..MaxFaults
        PROVE  Inv'
    BY <2>a DEF TypeOK, Record
  <2>b. /\ containers \subseteq Container /\ faults \in 0..MaxFaults
        /\ networks \subseteq [inst : Command, target : {"t1", "t2"}]
        /\ \A name : Stop(name) \subseteq Container
        /\ Fault => faults' \in 0..MaxFaults
    BY DEF TypeOK, Fault, Stop
  <2>1. ASSUME NEW c \in Command, NEW o \in Options[c], Issue(c, o) PROVE Inv'
    BY <2>1, <2>a, <2>b, IssueEffect DEF Issue
  <2>2. ASSUME NEW c \in Command, ListConflicts(c) PROVE Inv'
    BY <2>2, <2>a, <2>b, ListConflictsEffect DEF ListConflicts
  <2>3. ASSUME NEW c \in Command, StopConflict(c) PROVE Inv'
    BY <2>3, <2>a, <2>b, StopConflictEffect DEF StopConflict
  <2>4. ASSUME NEW c \in Command, StopOwn(c) PROVE Inv'
    <3>1. Goto(c, "run") /\ "run" \in Phase /\ Allowed(c, "run", cmd[c].identity)
      BY <2>4, RecordOf DEF StopOwn, In, Well, Allowed, Phase, InTry, Ended
    <3> QED BY <2>4, <2>a, <2>b, <3>1, GotoEffect DEF StopOwn
  <2>5. ASSUME NEW c \in Command, Guard(c) PROVE Inv'
    BY <2>5, <2>a, <2>b, GuardEffect DEF Guard
  <2>6. ASSUME NEW c \in Command, EnsureNetwork(c) PROVE Inv'
    <3>1. cmd[c].inst \in Command /\ cmd[c].opt.target \in {"t1", "t2"}
      BY <2>6, RecordOf DEF EnsureNetwork, In, Well
    <3>2. networks' \subseteq [inst : Command, target : {"t1", "t2"}]
      BY <2>6, <2>b, <3>1 DEF EnsureNetwork
    <3>3. containers' = containers /\ faults' = faults
      BY <2>6 DEF EnsureNetwork
    <3>4. cmd' \in [Command -> Record] /\ Issued'
      BY <2>6, EnsureNetworkEffect
    <3> QED BY <2>a, <2>b, <3>2, <3>3, <3>4
  <2>7. ASSUME NEW c \in Command, RunContainer(c) PROVE Inv'
    <3>1. Goto(c, "wait") /\ "wait" \in Phase /\ Allowed(c, "wait", cmd[c].identity)
      BY <2>7, RecordOf DEF RunContainer, In, Well, Allowed, Phase, InTry
    <3>2. cmd[c].inst \in Command /\ cmd[c].identity \in Identity
      BY <2>7, RecordOf DEF RunContainer, In, Well
    <3>3. [inst |-> cmd[c].inst, identity |-> cmd[c].identity,
           net |-> IF cmd[c].opt.kind = "smoke" THEN cmd[c].inst ELSE Host, by |-> c] \in Container
      BY <3>2 DEF Container
    <3>4. containers' \subseteq Container
      BY <2>7, <2>b, <3>3 DEF RunContainer
    <3> QED BY <2>7, <2>a, <2>b, <3>1, <3>4, GotoEffect DEF RunContainer
  <2>8. ASSUME NEW c \in Command, Ready(c) PROVE Inv'
    BY <2>8, <2>a, <2>b, ReadyEffect DEF Ready
  <2>9. ASSUME NEW c \in Command, NeverReady(c) PROVE Inv'
    <3>1. AfterRaise(c) /\ cmd[c].phase # "idle"
      BY <2>9 DEF NeverReady, In
    <3> QED BY <2>9, <2>a, <2>b, <3>1, AfterRaiseEffect DEF NeverReady
  <2>10. ASSUME NEW c \in Command, Verified(c) PROVE Inv'
    <3>1. AfterRaise(c) /\ cmd[c].phase # "idle"
      BY <2>10 DEF Verified, In
    <3> QED BY <2>10, <2>a, <2>b, <3>1, AfterRaiseEffect DEF Verified
  <2>11. ASSUME NEW c \in Command, ListToStop(c) PROVE Inv'
    BY <2>11, <2>a, <2>b, ListToStopEffect DEF ListToStop
  <2>12. ASSUME NEW c \in Command, Cleanup(c) PROVE Inv'
    BY <2>12, <2>a, <2>b, CleanupEffect DEF Cleanup
  <2>13. ASSUME NEW c \in Command, Cleaned(c) PROVE Inv'
    <3> DEFINE ph == IF cmd[c].opt.kind = "smoke" /\ ~cmd[c].opt.keep THEN "remove" ELSE "done"
    <3>1. Goto(c, ph) /\ ph \in Phase /\ Allowed(c, ph, cmd[c].identity)
      BY <2>13, RecordOf DEF Cleaned, In, Well, Allowed, Phase, Ended
    <3> HIDE DEF ph
    <3> QED BY <2>13, <2>a, <2>b, <3>1, GotoEffect DEF Cleaned
  <2>14. ASSUME NEW c \in Command, RemoveNetwork(c) PROVE Inv'
    <3>1. Goto(c, "done") /\ "done" \in Phase /\ Allowed(c, "done", cmd[c].identity)
      BY <2>14, RecordOf DEF RemoveNetwork, In, Well, Allowed, Phase, InTry, Ended
    <3> QED BY <2>14, <2>a, <2>b, <3>1, GotoEffect DEF RemoveNetwork
  <2>15. ASSUME NEW c \in Command, Raise(c) PROVE Inv'
    <3>1. AfterRaise(c) /\ cmd[c].phase # "idle"
      BY <2>15 DEF Raise, In, Running
    <3> QED BY <2>15, <2>a, <2>b, <3>1, AfterRaiseEffect DEF Raise
  <2>16. ASSUME NEW c \in Command, Kill(c) PROVE Inv'
    <3>1. Goto(c, "killed") /\ "killed" \in Phase /\ Allowed(c, "killed", cmd[c].identity)
      BY <2>16, RecordOf DEF Kill, In, Well, Allowed, Phase, InTry, Ended, Running
    <3> QED BY <2>16, <2>a, <2>b, <3>1, GotoEffect DEF Kill
  <2>17. CASE UNCHANGED vars
    BY <2>17, <2>a, <2>b, RecordOf DEF vars, Issued, TypeOK
  <2> QED
    BY <2>1, <2>2, <2>3, <2>4, <2>5, <2>6, <2>7, <2>8, <2>9, <2>10, <2>11, <2>12, <2>13, <2>14, <2>15, <2>16, <2>17 DEF Next, Step
<1> QED BY <1>1, <1>2, PTL DEF Spec

\* The containers, the networks and every command's lists stay well typed.
THEOREM TypeCorrect == Spec => []TypeOK
BY TypeInductive, PTL

------------------------------------------------------------------------------
(* Whose containers a smoke can stop *)

\* An instance belongs to the starts that share it or to one smoke, and so do
\* its containers and everything a smoke will ever stop.
Ownership ==
    /\ \A c \in Command : cmd[c].opt.kind = "start" => cmd[cmd[c].inst].opt.kind = "start"
    /\ \A c \in Command : cmd[c].opt.kind = "smoke" =>
          /\ cmd[c].inst = c
          /\ \A name \in cmd[c].todo \cup cmd[c].returned : name[1] = c
    /\ \A x \in containers : /\ cmd[x.by].opt.kind \in {"start", "smoke"}
                             /\ x.inst = cmd[x.by].inst

\* An instance that is worked on was opened.
LEMMA InstOf ==
    ASSUME Issued, NEW c \in Command, cmd[c].opt.kind # "stop"
    PROVE  cmd[c].inst \in Command
BY DEF Issued, Well, NotIssued, NoOption

\* A step that makes no container and puts no stranger on a smoke's lists.
LEMMA OwnershipStep ==
    ASSUME TypeOK, Issued, Ownership,
           NEW c \in Command, NEW ph, NEW id, NEW td, NEW rt, NEW sw,
           Becomes(c, ph, id, td, rt, sw), containers' \subseteq containers,
           cmd[c].opt.kind = "smoke" => \A name \in td \cup rt : name[1] = c
    PROVE  Ownership'
<1>1. \A d \in Command : cmd'[d].opt = cmd[d].opt /\ cmd'[d].inst = cmd[d].inst
  BY DEF Becomes
<1>a. \A d \in Command : cmd[d].opt.kind = "start" => cmd[d].inst \in Command
  BY InstOf
<1>2. \A x \in containers : x.by \in Command
  BY DEF TypeOK, Container
<1>3. ASSUME NEW d \in Command, cmd'[d].opt.kind = "start"
      PROVE  cmd'[cmd'[d].inst].opt.kind = "start"
  <2>1. cmd[d].opt.kind = "start" /\ cmd'[d].inst = cmd[d].inst /\ cmd[d].inst \in Command
    BY <1>1, <1>a, <1>3
  <2>2. cmd[cmd[d].inst].opt.kind = "start"
    BY <2>1 DEF Ownership
  <2> QED BY <1>1, <2>1, <2>2
<1>4. ASSUME NEW d \in Command, cmd'[d].opt.kind = "smoke"
      PROVE  cmd'[d].inst = d /\ \A name \in cmd'[d].todo \cup cmd'[d].returned : name[1] = d
  <2>1. CASE d = c
    <3>1. cmd[c].opt.kind = "smoke" /\ cmd'[c].inst = cmd[c].inst
      BY <1>1, <1>4, <2>1
    <3>2. cmd[c].inst = c
      BY <3>1 DEF Ownership
    <3>3. cmd'[c].todo = td /\ cmd'[c].returned = rt
      BY DEF Becomes
    <3> QED BY <2>1, <3>1, <3>2, <3>3
  <2>2. CASE d # c
    BY <1>4, <2>2 DEF Becomes, Ownership
  <2> QED BY <2>1, <2>2
<1>5. \A x \in containers' : /\ cmd'[x.by].opt.kind \in {"start", "smoke"}
                             /\ x.inst = cmd'[x.by].inst
  BY <1>1, <1>2 DEF Ownership
<1> QED BY <1>3, <1>4, <1>5 DEF Ownership

\* The same lists, or those an exception leaves.
LEMMA GotoKeepsOwnership ==
    ASSUME TypeOK, Issued, Ownership, NEW c \in Command, NEW ph, NEW id,
           Becomes(c, ph, id, cmd[c].todo, cmd[c].returned, cmd[c].saw),
           containers' \subseteq containers
    PROVE  Ownership'
<1>1. cmd[c].opt.kind = "smoke" => \A name \in cmd[c].todo \cup cmd[c].returned : name[1] = c
  BY DEF Ownership
<1> QED BY <1>1, OwnershipStep

LEMMA RaiseKeepsOwnership ==
    ASSUME TypeOK, Issued, Ownership, NEW c \in Command, AfterRaise(c),
           cmd[c].phase # "idle", containers' = containers
    PROVE  Ownership'
<1> DEFINE td == IF cmd[c].opt.keep THEN {} ELSE cmd[c].returned
<1>1. cmd[c].opt.kind = "smoke" => \A name \in td \cup cmd[c].returned : name[1] = c
  BY DEF Ownership
<1> HIDE DEF td
<1>2. CASE Becomes(c, "cleanup", cmd[c].identity, td, cmd[c].returned, cmd[c].saw)
  BY <1>1, <1>2, OwnershipStep
<1>3. CASE Becomes(c, "failed", cmd[c].identity, cmd[c].todo, cmd[c].returned, cmd[c].saw)
  BY <1>3, GotoKeepsOwnership
<1> QED BY <1>2, <1>3, AfterRaiseEffect DEF td

LEMMA OwnershipInductive == Spec => [](TypeOK /\ Issued /\ Ownership)
<1>1. Init => Ownership
  <2> SUFFICES ASSUME Init PROVE Ownership
    OBVIOUS
  <2>1. \A c \in Command : cmd[c].opt.kind = "stop"
    BY DEF Init, NotIssued, NoOption
  <2>2. containers = {}
    BY DEF Init
  <2> QED BY <2>1, <2>2 DEF Ownership
<1>2. TypeOK /\ Issued /\ Ownership /\ [Next]_vars => Ownership'
  <2> SUFFICES ASSUME TypeOK, Issued, Ownership, [Next]_vars PROVE Ownership'
    OBVIOUS
  <2>a. \A name : Stop(name) \subseteq containers
    BY DEF Stop
  <2>b. \A c \in Command : cmd[c].opt.kind = "smoke" =>
           \A name \in cmd[c].todo \cup cmd[c].returned : name[1] = c
    BY DEF Ownership
  <2>c. \A c \in Command : cmd[c].opt.kind = "start" => cmd[c].inst \in Command
    BY InstOf
  <2>1. ASSUME NEW c \in Command, NEW o \in Options[c], Issue(c, o) PROVE Ownership'
    <3>1. PICK inst \in Command :
            /\ o.join => o.kind = "start" /\ \E d \in Command :
                   d # c /\ cmd[d].opt.kind = "start" /\ inst = cmd[d].inst
            /\ ~o.join => inst = c
            /\ \A d \in Command : d # c => cmd'[d] = cmd[d]
            /\ cmd[c].opt.kind = "stop"
            /\ cmd'[c].opt = o /\ cmd'[c].inst = inst
            /\ cmd'[c].todo = {} /\ cmd'[c].returned = {}
      <4>1. PICK inst \in Command :
              /\ o.join => o.kind = "start" /\ \E d \in Command :
                     d # c /\ cmd[d].opt.kind = "start" /\ inst = cmd[d].inst
              /\ ~o.join => inst = c
              /\ \A d \in Command : d # c => cmd'[d] = cmd[d]
              /\ cmd[c].opt.kind = "stop"
              /\ cmd'[c] = [phase |-> IF o.kind = "smoke" THEN "guard" ELSE "list", opt |-> o,
                            identity |-> o.identity, inst |-> inst,
                            todo |-> {}, returned |-> {}, saw |-> {}]
        BY <2>1, IssueEffect
      <4>2. /\ cmd'[c].opt = o /\ cmd'[c].inst = inst
            /\ cmd'[c].todo = {} /\ cmd'[c].returned = {}
        BY <4>1
      <4> QED BY <4>1, <4>2
    <3>2. \A x \in containers : x.by \in Command \ {c}
      BY <3>1 DEF TypeOK, Container, Ownership
    <3>3. \A d \in Command : cmd[d].opt.kind = "start" =>
             cmd[d].inst \in Command \ {c} /\ cmd[cmd[d].inst].opt.kind = "start"
      BY <2>c, <3>1 DEF Ownership
    <3>4. ASSUME NEW d \in Command, cmd'[d].opt.kind = "start"
          PROVE  cmd'[cmd'[d].inst].opt.kind = "start"
      <4>1. CASE d # c
        <5>1. cmd'[d] = cmd[d]
          BY <3>1, <4>1
        <5>2. cmd[d].inst \in Command \ {c} /\ cmd[cmd[d].inst].opt.kind = "start"
          BY <3>3, <3>4, <5>1
        <5> QED BY <3>1, <5>1, <5>2
      <4>2. CASE d = c
        BY <3>1, <3>3, <3>4, <4>2
      <4> QED BY <4>1, <4>2
    <3>5. ASSUME NEW d \in Command, cmd'[d].opt.kind = "smoke"
          PROVE  cmd'[d].inst = d /\ \A name \in cmd'[d].todo \cup cmd'[d].returned : name[1] = d
      <4>1. CASE d # c
        BY <3>1, <3>5, <4>1 DEF Ownership
      <4>2. CASE d = c
        BY <3>1, <3>5, <4>2
      <4> QED BY <4>1, <4>2
    <3>6. containers' = containers
      BY <2>1 DEF Issue
    <3>7. ASSUME NEW x \in containers'
          PROVE  cmd'[x.by].opt.kind \in {"start", "smoke"} /\ x.inst = cmd'[x.by].inst
      <4>1. x \in containers /\ cmd'[x.by] = cmd[x.by]
        BY <3>1, <3>2, <3>6
      <4> QED BY <4>1 DEF Ownership
    <3> QED BY <3>4, <3>5, <3>7 DEF Ownership
  <2>2. ASSUME NEW c \in Command, ListConflicts(c) PROVE Ownership'
    <3>1. containers' \subseteq containers /\ cmd[c].opt.kind = "start"
      BY <2>2 DEF ListConflicts
    <3> QED BY <2>2, <3>1, ListConflictsEffect, OwnershipStep
  <2>3. ASSUME NEW c \in Command, StopConflict(c) PROVE Ownership'
    <3>1. cmd[c].opt.kind # "smoke"
      BY <2>3, RecordOf DEF StopConflict, In, Well
    <3> QED BY <2>3, <2>a, <3>1, StopConflictEffect, OwnershipStep
  <2>4. ASSUME NEW c \in Command, StopOwn(c) PROVE Ownership'
    <3>1. Goto(c, "run") /\ "run" \in Phase /\ Allowed(c, "run", cmd[c].identity) /\ containers' \subseteq containers
      BY <2>4, <2>a, RecordOf DEF StopOwn, In, Well, Allowed, Phase, InTry, Ended
    <3> QED BY <2>b, <3>1, GotoEffect, GotoKeepsOwnership
  <2>5. ASSUME NEW c \in Command, Guard(c) PROVE Ownership'
    <3> DEFINE ph == IF ~cmd[c].opt.skip /\ OnTargetNetworks(c) # {} THEN "refused" ELSE "network"
               sw == IF cmd[c].opt.skip THEN {} ELSE SmokeContainers(cmd[c].opt.target)
    <3>1. containers' \subseteq containers
      BY <2>5 DEF Guard
    <3>2. Becomes(c, ph, cmd[c].identity, cmd[c].todo, cmd[c].returned, sw)
      BY <2>5, GuardEffect
    <3> HIDE DEF ph, sw
    <3> QED BY <2>b, <3>1, <3>2, OwnershipStep
  <2>6. ASSUME NEW c \in Command, EnsureNetwork(c) PROVE Ownership'
    <3>1. containers' \subseteq containers
      BY <2>6 DEF EnsureNetwork
    <3> QED BY <2>6, <2>b, <3>1, EnsureNetworkEffect, GotoKeepsOwnership
  <2>7. ASSUME NEW c \in Command, RunContainer(c) PROVE Ownership'
    <3> DEFINE new == [inst |-> cmd[c].inst, identity |-> cmd[c].identity,
                       net |-> IF cmd[c].opt.kind = "smoke" THEN cmd[c].inst ELSE Host, by |-> c]
    <3>1. containers' \subseteq containers \cup {new}
      BY <2>7 DEF RunContainer
    <3>2. new.by = c /\ new.inst = cmd[c].inst
      OBVIOUS
    <3> HIDE DEF new
    <3>3. /\ Goto(c, "wait") /\ "wait" \in Phase /\ Allowed(c, "wait", cmd[c].identity)
          /\ cmd[c].opt.kind \in {"start", "smoke"}
      BY <2>7, RecordOf DEF RunContainer, In, Well, Allowed, Phase, InTry
    <3>4. Becomes(c, "wait", cmd[c].identity, cmd[c].todo, cmd[c].returned, cmd[c].saw)
      BY <3>3, GotoEffect
    <3>5. ASSUME NEW x \in containers'
          PROVE  cmd[x.by].opt.kind \in {"start", "smoke"} /\ x.inst = cmd[x.by].inst /\ x.by \in Command
      BY <3>1, <3>2, <3>3 DEF Ownership, TypeOK, Container
    <3>6. \A d \in Command : /\ cmd'[d].opt = cmd[d].opt /\ cmd'[d].inst = cmd[d].inst
                             /\ cmd'[d].todo = cmd[d].todo /\ cmd'[d].returned = cmd[d].returned
      BY <3>4 DEF Becomes
    <3>7. \A x \in containers' : cmd'[x.by].opt.kind \in {"start", "smoke"} /\ x.inst = cmd'[x.by].inst
      BY <3>5, <3>6
    <3>8. ASSUME NEW d \in Command, cmd'[d].opt.kind = "start"
          PROVE  cmd'[cmd'[d].inst].opt.kind = "start"
      <4>1. cmd[d].opt.kind = "start" /\ cmd'[d].inst = cmd[d].inst /\ cmd[d].inst \in Command
        BY <2>c, <3>6, <3>8
      <4>2. cmd[cmd[d].inst].opt.kind = "start"
        BY <4>1 DEF Ownership
      <4> QED BY <3>6, <4>1, <4>2
    <3>9. \A d \in Command : cmd'[d].opt.kind = "smoke" =>
             cmd'[d].inst = d /\ \A name \in cmd'[d].todo \cup cmd'[d].returned : name[1] = d
      BY <3>6 DEF Ownership
    <3> QED BY <3>7, <3>8, <3>9 DEF Ownership
  <2>8. ASSUME NEW c \in Command, Ready(c) PROVE Ownership'
    <3> DEFINE rt   == cmd[c].returned \cup {<<cmd[c].inst, cmd[c].identity>>}
               rest == {p \in Identity : <<cmd[c].inst, p>> \notin rt}
               ph   == IF cmd[c].opt.kind = "start" THEN "done"
                       ELSE IF rest = {} THEN "verify" ELSE "run"
               id   == IF cmd[c].opt.kind = "start" \/ rest = {} THEN cmd[c].identity
                       ELSE CHOOSE p \in rest : TRUE
    <3>1. containers' \subseteq containers
      BY <2>8 DEF Ready
    <3>2. cmd[c].opt.kind = "smoke" => \A name \in cmd[c].todo \cup rt : name[1] = c
      <4>1. cmd[c].opt.kind = "smoke" => cmd[c].inst = c
        BY DEF Ownership
      <4>2. \A name \in rt : name \in cmd[c].returned \/ name[1] = cmd[c].inst
        OBVIOUS
      <4> HIDE DEF rt
      <4> QED BY <2>b, <4>1, <4>2
    <3>3. Becomes(c, ph, id, cmd[c].todo, rt, cmd[c].saw)
      BY <2>8, ReadyEffect
    <3> HIDE DEF rt, ph, id
    <3> QED BY <3>1, <3>2, <3>3, OwnershipStep
  <2>9. ASSUME NEW c \in Command, NeverReady(c) PROVE Ownership'
    <3>1. AfterRaise(c) /\ cmd[c].phase # "idle" /\ containers' = containers
      BY <2>9 DEF NeverReady, In
    <3> QED BY <3>1, RaiseKeepsOwnership
  <2>10. ASSUME NEW c \in Command, Verified(c) PROVE Ownership'
    <3>1. AfterRaise(c) /\ cmd[c].phase # "idle" /\ containers' = containers
      BY <2>10 DEF Verified, In
    <3> QED BY <3>1, RaiseKeepsOwnership
  <2>11. ASSUME NEW c \in Command, ListToStop(c) PROVE Ownership'
    <3>1. containers' \subseteq containers /\ cmd[c].opt.kind = "stop"
      BY <2>11 DEF ListToStop
    <3> QED BY <2>11, <3>1, ListToStopEffect, OwnershipStep
  <2>12. ASSUME NEW c \in Command, Cleanup(c) PROVE Ownership'
    <3>1. PICK name \in cmd[c].todo :
            /\ containers' = Stop(name)
            /\ Becomes(c, cmd[c].phase, cmd[c].identity, cmd[c].todo \ {name},
                       cmd[c].returned, cmd[c].saw)
      BY <2>12, CleanupEffect
    <3> QED BY <2>a, <2>b, <3>1, OwnershipStep
  <2>13. ASSUME NEW c \in Command, Cleaned(c) PROVE Ownership'
    <3> DEFINE ph == IF cmd[c].opt.kind = "smoke" /\ ~cmd[c].opt.keep THEN "remove" ELSE "done"
    <3>1. Goto(c, ph) /\ ph \in Phase /\ Allowed(c, ph, cmd[c].identity) /\ containers' \subseteq containers
      BY <2>13, RecordOf DEF Cleaned, In, Well, Allowed, Phase, Ended
    <3> HIDE DEF ph
    <3> QED BY <2>b, <3>1, GotoEffect, GotoKeepsOwnership
  <2>14. ASSUME NEW c \in Command, RemoveNetwork(c) PROVE Ownership'
    <3>1. Goto(c, "done") /\ "done" \in Phase /\ Allowed(c, "done", cmd[c].identity) /\ containers' \subseteq containers
      BY <2>14, <2>a, RecordOf DEF RemoveNetwork, In, Well, Allowed, Phase, InTry, Ended
    <3> QED BY <2>b, <3>1, GotoEffect, GotoKeepsOwnership
  <2>15. ASSUME NEW c \in Command, Raise(c) PROVE Ownership'
    <3>1. AfterRaise(c) /\ cmd[c].phase # "idle" /\ containers' = containers
      BY <2>15 DEF Raise, In, Running
    <3> QED BY <3>1, RaiseKeepsOwnership
  <2>16. ASSUME NEW c \in Command, Kill(c) PROVE Ownership'
    <3>1. Goto(c, "killed") /\ "killed" \in Phase /\ Allowed(c, "killed", cmd[c].identity) /\ containers' \subseteq containers
      BY <2>16, <2>a, RecordOf DEF Kill, In, Well, Allowed, Phase, InTry, Ended, Running
    <3> QED BY <2>b, <3>1, GotoEffect, GotoKeepsOwnership
  <2>17. CASE UNCHANGED vars
    BY <2>17 DEF vars, Ownership
  <2> QED
    BY <2>1, <2>2, <2>3, <2>4, <2>5, <2>6, <2>7, <2>8, <2>9, <2>10, <2>11, <2>12, <2>13, <2>14, <2>15, <2>16, <2>17 DEF Next, Step
<1> QED BY <1>1, <1>2, TypeInductive, PTL DEF Spec

\* A step moves one command.
LEMMA OneMoves ==
    ASSUME TypeOK, NEW c \in Command, NEW d \in Command, d # c,
           (\E o \in Options[d] : Issue(d, o)) \/ Step(d) \/ Raise(d) \/ Kill(d)
    PROVE  cmd'[c] = cmd[c]
<1> USE DEF TypeOK
<1>1. CASE \E o \in Options[d] : Issue(d, o)
  BY <1>1 DEF Issue
<1>2. CASE ListConflicts(d) \/ StopConflict(d) \/ StopOwn(d)
  BY <1>2 DEF ListConflicts, StopConflict, StopOwn, Goto
<1>3. CASE Guard(d) \/ EnsureNetwork(d) \/ RunContainer(d) \/ Ready(d)
  BY <1>3 DEF Guard, EnsureNetwork, RunContainer, Ready, Goto
<1>4. CASE NeverReady(d) \/ Verified(d) \/ Raise(d) \/ Kill(d)
  BY <1>4 DEF NeverReady, Verified, Raise, Kill, AfterRaise, Goto
<1>5. CASE ListToStop(d) \/ Cleanup(d) \/ Cleaned(d) \/ RemoveNetwork(d)
  BY <1>5 DEF ListToStop, Cleanup, Cleaned, RemoveNetwork, Goto
<1> QED BY <1>1, <1>2, <1>3, <1>4, <1>5 DEF Step

\* A parallel run's containers are never stopped by a smoke, however it fails
\* and whatever runs beside it (the promise at smoke's "force": False).
THEOREM ASmokeStopsItsOwn == Spec => SmokeStopsOnlyItsOwn
<1> DEFINE Own == \A c \in Command :
               cmd'[c] # cmd[c] /\ cmd[c].opt.kind = "smoke"
                  => \A x \in containers \ containers' : x.by = c
<1>1. TypeOK /\ Issued /\ Ownership /\ [Next]_vars => [Own]_vars
  <2> SUFFICES ASSUME TypeOK, Issued, Ownership, Next,
                      NEW c \in Command, cmd'[c] # cmd[c], cmd[c].opt.kind = "smoke",
                      NEW x \in containers, x \notin containers'
               PROVE  x.by = c
    BY DEF vars
  <2>1. (\E o \in Options[c] : Issue(c, o)) \/ Step(c) \/ Raise(c) \/ Kill(c)
    BY OneMoves DEF Next
  <2>2. ~In(c, "idle") /\ ~In(c, "conflicts") /\ ~In(c, "own")
    BY RecordOf DEF In, Well, NotIssued, NoOption
  <2>3. CASE Cleanup(c)
    <3>1. PICK name \in cmd[c].todo : containers' = Stop(name)
      BY <2>3 DEF Cleanup
    <3>2. NameOf(x) = name /\ name[1] = c
      BY <3>1 DEF Stop, Ownership
    <3>3. x.inst = c
      BY <3>2 DEF NameOf
    <3>4. x.by \in Command /\ x.inst = cmd[x.by].inst /\ cmd[x.by].opt.kind \in {"start", "smoke"}
      BY DEF TypeOK, Container, Ownership
    <3>5. CASE cmd[x.by].opt.kind = "start"
      BY <3>3, <3>4, <3>5 DEF Ownership
    <3>6. CASE cmd[x.by].opt.kind = "smoke"
      BY <3>3, <3>4, <3>6 DEF Ownership
    <3> QED BY <3>4, <3>5, <3>6
  <2>4. CASE ~Cleanup(c)
    <3>1. containers \subseteq containers'
      BY <2>1, <2>2, <2>4 DEF Step, Issue, ListConflicts, StopConflict, StopOwn, Guard,
         EnsureNetwork, RunContainer, Ready, NeverReady, Verified, ListToStop, Cleaned,
         RemoveNetwork, Raise, Kill
    <3> QED BY <3>1
  <2> QED BY <2>3, <2>4
<1> QED BY <1>1, OwnershipInductive, PTL DEF Spec, SmokeStopsOnlyItsOwn

------------------------------------------------------------------------------
(* What a command saw is gone, and a smoke leaves nothing *)

Before == {"idle", "list", "conflicts", "own", "guard", "network"}
Past   == {"verify", "cleanup", "remove"} \cup Ended

OwnName(r) == <<r.inst, r.identity>>

\* The docker run that made x lies behind its command, which never makes x again.
Made(x) ==
    LET r == cmd[x.by]
    IN  \/ r.phase \in Past
        \/ r.phase = "wait" /\ NameOf(x) = OwnName(r)
        \/ r.phase \in {"run", "wait"} /\ NameOf(x) \in r.returned

\* What docker knows, and what was ever seen there, is made once: a container
\* that is stopped does not come back.
MadeOnce ==
    /\ \A x \in containers : Made(x)
    /\ \A c \in Command : /\ \A x \in cmd[c].saw : Made(x)
                          /\ cmd[c].phase \in Before => cmd[c].returned = {}
                          /\ cmd[c].phase = "run" => OwnName(cmd[c]) \notin cmd[c].returned

NetworkOf(c) == [inst |-> c, target |-> cmd[c].opt.target]

\* A container off the host's network is a smoke's, on the network with its label.
Attached ==
    /\ \A x \in containers : x.net # Host => /\ x.net = x.by
                                             /\ cmd[x.by].opt.kind = "smoke"
                                             /\ NetworkOf(x.by) \in networks
    /\ \A c \in Command : cmd[c].opt.kind = "smoke" /\ cmd[c].phase \in {"run", "wait"}
                             => NetworkOf(c) \in networks

Removing(r) == r.phase = "conflicts" \/ (r.phase = "cleanup" /\ r.opt.kind # "smoke")

Beyond(r) == \/ r.phase \in {"own", "network", "run", "wait", "verify", "remove", "done"}
             \/ r.phase = "cleanup" /\ r.opt.kind = "smoke"

\* What was seen and is still there is on the list of what to stop, until the
\* list is empty.
ClearOf(r, present) ==
    /\ Beyond(r) => r.saw \cap present = {}
    /\ Removing(r) => \A x \in r.saw \cap present : NameOf(x) \in r.todo

Cleared == \A c \in Command : ClearOf(cmd[c], containers)

\* So with what a smoke started.
SweptOf(c, r, present, nets) ==
    r.opt.kind = "smoke" /\ ~r.opt.keep =>
        /\ r.phase = "cleanup" => \A x \in present : NameOf(x) \in r.returned => NameOf(x) \in r.todo
        /\ r.phase \in {"remove", "done"} => \A x \in present : NameOf(x) \notin r.returned
        /\ r.phase = "done" /\ r.returned = {c} \X Identity => \A n \in nets : n.inst # c

Swept == \A c \in Command : SweptOf(c, cmd[c], containers, networks)

Survival == MadeOnce /\ Attached /\ Cleared /\ Swept

\* A command moves on, and does not come back to a docker run it has behind it.
Forward(c, ph, id, rt) ==
    \/ ph \in Past
    \/ cmd[c].phase \in Before /\ ph \in Before \cup {"run"} /\ rt = {}
    \/ cmd[c].phase = "run" /\ ph = "wait" /\ id = cmd[c].identity /\ rt = cmd[c].returned
    \/ /\ cmd[c].phase = "wait" /\ ph = "run"
       /\ rt = cmd[c].returned \cup {OwnName(cmd[c])} /\ <<cmd[c].inst, id>> \notin rt

LEMMA MakersOf ==
    ASSUME TypeOK
    PROVE  /\ \A x \in containers : x.by \in Command
           /\ \A c \in Command : \A x \in cmd[c].saw : x.by \in Command
BY DEF TypeOK, Container

\* The one container a command may make in a step.
Fresh(c, new) == /\ new.by = c /\ NameOf(new) = OwnName(cmd[c])

LEMMA MadeStep ==
    ASSUME TypeOK, Issued, MadeOnce,
           NEW c \in Command, NEW ph, NEW id, NEW td, NEW rt, NEW sw,
           Becomes(c, ph, id, td, rt, sw), Forward(c, ph, id, rt),
           sw \subseteq containers \cup cmd[c].saw,
           \A x \in containers' \ containers : Fresh(c, x) /\ cmd[c].phase = "run" /\ ph = "wait"
    PROVE  MadeOnce'
<1>1. ASSUME NEW x, x.by \in Command, Made(x) PROVE Made(x)'
  <2>1. CASE x.by # c
    BY <1>1, <2>1 DEF Becomes, Made, NameOf, OwnName
  <2>2. CASE x.by = c
    <3>1. /\ cmd'[c].phase = ph /\ cmd'[c].identity = id /\ cmd'[c].returned = rt
          /\ cmd'[c].inst = cmd[c].inst
      BY DEF Becomes
    <3>2. cmd[c].phase \notin Before
      BY <1>1, <2>2 DEF Made, Before, Past, Ended
    <3>3. Made(x)' <=> \/ ph \in Past
                       \/ ph = "wait" /\ NameOf(x) = <<cmd[c].inst, id>>
                       \/ ph \in {"run", "wait"} /\ NameOf(x) \in rt
      BY <2>2, <3>1 DEF Made, OwnName, NameOf
    <3>4. Made(x) <=> \/ cmd[c].phase \in Past
                      \/ cmd[c].phase = "wait" /\ NameOf(x) = OwnName(cmd[c])
                      \/ cmd[c].phase \in {"run", "wait"} /\ NameOf(x) \in cmd[c].returned
      BY <2>2 DEF Made
    <3> QED BY <1>1, <3>2, <3>3, <3>4 DEF Forward, Past, Ended
  <2> QED BY <2>1, <2>2
<1>2. ASSUME NEW x \in containers' PROVE Made(x)'
  <2>1. CASE x \in containers
    BY <1>1, <2>1, MakersOf DEF MadeOnce
  <2>2. CASE x \notin containers
    <3>1. Fresh(c, x) /\ cmd[c].phase = "run" /\ ph = "wait"
      BY <1>2, <2>2
    <3>2. id = cmd[c].identity
      BY <3>1 DEF Forward, Past, Before, Ended
    <3> QED BY <3>1, <3>2 DEF Fresh, Made, OwnName, Becomes, NameOf
  <2> QED BY <2>1, <2>2
<1>3. ASSUME NEW d \in Command
      PROVE  /\ \A x \in cmd'[d].saw : Made(x)'
             /\ cmd'[d].phase \in Before => cmd'[d].returned = {}
             /\ cmd'[d].phase = "run" => OwnName(cmd'[d]) \notin cmd'[d].returned
  <2>1. CASE d # c
    BY <1>1, <2>1, MakersOf DEF Becomes, MadeOnce
  <2>2. CASE d = c
    <3>1. /\ cmd'[c].phase = ph /\ cmd'[c].identity = id /\ cmd'[c].returned = rt
          /\ cmd'[c].inst = cmd[c].inst /\ cmd'[c].saw = sw
      BY DEF Becomes
    <3>2. \A x \in sw : Made(x)'
      BY <1>1, MakersOf DEF MadeOnce
    <3>3. ph \in Before => rt = {}
      BY DEF Forward, Past, Before, Ended
    <3>4. ph = "run" => <<cmd[c].inst, id>> \notin rt
      BY DEF Forward, Past, Before, Ended
    <3> QED BY <2>2, <3>1, <3>2, <3>3, <3>4 DEF OwnName
  <2> QED BY <2>1, <2>2
<1> QED BY <1>2, <1>3 DEF MadeOnce

\* What a command makes, no command has seen.
LEMMA FreshIsUnseen ==
    ASSUME TypeOK, MadeOnce, NEW c \in Command, cmd[c].phase = "run",
           NEW x, Fresh(c, x), NEW d \in Command
    PROVE  x \notin cmd[d].saw
BY DEF MadeOnce, Made, Fresh, Past, Ended

LEMMA ClearedStep ==
    ASSUME TypeOK, Issued, MadeOnce, Cleared,
           NEW c \in Command, NEW ph, NEW id, NEW td, NEW rt, NEW sw,
           Becomes(c, ph, id, td, rt, sw),
           \A x \in containers' \ containers : Fresh(c, x) /\ cmd[c].phase = "run",
           ClearOf(cmd'[c], containers')
    PROVE  Cleared'
<1>1. ASSUME NEW d \in Command, d # c PROVE ClearOf(cmd[d], containers')
  <2>1. cmd[d].saw \cap containers' \subseteq cmd[d].saw \cap containers
    BY FreshIsUnseen
  <2> QED BY <2>1 DEF Cleared, ClearOf
<1> QED BY <1>1 DEF Cleared, Becomes

LEMMA AttachedStep ==
    ASSUME TypeOK, Attached,
           NEW c \in Command, NEW ph, NEW id, NEW td, NEW rt, NEW sw,
           Becomes(c, ph, id, td, rt, sw),
           containers' \subseteq containers, networks \subseteq networks',
           ph \in {"run", "wait"} => cmd[c].opt.kind # "smoke" \/ NetworkOf(c) \in networks'
    PROVE  Attached'
<1>1. \A d \in Command : cmd'[d].opt = cmd[d].opt /\ NetworkOf(d)' = NetworkOf(d)
  BY DEF Becomes, NetworkOf
<1>2. \A x \in containers' : x.net # Host => /\ x.net = x.by
                                             /\ cmd'[x.by].opt.kind = "smoke"
                                             /\ NetworkOf(x.by)' \in networks'
  BY <1>1, MakersOf DEF Attached
<1>3. ASSUME NEW d \in Command, cmd'[d].opt.kind = "smoke", cmd'[d].phase \in {"run", "wait"}
      PROVE  NetworkOf(d)' \in networks'
  <2>1. CASE d = c
    BY <1>1, <1>3, <2>1 DEF Becomes
  <2>2. CASE d # c
    BY <1>1, <1>3, <2>2 DEF Becomes, Attached
  <2> QED BY <2>1, <2>2
<1> QED BY <1>2, <1>3 DEF Attached

\* The instance in a name on a smoke's lists is worked on by that smoke alone.
LEMMA OthersMakeOthers ==
    ASSUME TypeOK, Issued, Ownership,
           NEW c \in Command, cmd[c].opt.kind \in {"start", "smoke"}, NEW x, Fresh(c, x),
           NEW d \in Command, d # c, cmd[d].opt.kind = "smoke"
    PROVE  NameOf(x) \notin cmd[d].returned
<1>1. \A name \in cmd[d].returned : name[1] = d
  BY DEF Ownership
<1>2. NameOf(x)[1] = cmd[c].inst
  BY DEF Fresh, OwnName
<1>3. cmd[c].inst # d
  BY DEF Ownership
<1> QED BY <1>1, <1>2, <1>3

LEMMA SweptStep ==
    ASSUME TypeOK, Issued, Ownership, Swept,
           NEW c \in Command, NEW ph, NEW id, NEW td, NEW rt, NEW sw,
           Becomes(c, ph, id, td, rt, sw),
           \A x \in containers' \ containers : Fresh(c, x) /\ cmd[c].opt.kind \in {"start", "smoke"},
           \A n \in networks' \ networks : n.inst = c,
           SweptOf(c, cmd'[c], containers', networks')
    PROVE  Swept'
<1>1. ASSUME NEW d \in Command, d # c PROVE SweptOf(d, cmd[d], containers', networks')
  <2> SUFFICES ASSUME cmd[d].opt.kind = "smoke", ~cmd[d].opt.keep
               PROVE  SweptOf(d, cmd[d], containers', networks')
    BY DEF SweptOf
  <2>1. \A x \in containers' : NameOf(x) \in cmd[d].returned => x \in containers
    BY <1>1, OthersMakeOthers
  <2>2. \A n \in networks' : n.inst = d => n \in networks
    BY <1>1
  <2> QED BY <2>1, <2>2 DEF Swept, SweptOf
<1> QED BY <1>1 DEF Swept, Becomes

\* Before it is issued a command has made nothing.
LEMMA IssueKeepsSurvival ==
    ASSUME TypeOK, Issued, Survival, NEW c \in Command, NEW o \in Options[c], Issue(c, o)
    PROVE  Survival'
<1>1. /\ \A d \in Command : d # c => cmd'[d] = cmd[d]
      /\ cmd'[c].phase \in {"list", "guard"}
      /\ cmd'[c].returned = {} /\ cmd'[c].saw = {}
  <2>1. PICK inst \in Command :
          /\ o.join => o.kind = "start" /\ \E d \in Command :
                 d # c /\ cmd[d].opt.kind = "start" /\ inst = cmd[d].inst
          /\ ~o.join => inst = c
          /\ cmd' \in [Command -> Record] /\ Issued'
          /\ \A d \in Command : d # c => cmd'[d] = cmd[d]
          /\ cmd[c].opt.kind = "stop" /\ cmd[c].saw = {}
          /\ cmd'[c] = [phase |-> IF o.kind = "smoke" THEN "guard" ELSE "list", opt |-> o,
                        identity |-> o.identity, inst |-> inst,
                        todo |-> {}, returned |-> {}, saw |-> {}]
    BY IssueEffect
  <2>2. cmd'[c].phase = (IF o.kind = "smoke" THEN "guard" ELSE "list")
    BY <2>1
  <2>3. cmd'[c].returned = {} /\ cmd'[c].saw = {}
    BY <2>1
  <2> QED BY <2>1, <2>2, <2>3
<1>2. containers' = containers /\ networks' = networks /\ cmd[c].phase = "idle"
  BY DEF Issue, In
<1>3. \A x : Made(x) => x.by # c
  BY <1>2 DEF Made, Past, Ended
<1>4. \A x : x.by \in Command /\ Made(x) => Made(x)'
  BY <1>1, <1>3 DEF Made, NameOf, OwnName
<1>5. MadeOnce'
  <2>1. \A x \in containers' : Made(x)'
    BY <1>2, <1>4, MakersOf DEF Survival, MadeOnce
  <2>2. ASSUME NEW d \in Command
        PROVE  /\ \A x \in cmd'[d].saw : Made(x)'
               /\ cmd'[d].phase \in Before => cmd'[d].returned = {}
               /\ cmd'[d].phase = "run" => OwnName(cmd'[d]) \notin cmd'[d].returned
    <3>1. CASE d = c
      BY <1>1, <3>1
    <3>2. CASE d # c
      BY <1>1, <1>4, <3>2, MakersOf DEF Survival, MadeOnce
    <3> QED BY <3>1, <3>2
  <2> QED BY <2>1, <2>2 DEF MadeOnce
<1>6. Attached'
  <2>1. \A x \in containers' : x.by \in Command \ {c}
    BY <1>2, <1>3, MakersOf DEF Survival, MadeOnce
  <2>2. \A d \in Command \ {c} : NetworkOf(d)' = NetworkOf(d)
    BY <1>1 DEF NetworkOf
  <2>3. \A x \in containers' : x.net # Host => /\ x.net = x.by
                                               /\ cmd'[x.by].opt.kind = "smoke"
                                               /\ NetworkOf(x.by)' \in networks'
    BY <1>1, <1>2, <2>1, <2>2 DEF Survival, Attached
  <2>4. \A d \in Command : cmd'[d].opt.kind = "smoke" /\ cmd'[d].phase \in {"run", "wait"}
                              => NetworkOf(d)' \in networks'
    BY <1>1, <1>2, <2>2 DEF Survival, Attached
  <2> QED BY <2>3, <2>4 DEF Attached
<1>7. Cleared'
  <2>1. ClearOf(cmd'[c], containers')
    BY <1>1 DEF ClearOf, Beyond, Removing
  <2> QED BY <1>1, <1>2, <2>1 DEF Survival, Cleared
<1>8. Swept'
  <2>1. SweptOf(c, cmd'[c], containers', networks')
    BY <1>1 DEF SweptOf
  <2> QED BY <1>1, <1>2, <2>1 DEF Survival, Swept
<1> QED BY <1>5, <1>6, <1>7, <1>8 DEF Survival

\* A step that makes neither a container nor a network, and removes no network.
LEMMA QuietStep ==
    ASSUME TypeOK, Issued, Ownership, Survival,
           NEW c \in Command, NEW ph, NEW id, NEW td, NEW rt, NEW sw,
           Becomes(c, ph, id, td, rt, sw), Forward(c, ph, id, rt),
           sw \subseteq containers \cup cmd[c].saw,
           containers' \subseteq containers, networks' = networks,
           ph \in {"run", "wait"} => cmd[c].opt.kind # "smoke" \/ NetworkOf(c) \in networks,
           ClearOf(cmd'[c], containers'), SweptOf(c, cmd'[c], containers', networks)
    PROVE  Survival'
<1>1. MadeOnce'
  BY MadeStep DEF Survival
<1>2. Attached'
  BY AttachedStep DEF Survival
<1>3. Cleared'
  BY ClearedStep DEF Survival
<1>4. Swept'
  BY SweptStep DEF Survival
<1> QED BY <1>1, <1>2, <1>3, <1>4 DEF Survival

\* An exception keeps what the lists say: the finally begins with all that a
\* smoke started.
LEMMA RaiseKeepsSurvival ==
    ASSUME TypeOK, Issued, Ownership, Survival, NEW c \in Command, AfterRaise(c),
           cmd[c].phase # "idle", containers' = containers, networks' = networks
    PROVE  Survival'
<1> DEFINE td == IF cmd[c].opt.keep THEN {} ELSE cmd[c].returned
<1>1. ClearOf(cmd[c], containers)
  BY DEF Survival, Cleared
<1>2. CASE /\ cmd[c].opt.kind = "smoke" /\ cmd[c].phase \in InTry
           /\ Becomes(c, "cleanup", cmd[c].identity, td, cmd[c].returned, cmd[c].saw)
  <2>1. Forward(c, "cleanup", cmd[c].identity, cmd[c].returned)
    BY DEF Forward, Past
  <2>2. ClearOf(cmd'[c], containers)
    BY <1>1, <1>2 DEF Becomes, ClearOf, Beyond, Removing, InTry
  <2>3. SweptOf(c, cmd'[c], containers, networks)
    BY <1>2 DEF Becomes, SweptOf
  <2> HIDE DEF td
  <2> QED BY <1>2, <2>1, <2>2, <2>3, QuietStep
<1>3. CASE Becomes(c, "failed", cmd[c].identity, cmd[c].todo, cmd[c].returned, cmd[c].saw)
  <2>1. Forward(c, "failed", cmd[c].identity, cmd[c].returned)
    BY DEF Forward, Past, Ended
  <2>2. ClearOf(cmd'[c], containers) /\ SweptOf(c, cmd'[c], containers, networks)
    BY <1>3 DEF Becomes, ClearOf, Beyond, Removing, SweptOf
  <2> QED BY <1>3, <2>1, <2>2, QuietStep
<1> QED BY <1>2, <1>3, AfterRaiseEffect

\* The guard looks at the networks with the target's label: a smoke of the
\* target that has a container has its network.
LEMMA GuardSeesAll ==
    ASSUME TypeOK, Issued, Attached, NEW c \in Command, OnTargetNetworks(c) = {}
    PROVE  SmokeContainers(cmd[c].opt.target) = {}
BY DEF Attached, OnTargetNetworks, SmokeContainers, NetworkOf

LEMMA RunKeepsSurvival ==
    ASSUME TypeOK, Issued, Ownership, Survival, NEW c \in Command, RunContainer(c)
    PROVE  Survival'
<1> DEFINE new == [inst |-> cmd[c].inst, identity |-> cmd[c].identity,
                   net |-> IF cmd[c].opt.kind = "smoke" THEN cmd[c].inst ELSE Host, by |-> c]
<1>1. /\ containers' \subseteq containers \cup {new} /\ networks' = networks
      /\ containers \subseteq containers'
      /\ cmd[c].phase = "run"
  BY DEF RunContainer, In
<1>2. Fresh(c, new) /\ new.by = c /\ new.net = IF cmd[c].opt.kind = "smoke" THEN cmd[c].inst ELSE Host
  BY DEF Fresh, NameOf, OwnName
<1> HIDE DEF new
<1>3. /\ Goto(c, "wait") /\ "wait" \in Phase /\ Allowed(c, "wait", cmd[c].identity)
      /\ cmd[c].opt.kind \in {"start", "smoke"}
  BY RecordOf DEF RunContainer, In, Well, Allowed, Phase, InTry
<1>4. Becomes(c, "wait", cmd[c].identity, cmd[c].todo, cmd[c].returned, cmd[c].saw)
  BY <1>3, GotoEffect
<1>5. Forward(c, "wait", cmd[c].identity, cmd[c].returned)
  BY <1>1 DEF Forward
<1>6. MadeOnce'
  BY <1>1, <1>2, <1>4, <1>5, MadeStep DEF Survival
<1>7. Attached'
  <2>1. \A d \in Command : /\ cmd'[d].opt = cmd[d].opt /\ NetworkOf(d)' = NetworkOf(d)
                           /\ cmd'[d].phase \in {"run", "wait"} => cmd[d].phase \in {"run", "wait"}
    BY <1>1, <1>4 DEF Becomes, NetworkOf
  <2>2. new.net # Host => new.net = c /\ cmd[c].opt.kind = "smoke" /\ NetworkOf(c) \in networks
    BY <1>1, <1>2 DEF Survival, Attached, Ownership
  <2>3. ASSUME NEW x \in containers', x.net # Host
        PROVE  x.net = x.by /\ cmd'[x.by].opt.kind = "smoke" /\ NetworkOf(x.by)' \in networks'
    <3>1. CASE x \in containers
      BY <1>1, <2>1, <2>3, <3>1, MakersOf DEF Survival, Attached
    <3>2. CASE x = new
      BY <1>1, <1>2, <2>1, <2>2, <2>3, <3>2
    <3> QED BY <1>1, <3>1, <3>2
  <2> QED BY <1>1, <2>1, <2>3 DEF Survival, Attached
<1>8. Cleared'
  <2>1. cmd[c].saw \cap containers' = {}
    <3>1. cmd[c].saw \cap containers = {}
      BY <1>1 DEF Survival, Cleared, ClearOf, Beyond
    <3>2. new \notin cmd[c].saw
      BY <1>1, <1>2, FreshIsUnseen DEF Survival
    <3> QED BY <1>1, <3>1, <3>2
  <2>2. ClearOf(cmd'[c], containers')
    BY <1>4, <2>1 DEF Becomes, ClearOf, Removing
  <2> QED BY <1>1, <1>2, <1>4, <2>2, ClearedStep DEF Survival
<1>9. Swept'
  <2>1. SweptOf(c, cmd'[c], containers', networks')
    BY <1>4 DEF Becomes, SweptOf
  <2> QED BY <1>1, <1>2, <1>3, <1>4, <2>1, SweptStep DEF Survival
<1> QED BY <1>6, <1>7, <1>8, <1>9 DEF Survival

\* The network of a smoke that lists nothing more to stop has nothing on it, and
\* it removes no other.
LEMMA RemoveKeepsSurvival ==
    ASSUME TypeOK, Issued, Ownership, Survival, NEW c \in Command, RemoveNetwork(c)
    PROVE  Survival'
<1>1. /\ cmd[c].phase = "remove" /\ cmd[c].opt.kind = "smoke" /\ cmd[c].inst = c
      /\ containers' = containers
      /\ networks' = {n \in networks : n.inst = c => \E x \in containers : x.net = n.inst}
  <2>1. cmd[c].phase = "remove" /\ cmd[c].opt.kind = "smoke"
    BY RecordOf DEF RemoveNetwork, In, Well
  <2>2. cmd[c].inst = c
    BY <2>1 DEF Ownership
  <2> QED BY <2>1, <2>2 DEF RemoveNetwork
<1>2. Becomes(c, "done", cmd[c].identity, cmd[c].todo, cmd[c].returned, cmd[c].saw)
  <2>1. Goto(c, "done") /\ "done" \in Phase /\ Allowed(c, "done", cmd[c].identity)
    BY RecordOf DEF RemoveNetwork, In, Well, Allowed, Phase, InTry, Ended
  <2> QED BY <2>1, GotoEffect
<1>3. MadeOnce'
  <2>1. Forward(c, "done", cmd[c].identity, cmd[c].returned)
    BY DEF Forward, Past, Ended
  <2> QED BY <1>1, <1>2, <2>1, MadeStep DEF Survival
<1>4. Attached'
  <2>1. \A d \in Command : /\ cmd'[d].opt = cmd[d].opt /\ NetworkOf(d)' = NetworkOf(d)
                           /\ cmd'[d].phase \in {"run", "wait"} =>
                                 cmd[d].phase \in {"run", "wait"} /\ d # c
    BY <1>2 DEF Becomes, NetworkOf
  <2>2. \A d \in Command \ {c} : NetworkOf(d) \in networks => NetworkOf(d) \in networks'
    BY <1>1 DEF NetworkOf
  <2>3. \A x \in containers : x.net # Host => NetworkOf(x.by) \in networks'
    BY <1>1, MakersOf DEF Survival, Attached, NetworkOf
  <2>4. \A x \in containers' : x.net # Host => /\ x.net = x.by
                                               /\ cmd'[x.by].opt.kind = "smoke"
                                               /\ NetworkOf(x.by)' \in networks'
    BY <1>1, <2>1, <2>3, MakersOf DEF Survival, Attached
  <2>5. \A d \in Command : cmd'[d].opt.kind = "smoke" /\ cmd'[d].phase \in {"run", "wait"}
                              => NetworkOf(d)' \in networks'
    BY <2>1, <2>2 DEF Survival, Attached
  <2> QED BY <2>4, <2>5 DEF Attached
<1>5. Cleared'
  <2>1. cmd[c].saw \cap containers = {}
    BY <1>1 DEF Survival, Cleared, ClearOf, Beyond
  <2>2. ClearOf(cmd'[c], containers')
    BY <1>1, <1>2, <2>1 DEF Becomes, ClearOf, Removing
  <2> QED BY <1>1, <1>2, <2>2, ClearedStep DEF Survival
<1>6. Swept'
  <2>1. SweptOf(c, cmd'[c], containers', networks')
    <3> SUFFICES ASSUME ~cmd[c].opt.keep PROVE SweptOf(c, cmd'[c], containers', networks')
      BY <1>2 DEF Becomes, SweptOf
    <3>1. \A x \in containers : NameOf(x) \notin cmd[c].returned
      BY <1>1 DEF Survival, Swept, SweptOf
    <3>2. ASSUME cmd[c].returned = {c} \X Identity, NEW x \in containers, x.net = c PROVE FALSE
      <4>1. x.by = c
        <5>1. x.net # Host /\ x \in containers
          BY <3>2
        <5>2. \A y \in containers : y.net # Host => y.net = y.by
          BY DEF Survival, Attached
        <5> QED BY <3>2, <5>1, <5>2
      <4>2. x.inst = c /\ x.identity \in Identity
        BY <1>1, <4>1 DEF Ownership, TypeOK, Container
      <4> QED BY <3>1, <3>2, <4>2 DEF NameOf
    <3>3. cmd[c].returned = {c} \X Identity => \A n \in networks' : n.inst # c
      BY <1>1, <3>2
    <3> QED BY <1>1, <1>2, <3>1, <3>3 DEF Becomes, SweptOf
  <2> QED BY <1>1, <1>2, <2>1, SweptStep DEF Survival
<1> QED BY <1>3, <1>4, <1>5, <1>6 DEF Survival

LEMMA SurvivalInductive == Spec => [](TypeOK /\ Issued /\ Ownership /\ Survival)
<1>1. Init => Survival
  BY DEF Init, NotIssued, NoOption, Survival, MadeOnce, Attached, Cleared, ClearOf, Beyond,
     Removing, Swept, SweptOf, Before
<1>2. TypeOK /\ Issued /\ Ownership /\ Survival /\ [Next]_vars => Survival'
  <2> SUFFICES ASSUME TypeOK, Issued, Ownership, Survival, [Next]_vars PROVE Survival'
    OBVIOUS
  <2>a. \A name : Stop(name) = {x \in containers : NameOf(x) # name}
    BY DEF Stop
  <2>b. \A c \in Command : /\ ClearOf(cmd[c], containers)
                           /\ SweptOf(c, cmd[c], containers, networks)
    BY DEF Survival, Cleared, Swept
  <2>c. \A c \in Command : cmd[c].phase \in Before => cmd[c].returned = {}
    BY DEF Survival, MadeOnce
  <2>1. ASSUME NEW c \in Command, NEW o \in Options[c], Issue(c, o) PROVE Survival'
    BY <2>1, IssueKeepsSurvival
  <2>2. ASSUME NEW c \in Command, ListConflicts(c) PROVE Survival'
    <3> DEFINE found == IF cmd[c].opt.skip THEN {} ELSE Conflicts(c)
               ph    == IF found = {} THEN "own"
                        ELSE IF cmd[c].opt.force THEN "conflicts" ELSE "refused"
               td    == {NameOf(x) : x \in found}
    <3>1. Becomes(c, ph, cmd[c].identity, td, cmd[c].returned, found)
      BY <2>2, ListConflictsEffect
    <3>2. /\ found \subseteq containers /\ containers' = containers /\ networks' = networks
          /\ cmd[c].phase = "list" /\ cmd[c].opt.kind = "start"
      BY <2>2 DEF ListConflicts, In, Conflicts
    <3>3. Forward(c, ph, cmd[c].identity, cmd[c].returned) /\ ph \notin {"run", "wait"}
      BY <2>c, <3>2 DEF Forward, Before, Past, Ended
    <3>4. ClearOf(cmd'[c], containers)
      BY <3>1 DEF Becomes, ClearOf, Beyond, Removing
    <3>5. SweptOf(c, cmd'[c], containers, networks)
      BY <3>1, <3>2 DEF Becomes, SweptOf
    <3> HIDE DEF found, ph, td
    <3> QED BY <3>1, <3>2, <3>3, <3>4, <3>5, QuietStep
  <2>3. ASSUME NEW c \in Command, StopConflict(c) PROVE Survival'
    <3>1. PICK name \in cmd[c].todo :
            /\ containers' = Stop(name)
            /\ Becomes(c, IF cmd[c].todo = {name} THEN "own" ELSE "conflicts",
                       cmd[c].identity, cmd[c].todo \ {name}, cmd[c].returned, cmd[c].saw)
      BY <2>3, StopConflictEffect
    <3> DEFINE ph == IF cmd[c].todo = {name} THEN "own" ELSE "conflicts"
    <3>2. /\ cmd[c].phase = "conflicts" /\ networks' = networks /\ containers' \subseteq containers
          /\ cmd[c].opt.kind = "start"
      BY <2>3, <2>a, <3>1, RecordOf DEF StopConflict, In, Well
    <3>3. Forward(c, ph, cmd[c].identity, cmd[c].returned) /\ ph \notin {"run", "wait"}
      BY <2>c, <3>2 DEF Forward, Before
    <3>4. \A x \in cmd[c].saw \cap containers' : NameOf(x) \in cmd[c].todo \ {name}
      BY <2>a, <2>b, <3>1, <3>2 DEF ClearOf, Removing
    <3>5. ClearOf(cmd'[c], containers')
      BY <3>1, <3>4 DEF Becomes, ClearOf, Beyond, Removing
    <3>6. SweptOf(c, cmd'[c], containers', networks)
      BY <3>1, <3>2 DEF Becomes, SweptOf
    <3> HIDE DEF ph
    <3> QED BY <3>1, <3>2, <3>3, <3>5, <3>6, QuietStep DEF ph
  <2>4. ASSUME NEW c \in Command, StopOwn(c) PROVE Survival'
    <3>1. Goto(c, "run") /\ "run" \in Phase /\ Allowed(c, "run", cmd[c].identity)
      BY <2>4, RecordOf DEF StopOwn, In, Well, Allowed, Phase, InTry, Ended
    <3>2. Becomes(c, "run", cmd[c].identity, cmd[c].todo, cmd[c].returned, cmd[c].saw)
      BY <3>1, GotoEffect
    <3>3. /\ cmd[c].phase = "own" /\ networks' = networks /\ containers' \subseteq containers
          /\ cmd[c].opt.kind = "start"
      BY <2>4, <2>a, RecordOf DEF StopOwn, In, Well
    <3>4. Forward(c, "run", cmd[c].identity, cmd[c].returned)
      BY <2>c, <3>3 DEF Forward, Before
    <3>5. ClearOf(cmd'[c], containers') /\ SweptOf(c, cmd'[c], containers', networks)
      BY <2>b, <3>2, <3>3 DEF Becomes, ClearOf, Beyond, Removing, SweptOf
    <3> QED BY <3>2, <3>3, <3>4, <3>5, QuietStep
  <2>5. ASSUME NEW c \in Command, Guard(c) PROVE Survival'
    <3> DEFINE ph == IF ~cmd[c].opt.skip /\ OnTargetNetworks(c) # {} THEN "refused" ELSE "network"
               sw == IF cmd[c].opt.skip THEN {} ELSE SmokeContainers(cmd[c].opt.target)
    <3>1. Becomes(c, ph, cmd[c].identity, cmd[c].todo, cmd[c].returned, sw)
      BY <2>5, GuardEffect
    <3>2. /\ sw \subseteq containers /\ containers' = containers /\ networks' = networks
          /\ cmd[c].phase = "guard"
      BY <2>5 DEF Guard, In, SmokeContainers
    <3>3. Forward(c, ph, cmd[c].identity, cmd[c].returned) /\ ph \notin {"run", "wait"}
      BY <2>c, <3>2 DEF Forward, Before, Past, Ended
    <3>4. ph = "network" => sw = {}
      BY GuardSeesAll DEF Survival
    <3> HIDE DEF sw
    <3>5. ClearOf(cmd'[c], containers) /\ SweptOf(c, cmd'[c], containers, networks)
      BY <3>1, <3>4 DEF Becomes, ClearOf, Beyond, Removing, SweptOf
    <3> HIDE DEF ph
    <3> QED BY <3>1, <3>2, <3>3, <3>5, QuietStep
  <2>6. ASSUME NEW c \in Command, EnsureNetwork(c) PROVE Survival'
    <3>1. Becomes(c, "run", FirstPeer, cmd[c].todo, cmd[c].returned, cmd[c].saw)
      BY <2>6, EnsureNetworkEffect
    <3>2. /\ cmd[c].phase = "network" /\ containers' = containers /\ cmd[c].opt.kind = "smoke"
          /\ cmd[c].inst = c
          /\ networks' = networks \cup {[inst |-> cmd[c].inst, target |-> cmd[c].opt.target]}
      BY <2>6, RecordOf DEF EnsureNetwork, In, Well, Ownership
    <3>3. networks' = networks \cup {NetworkOf(c)} /\ \A n \in networks' \ networks : n.inst = c
      BY <3>2 DEF NetworkOf
    <3>4. Forward(c, "run", FirstPeer, cmd[c].returned)
      BY <2>c, <3>2 DEF Forward, Before
    <3>5. ClearOf(cmd'[c], containers) /\ SweptOf(c, cmd'[c], containers, networks')
      BY <2>b, <3>1, <3>2 DEF Becomes, ClearOf, Beyond, Removing, SweptOf
    <3>6. MadeOnce'
      BY <3>1, <3>2, <3>4, MadeStep DEF Survival
    <3>7. Attached'
      BY <3>1, <3>2, <3>3, AttachedStep DEF Survival
    <3>8. Cleared'
      BY <3>1, <3>2, <3>5, ClearedStep DEF Survival
    <3>9. Swept'
      BY <3>1, <3>2, <3>3, <3>5, SweptStep DEF Survival
    <3> QED BY <3>6, <3>7, <3>8, <3>9 DEF Survival
  <2>7. ASSUME NEW c \in Command, RunContainer(c) PROVE Survival'
    BY <2>7, RunKeepsSurvival
  <2>8. ASSUME NEW c \in Command, Ready(c) PROVE Survival'
    <3> DEFINE rt   == cmd[c].returned \cup {<<cmd[c].inst, cmd[c].identity>>}
               rest == {p \in Identity : <<cmd[c].inst, p>> \notin rt}
               ph   == IF cmd[c].opt.kind = "start" THEN "done"
                       ELSE IF rest = {} THEN "verify" ELSE "run"
               id   == IF cmd[c].opt.kind = "start" \/ rest = {} THEN cmd[c].identity
                       ELSE CHOOSE p \in rest : TRUE
    <3>1. Becomes(c, ph, id, cmd[c].todo, rt, cmd[c].saw)
      BY <2>8, ReadyEffect
    <3>2. cmd[c].phase = "wait" /\ containers' = containers /\ networks' = networks
      BY <2>8 DEF Ready, In
    <3>3. ph = "run" => id \in rest
      OBVIOUS
    <3>4. Forward(c, ph, id, rt)
      <4>1. CASE ph = "run"
        <5>1. <<cmd[c].inst, id>> \notin rt
          BY <3>3, <4>1
        <5> QED BY <3>2, <4>1, <5>1 DEF Forward, OwnName
      <4>2. CASE ph # "run"
        BY <4>2 DEF Forward, Past, Ended
      <4> QED BY <4>1, <4>2
    <3>5. ph \in {"done", "verify", "run"} /\ (ph = "done" => cmd[c].opt.kind = "start")
      OBVIOUS
    <3> HIDE DEF rt, rest, ph, id
    <3>6. ClearOf(cmd'[c], containers) /\ SweptOf(c, cmd'[c], containers, networks)
      BY <2>b, <3>1, <3>2, <3>5 DEF Becomes, ClearOf, Beyond, Removing, SweptOf
    <3>7. ph = "run" /\ cmd[c].opt.kind = "smoke" => NetworkOf(c) \in networks
      BY <3>2 DEF Survival, Attached
    <3> QED BY <3>1, <3>2, <3>4, <3>5, <3>6, <3>7, QuietStep
  <2>9. ASSUME NEW c \in Command, NeverReady(c) PROVE Survival'
    <3>1. AfterRaise(c) /\ cmd[c].phase # "idle" /\ containers' = containers /\ networks' = networks
      BY <2>9 DEF NeverReady, In
    <3> QED BY <3>1, RaiseKeepsSurvival
  <2>10. ASSUME NEW c \in Command, Verified(c) PROVE Survival'
    <3>1. AfterRaise(c) /\ cmd[c].phase # "idle" /\ containers' = containers /\ networks' = networks
      BY <2>10 DEF Verified, In
    <3> QED BY <3>1, RaiseKeepsSurvival
  <2>11. ASSUME NEW c \in Command, ListToStop(c) PROVE Survival'
    <3> DEFINE found == {x \in containers : cmd[c].identity \in {None, x.identity}}
               td    == {NameOf(x) : x \in found}
    <3>1. Becomes(c, "cleanup", cmd[c].identity, td, cmd[c].returned, found)
      BY <2>11, ListToStopEffect
    <3>2. /\ found \subseteq containers /\ containers' = containers /\ networks' = networks
          /\ cmd[c].opt.kind = "stop"
      BY <2>11 DEF ListToStop
    <3>3. Forward(c, "cleanup", cmd[c].identity, cmd[c].returned)
      BY DEF Forward, Past
    <3>4. ClearOf(cmd'[c], containers) /\ SweptOf(c, cmd'[c], containers, networks)
      BY <3>1, <3>2 DEF Becomes, ClearOf, Beyond, Removing, SweptOf
    <3> HIDE DEF found, td
    <3> QED BY <3>1, <3>2, <3>3, <3>4, QuietStep
  <2>12. ASSUME NEW c \in Command, Cleanup(c) PROVE Survival'
    <3>1. PICK name \in cmd[c].todo :
            /\ containers' = Stop(name)
            /\ Becomes(c, cmd[c].phase, cmd[c].identity, cmd[c].todo \ {name},
                       cmd[c].returned, cmd[c].saw)
      BY <2>12, CleanupEffect
    <3>2. cmd[c].phase = "cleanup" /\ networks' = networks /\ containers' \subseteq containers
      BY <2>12, <2>a, <3>1 DEF Cleanup, In
    <3>3. Forward(c, cmd[c].phase, cmd[c].identity, cmd[c].returned)
      BY <3>2 DEF Forward, Past
    <3>4. ClearOf(cmd'[c], containers')
      BY <2>a, <2>b, <3>1, <3>2 DEF Becomes, ClearOf, Beyond, Removing
    <3>5. SweptOf(c, cmd'[c], containers', networks)
      BY <2>a, <2>b, <3>1, <3>2 DEF Becomes, SweptOf
    <3> QED BY <3>1, <3>2, <3>3, <3>4, <3>5, QuietStep
  <2>13. ASSUME NEW c \in Command, Cleaned(c) PROVE Survival'
    <3> DEFINE ph == IF cmd[c].opt.kind = "smoke" /\ ~cmd[c].opt.keep THEN "remove" ELSE "done"
    <3>1. Goto(c, ph) /\ ph \in Phase /\ Allowed(c, ph, cmd[c].identity)
      BY <2>13, RecordOf DEF Cleaned, In, Well, Allowed, Phase, Ended
    <3>2. Becomes(c, ph, cmd[c].identity, cmd[c].todo, cmd[c].returned, cmd[c].saw)
      <4> HIDE DEF ph
      <4> QED BY <3>1, GotoEffect
    <3>3. /\ cmd[c].phase = "cleanup" /\ cmd[c].todo = {}
          /\ containers' = containers /\ networks' = networks
      BY <2>13 DEF Cleaned, In
    <3>4. Forward(c, ph, cmd[c].identity, cmd[c].returned) /\ ph \notin {"run", "wait"}
      BY DEF Forward, Past, Ended
    <3>5. cmd[c].saw \cap containers = {}
      BY <2>b, <3>3 DEF ClearOf, Beyond, Removing
    <3>6. ClearOf(cmd'[c], containers)
      BY <3>2, <3>5 DEF Becomes, ClearOf, Removing
    <3>7. SweptOf(c, cmd'[c], containers, networks)
      BY <2>b, <3>2, <3>3 DEF Becomes, SweptOf
    <3> HIDE DEF ph
    <3> QED BY <3>2, <3>3, <3>4, <3>6, <3>7, QuietStep
  <2>14. ASSUME NEW c \in Command, RemoveNetwork(c) PROVE Survival'
    BY <2>14, RemoveKeepsSurvival
  <2>15. ASSUME NEW c \in Command, Raise(c) PROVE Survival'
    <3>1. AfterRaise(c) /\ cmd[c].phase # "idle" /\ containers' = containers /\ networks' = networks
      BY <2>15 DEF Raise, In, Running
    <3> QED BY <3>1, RaiseKeepsSurvival
  <2>16. ASSUME NEW c \in Command, Kill(c) PROVE Survival'
    <3>1. Goto(c, "killed") /\ "killed" \in Phase /\ Allowed(c, "killed", cmd[c].identity)
      BY <2>16, RecordOf DEF Kill, In, Well, Allowed, Phase, InTry, Ended, Running
    <3>2. Becomes(c, "killed", cmd[c].identity, cmd[c].todo, cmd[c].returned, cmd[c].saw)
      BY <3>1, GotoEffect
    <3>3. Forward(c, "killed", cmd[c].identity, cmd[c].returned)
      BY DEF Forward, Past, Ended
    <3>4. containers' = containers /\ networks' = networks
      BY <2>16 DEF Kill
    <3>5. ClearOf(cmd'[c], containers) /\ SweptOf(c, cmd'[c], containers, networks)
      BY <3>2 DEF Becomes, ClearOf, Beyond, Removing, SweptOf
    <3> QED BY <3>2, <3>3, <3>4, <3>5, QuietStep
  <2>17. CASE UNCHANGED vars
    BY <2>17 DEF vars, Survival, MadeOnce, Made, NameOf, OwnName, Attached, NetworkOf, Cleared, Swept
  <2> QED
    BY <2>1, <2>2, <2>3, <2>4, <2>5, <2>6, <2>7, <2>8, <2>9, <2>10, <2>11, <2>12, <2>13, <2>14, <2>15, <2>16, <2>17 DEF Next, Step
<1> QED BY <1>1, <1>2, OwnershipInductive, PTL DEF Spec

\* What was in a command's way when it looked is gone once it goes on, whatever
\* other commands do in between (_matching_com_containers with _stop_container_name,
\* the smoke guard, _stop_containers).
THEOREM WhatWasSeenIsGone == Spec => []NothingSeenSurvives
<1>1. Survival => NothingSeenSurvives
  BY DEF Survival, Cleared, ClearOf, Beyond, NothingSeenSurvives
<1> QED BY <1>1, SurvivalInductive, PTL

\* A smoke whose finally got through leaves none of its containers and, when both
\* peers had started, no network either.
THEOREM ASmokeCleansUp == Spec => []SmokeCleansUp
<1>1. TypeOK /\ Issued /\ Ownership /\ Survival => SmokeCleansUp
  <2> SUFFICES ASSUME TypeOK, Issued, Ownership, Survival, NEW c \in Command,
                      In(c, "done"), cmd[c].opt.kind = "smoke", ~cmd[c].opt.keep
               PROVE  /\ \A x \in containers : NameOf(x) \notin cmd[c].returned
                      /\ cmd[c].returned = {c} \X Identity =>
                            /\ \A x \in containers : x.by # c
                            /\ \A n \in networks : n.inst # c
    BY DEF SmokeCleansUp
  <2>1. /\ \A x \in containers : NameOf(x) \notin cmd[c].returned
        /\ cmd[c].returned = {c} \X Identity => \A n \in networks : n.inst # c
    BY DEF Survival, Swept, SweptOf, In
  <2>2. ASSUME cmd[c].returned = {c} \X Identity, NEW x \in containers, x.by = c PROVE FALSE
    <3>1. x.inst = c /\ x.identity \in Identity
      BY <2>2 DEF Ownership, TypeOK, Container
    <3> QED BY <2>1, <2>2, <3>1 DEF NameOf
  <2> QED BY <2>1, <2>2
<1> QED BY <1>1, SurvivalInductive, PTL

------------------------------------------------------------------------------
(* The consoles beside the commands (TmuxRuns) *)

USE TmuxRunsAssumption

\* The phases of each kind of command.
PhasesOf(kind) ==
    Ended \cup
    CASE kind = "start"         -> {"list", "conflicts", "own", "run", "wait"}
      [] kind = "smoke"         -> {"guard", "network", "run", "wait", "verify", "cleanup",
                                    "remove"}
      [] kind = "stop"          -> {"idle", "list", "cleanup"}
      [] kind = "scenario"      -> {"look", "apps", "coms", "record", "open", "tag", "windows",
                                    "ready"}
      [] kind = "rig"           -> {"look", "guard", "network", "record", "open", "tag", "windows"}
      [] kind = "scenario stop" -> {"look", "apps", "coms", "mark"}
      [] kind = "rig stop"      -> {"look", "apps", "coms", "unnet", "mark"}

AnyKind == {"start", "smoke", "stop", "scenario", "rig", "scenario stop", "rig stop"}

\* A command's record, field by field.
Rec(ph, op, id, inst, td, rt, sw) ==
    [phase |-> ph, opt |-> op, identity |-> id, inst |-> inst,
     todo |-> td, returned |-> rt, saw |-> sw]

WholeOption(o) ==
    o = [kind |-> o.kind, identity |-> o.identity, target |-> o.target,
         force |-> o.force, skip |-> o.skip, join |-> o.join, keep |-> o.keep]

Whole(r) ==
    /\ r = Rec(r.phase, r.opt, r.identity, r.inst, r.todo, r.returned, r.saw)
    /\ WholeOption(r.opt)

WholePane(p) ==
    p = [session |-> p.session, inst |-> p.inst, target |-> p.target,
         identity |-> p.identity, app |-> p.app, at |-> p.at, todo |-> p.todo]

WholeSession(s) == s = [name |-> s.name, tag |-> s.tag]
WholeRun(r) == r = [inst |-> r.inst, console |-> r.console, stopped |-> r.stopped]

\* Command c takes a step to this record; no other command moves.
Becoming(c, r) ==
    /\ cmd' = [d \in Command |-> cmd'[d]]
    /\ \A d \in Command : d # c => cmd'[d] = cmd[d]
    /\ cmd'[c] = r

Shaped == /\ cmd = [d \in Command |-> cmd[d]]
          /\ \A d \in Command : Whole(cmd[d])

LEMMA Replaced ==
    ASSUME Shaped, NEW c \in Command, NEW r, cmd' = [cmd EXCEPT ![c] = r]
    PROVE  Becoming(c, r)
BY DEF Shaped, Becoming

\* The ways a step writes the record of its command.
LEMMA GotoRec ==
    ASSUME Shaped, NEW c \in Command, NEW ph, Goto(c, ph)
    PROVE  Becoming(c, Rec(ph, cmd[c].opt, cmd[c].identity, cmd[c].inst, cmd[c].todo,
                           cmd[c].returned, cmd[c].saw))
<1>1. [cmd[c] EXCEPT !.phase = ph] = Rec(ph, cmd[c].opt, cmd[c].identity, cmd[c].inst,
                                         cmd[c].todo, cmd[c].returned, cmd[c].saw)
  BY DEF Shaped, Whole, Rec
<1> QED BY <1>1, Replaced DEF Goto


\* An option with another target or peer.
LEMMA OptionTarget ==
    \A o, t : WholeOption(o) =>
        /\ WholeOption([o EXCEPT !.target = t]) /\ [o EXCEPT !.target = t].kind = o.kind
        /\ [o EXCEPT !.target = t].target = t /\ [o EXCEPT !.target = t].identity = o.identity
<1> SUFFICES ASSUME NEW o, NEW t, WholeOption(o), NEW q, q = [o EXCEPT !.target = t]
             PROVE  WholeOption(q) /\ q.kind = o.kind /\ q.target = t /\ q.identity = o.identity
  OBVIOUS
<1>1. q = [kind |-> o.kind, identity |-> o.identity, target |-> t, force |-> o.force,
           skip |-> o.skip, join |-> o.join, keep |-> o.keep]
  BY DEF WholeOption
<1> QED BY <1>1 DEF WholeOption

LEMMA OptionPeer ==
    \A o, p : WholeOption(o) =>
        /\ WholeOption([o EXCEPT !.identity = p]) /\ [o EXCEPT !.identity = p].kind = o.kind
        /\ [o EXCEPT !.identity = p].target = o.target /\ [o EXCEPT !.identity = p].identity = p
<1> SUFFICES ASSUME NEW o, NEW p, WholeOption(o), NEW q, q = [o EXCEPT !.identity = p]
             PROVE  WholeOption(q) /\ q.kind = o.kind /\ q.target = o.target /\ q.identity = p
  OBVIOUS
<1>1. q = [kind |-> o.kind, identity |-> p, target |-> o.target, force |-> o.force,
           skip |-> o.skip, join |-> o.join, keep |-> o.keep]
  BY DEF WholeOption
<1> QED BY <1>1 DEF WholeOption

LEMMA TodoRec ==
    ASSUME Shaped, NEW c \in Command, NEW td,
           cmd' = [cmd EXCEPT ![c].todo = td]
    PROVE  Becoming(c, Rec(cmd[c].phase, cmd[c].opt, cmd[c].identity, cmd[c].inst, td,
                           cmd[c].returned, cmd[c].saw))
<1> DEFINE r1 == [cmd[c] EXCEPT !.todo = td]
<1>1. cmd' = [cmd EXCEPT ![c] = r1]
  OBVIOUS
<1>2. cmd[c] = Rec(cmd[c].phase, cmd[c].opt, cmd[c].identity, cmd[c].inst, cmd[c].todo,
                  cmd[c].returned, cmd[c].saw)
  BY DEF Shaped, Whole
<1> HIDE DEF r1
<1>3. r1 = Rec(cmd[c].phase, cmd[c].opt, cmd[c].identity, cmd[c].inst, td, cmd[c].returned,
               cmd[c].saw)
  BY <1>2 DEF Rec, r1
<1> QED BY <1>1, <1>3, Replaced

LEMMA TodoPhaseRec ==
    ASSUME Shaped, NEW c \in Command, NEW td, NEW ph,
           cmd' = [cmd EXCEPT ![c].todo = td, ![c].phase = ph]
    PROVE  Becoming(c, Rec(ph, cmd[c].opt, cmd[c].identity, cmd[c].inst, td, cmd[c].returned,
                           cmd[c].saw))
<1> DEFINE r1 == [cmd[c] EXCEPT !.todo = td]
           r2 == [r1 EXCEPT !.phase = ph]
<1>1. cmd' = [cmd EXCEPT ![c] = r2]
  OBVIOUS
<1>2. cmd[c] = Rec(cmd[c].phase, cmd[c].opt, cmd[c].identity, cmd[c].inst, cmd[c].todo,
                  cmd[c].returned, cmd[c].saw)
  BY DEF Shaped, Whole
<1> HIDE DEF r1, r2
<1>3. r1 = Rec(cmd[c].phase, cmd[c].opt, cmd[c].identity, cmd[c].inst, td, cmd[c].returned,
               cmd[c].saw)
  BY <1>2 DEF Rec, r1
<1>4. r2 = Rec(ph, cmd[c].opt, cmd[c].identity, cmd[c].inst, td, cmd[c].returned, cmd[c].saw)
  BY <1>3 DEF Rec, r2
<1> QED BY <1>1, <1>4, Replaced

LEMMA PhaseTodoRec ==
    ASSUME Shaped, NEW c \in Command, NEW ph, NEW td,
           cmd' = [cmd EXCEPT ![c].phase = ph, ![c].todo = td]
    PROVE  Becoming(c, Rec(ph, cmd[c].opt, cmd[c].identity, cmd[c].inst, td, cmd[c].returned,
                           cmd[c].saw))
<1> DEFINE r1 == [cmd[c] EXCEPT !.phase = ph]
           r2 == [r1 EXCEPT !.todo = td]
<1>1. cmd' = [cmd EXCEPT ![c] = r2]
  OBVIOUS
<1>2. cmd[c] = Rec(cmd[c].phase, cmd[c].opt, cmd[c].identity, cmd[c].inst, cmd[c].todo,
                  cmd[c].returned, cmd[c].saw)
  BY DEF Shaped, Whole
<1> HIDE DEF r1, r2
<1>3. r1 = Rec(ph, cmd[c].opt, cmd[c].identity, cmd[c].inst, cmd[c].todo, cmd[c].returned,
               cmd[c].saw)
  BY <1>2 DEF Rec, r1
<1>4. r2 = Rec(ph, cmd[c].opt, cmd[c].identity, cmd[c].inst, td, cmd[c].returned, cmd[c].saw)
  BY <1>3 DEF Rec, r2
<1> QED BY <1>1, <1>4, Replaced

LEMMA SawPhaseRec ==
    ASSUME Shaped, NEW c \in Command, NEW sw, NEW ph,
           cmd' = [cmd EXCEPT ![c].saw = sw, ![c].phase = ph]
    PROVE  Becoming(c, Rec(ph, cmd[c].opt, cmd[c].identity, cmd[c].inst, cmd[c].todo,
                           cmd[c].returned, sw))
<1> DEFINE r1 == [cmd[c] EXCEPT !.saw = sw]
           r2 == [r1 EXCEPT !.phase = ph]
<1>1. cmd' = [cmd EXCEPT ![c] = r2]
  OBVIOUS
<1>2. cmd[c] = Rec(cmd[c].phase, cmd[c].opt, cmd[c].identity, cmd[c].inst, cmd[c].todo,
                  cmd[c].returned, cmd[c].saw)
  BY DEF Shaped, Whole
<1> HIDE DEF r1, r2
<1>3. r1 = Rec(cmd[c].phase, cmd[c].opt, cmd[c].identity, cmd[c].inst, cmd[c].todo,
               cmd[c].returned, sw)
  BY <1>2 DEF Rec, r1
<1>4. r2 = Rec(ph, cmd[c].opt, cmd[c].identity, cmd[c].inst, cmd[c].todo, cmd[c].returned, sw)
  BY <1>3 DEF Rec, r2
<1> QED BY <1>1, <1>4, Replaced

LEMMA ListRec ==
    ASSUME Shaped, NEW c \in Command, NEW sw, NEW td, NEW ph,
           cmd' = [cmd EXCEPT ![c].saw = sw, ![c].todo = td, ![c].phase = ph]
    PROVE  Becoming(c, Rec(ph, cmd[c].opt, cmd[c].identity, cmd[c].inst, td, cmd[c].returned, sw))
<1> DEFINE r1 == [cmd[c] EXCEPT !.saw = sw]
           r2 == [r1 EXCEPT !.todo = td]
           r3 == [r2 EXCEPT !.phase = ph]
<1>1. cmd' = [cmd EXCEPT ![c] = r3]
  OBVIOUS
<1>2. cmd[c] = Rec(cmd[c].phase, cmd[c].opt, cmd[c].identity, cmd[c].inst, cmd[c].todo,
                  cmd[c].returned, cmd[c].saw)
  BY DEF Shaped, Whole
<1> HIDE DEF r1, r2, r3
<1>3. r1 = Rec(cmd[c].phase, cmd[c].opt, cmd[c].identity, cmd[c].inst, cmd[c].todo,
               cmd[c].returned, sw)
  BY <1>2 DEF Rec, r1
<1>4. r2 = Rec(cmd[c].phase, cmd[c].opt, cmd[c].identity, cmd[c].inst, td, cmd[c].returned, sw)
  BY <1>3 DEF Rec, r2
<1>5. r3 = Rec(ph, cmd[c].opt, cmd[c].identity, cmd[c].inst, td, cmd[c].returned, sw)
  BY <1>4 DEF Rec, r3
<1> QED BY <1>1, <1>5, Replaced

LEMMA PeerRec ==
    ASSUME Shaped, NEW c \in Command, NEW id, NEW ph,
           cmd' = [cmd EXCEPT ![c].identity = id, ![c].phase = ph]
    PROVE  Becoming(c, Rec(ph, cmd[c].opt, id, cmd[c].inst, cmd[c].todo, cmd[c].returned,
                           cmd[c].saw))
<1> DEFINE r1 == [cmd[c] EXCEPT !.identity = id]
           r2 == [r1 EXCEPT !.phase = ph]
<1>1. cmd' = [cmd EXCEPT ![c] = r2]
  OBVIOUS
<1>2. cmd[c] = Rec(cmd[c].phase, cmd[c].opt, cmd[c].identity, cmd[c].inst, cmd[c].todo,
                  cmd[c].returned, cmd[c].saw)
  BY DEF Shaped, Whole
<1> HIDE DEF r1, r2
<1>3. r1 = Rec(cmd[c].phase, cmd[c].opt, id, cmd[c].inst, cmd[c].todo, cmd[c].returned, cmd[c].saw)
  BY <1>2 DEF Rec, r1
<1>4. r2 = Rec(ph, cmd[c].opt, id, cmd[c].inst, cmd[c].todo, cmd[c].returned, cmd[c].saw)
  BY <1>3 DEF Rec, r2
<1> QED BY <1>1, <1>4, Replaced

LEMMA ReturnRec ==
    ASSUME Shaped, NEW c \in Command, NEW rt, NEW ph, NEW id,
           cmd' = [cmd EXCEPT ![c].returned = rt, ![c].phase = ph, ![c].identity = id]
    PROVE  Becoming(c, Rec(ph, cmd[c].opt, id, cmd[c].inst, cmd[c].todo, rt, cmd[c].saw))
<1> DEFINE r1 == [cmd[c] EXCEPT !.returned = rt]
           r2 == [r1 EXCEPT !.phase = ph]
           r3 == [r2 EXCEPT !.identity = id]
<1>1. cmd' = [cmd EXCEPT ![c] = r3]
  OBVIOUS
<1>2. cmd[c] = Rec(cmd[c].phase, cmd[c].opt, cmd[c].identity, cmd[c].inst, cmd[c].todo,
                  cmd[c].returned, cmd[c].saw)
  BY DEF Shaped, Whole
<1> HIDE DEF r1, r2, r3
<1>3. r1 = Rec(cmd[c].phase, cmd[c].opt, cmd[c].identity, cmd[c].inst, cmd[c].todo, rt, cmd[c].saw)
  BY <1>2 DEF Rec, r1
<1>4. r2 = Rec(ph, cmd[c].opt, cmd[c].identity, cmd[c].inst, cmd[c].todo, rt, cmd[c].saw)
  BY <1>3 DEF Rec, r2
<1>5. r3 = Rec(ph, cmd[c].opt, id, cmd[c].inst, cmd[c].todo, rt, cmd[c].saw)
  BY <1>4 DEF Rec, r3
<1> QED BY <1>1, <1>5, Replaced

LEMMA PhaseTodoInstRec ==
    ASSUME Shaped, NEW c \in Command, NEW ph, NEW td, NEW inst,
           cmd' = [cmd EXCEPT ![c].phase = ph, ![c].todo = td, ![c].inst = inst]
    PROVE  Becoming(c, Rec(ph, cmd[c].opt, cmd[c].identity, inst, td, cmd[c].returned, cmd[c].saw))
<1> DEFINE r1 == [cmd[c] EXCEPT !.phase = ph]
           r2 == [r1 EXCEPT !.todo = td]
           r3 == [r2 EXCEPT !.inst = inst]
<1>1. cmd' = [cmd EXCEPT ![c] = r3]
  OBVIOUS
<1>2. cmd[c] = Rec(cmd[c].phase, cmd[c].opt, cmd[c].identity, cmd[c].inst, cmd[c].todo,
                  cmd[c].returned, cmd[c].saw)
  BY DEF Shaped, Whole
<1> HIDE DEF r1, r2, r3
<1>3. r1 = Rec(ph, cmd[c].opt, cmd[c].identity, cmd[c].inst, cmd[c].todo, cmd[c].returned,
               cmd[c].saw)
  BY <1>2 DEF Rec, r1
<1>4. r2 = Rec(ph, cmd[c].opt, cmd[c].identity, cmd[c].inst, td, cmd[c].returned, cmd[c].saw)
  BY <1>3 DEF Rec, r2
<1>5. r3 = Rec(ph, cmd[c].opt, cmd[c].identity, inst, td, cmd[c].returned, cmd[c].saw)
  BY <1>4 DEF Rec, r3
<1> QED BY <1>1, <1>5, Replaced

LEMMA FoundScenarioRec ==
    ASSUME Shaped, NEW c \in Command, NEW target, NEW peer, NEW td, NEW ph,
           cmd' = [cmd EXCEPT ![c].opt.target = target, ![c].opt.identity = peer, ![c].todo = td,
                   ![c].phase = ph]
    PROVE  Becoming(c, Rec(ph, [[cmd[c].opt EXCEPT !.target = target] EXCEPT !.identity = peer],
                           cmd[c].identity, cmd[c].inst, td, cmd[c].returned, cmd[c].saw))
<1> DEFINE r1 == [cmd[c] EXCEPT !.opt = [cmd[c].opt EXCEPT !.target = target]]
           r2 == [r1 EXCEPT !.opt = [r1.opt EXCEPT !.identity = peer]]
           r3 == [r2 EXCEPT !.todo = td]
           r4 == [r3 EXCEPT !.phase = ph]
<1>1. cmd' = [cmd EXCEPT ![c] = r4]
  <2> DEFINE h1 == [cmd EXCEPT ![c].opt.target = target]
             h2 == [h1 EXCEPT ![c].opt.identity = peer]
             h3 == [h2 EXCEPT ![c].todo = td]
             h4 == [h3 EXCEPT ![c].phase = ph]
  <2>0. cmd' = h4 /\ c \in DOMAIN cmd
    BY DEF Shaped
  <2> HIDE DEF r1, r2, r3, r4, h1, h2, h3, h4
  <2>1. h1 = [cmd EXCEPT ![c] = r1]
    BY <2>0 DEF h1, r1
  <2>2. h2 = [cmd EXCEPT ![c] = r2]
    BY <2>0, <2>1 DEF h2, r2
  <2>3. h3 = [cmd EXCEPT ![c] = r3]
    BY <2>0, <2>2 DEF h3, r3
  <2>4. h4 = [cmd EXCEPT ![c] = r4]
    BY <2>0, <2>3 DEF h4, r4
  <2> QED BY <2>0, <2>4
<1>2. cmd[c] = Rec(cmd[c].phase, cmd[c].opt, cmd[c].identity, cmd[c].inst, cmd[c].todo,
                  cmd[c].returned, cmd[c].saw)
  BY DEF Shaped, Whole
<1> HIDE DEF r1, r2, r3, r4
<1>3. r1 = Rec(cmd[c].phase, [cmd[c].opt EXCEPT !.target = target], cmd[c].identity, cmd[c].inst,
               cmd[c].todo, cmd[c].returned, cmd[c].saw)
  BY <1>2 DEF Rec, r1
<1>4. r2 = Rec(cmd[c].phase, [[cmd[c].opt EXCEPT !.target = target] EXCEPT !.identity = peer],
               cmd[c].identity, cmd[c].inst, cmd[c].todo, cmd[c].returned, cmd[c].saw)
  <2>1. r1.opt = [cmd[c].opt EXCEPT !.target = target]
    BY <1>3 DEF Rec
  <2> QED BY <1>3, <2>1 DEF Rec, r2
<1>5. r3 = Rec(cmd[c].phase, [[cmd[c].opt EXCEPT !.target = target] EXCEPT !.identity = peer],
               cmd[c].identity, cmd[c].inst, td, cmd[c].returned, cmd[c].saw)
  BY <1>4 DEF Rec, r3
<1>6. r4 = Rec(ph, [[cmd[c].opt EXCEPT !.target = target] EXCEPT !.identity = peer],
               cmd[c].identity, cmd[c].inst, td, cmd[c].returned, cmd[c].saw)
  BY <1>5 DEF Rec, r4
<1> QED BY <1>1, <1>6, Replaced

LEMMA FoundRigRec ==
    ASSUME Shaped, NEW c \in Command, NEW inst, NEW target, NEW td, NEW rt, NEW ph,
           cmd' = [cmd EXCEPT ![c].inst = inst, ![c].opt.target = target, ![c].todo = td,
                   ![c].returned = rt, ![c].phase = ph]
    PROVE  Becoming(c, Rec(ph, [cmd[c].opt EXCEPT !.target = target], cmd[c].identity, inst, td,
                           rt, cmd[c].saw))
<1> DEFINE r1 == [cmd[c] EXCEPT !.inst = inst]
           r2 == [r1 EXCEPT !.opt = [r1.opt EXCEPT !.target = target]]
           r3 == [r2 EXCEPT !.todo = td]
           r4 == [r3 EXCEPT !.returned = rt]
           r5 == [r4 EXCEPT !.phase = ph]
<1>1. cmd' = [cmd EXCEPT ![c] = r5]
  <2> DEFINE h1 == [cmd EXCEPT ![c].inst = inst]
             h2 == [h1 EXCEPT ![c].opt.target = target]
             h3 == [h2 EXCEPT ![c].todo = td]
             h4 == [h3 EXCEPT ![c].returned = rt]
             h5 == [h4 EXCEPT ![c].phase = ph]
  <2>0. cmd' = h5 /\ c \in DOMAIN cmd
    BY DEF Shaped
  <2> HIDE DEF r1, r2, r3, r4, r5, h1, h2, h3, h4, h5
  <2>1. h1 = [cmd EXCEPT ![c] = r1]
    BY <2>0 DEF h1, r1
  <2>2. h2 = [cmd EXCEPT ![c] = r2]
    BY <2>0, <2>1 DEF h2, r2
  <2>3. h3 = [cmd EXCEPT ![c] = r3]
    BY <2>0, <2>2 DEF h3, r3
  <2>4. h4 = [cmd EXCEPT ![c] = r4]
    BY <2>0, <2>3 DEF h4, r4
  <2>5. h5 = [cmd EXCEPT ![c] = r5]
    BY <2>0, <2>4 DEF h5, r5
  <2> QED BY <2>0, <2>5
<1>2. cmd[c] = Rec(cmd[c].phase, cmd[c].opt, cmd[c].identity, cmd[c].inst, cmd[c].todo,
                  cmd[c].returned, cmd[c].saw)
  BY DEF Shaped, Whole
<1> HIDE DEF r1, r2, r3, r4, r5
<1>3. r1 = Rec(cmd[c].phase, cmd[c].opt, cmd[c].identity, inst, cmd[c].todo, cmd[c].returned,
               cmd[c].saw)
  BY <1>2 DEF Rec, r1
<1>4. r2 = Rec(cmd[c].phase, [cmd[c].opt EXCEPT !.target = target], cmd[c].identity, inst,
               cmd[c].todo, cmd[c].returned, cmd[c].saw)
  <2>1. r1.opt = cmd[c].opt
    BY <1>3 DEF Rec
  <2> QED BY <1>3, <2>1 DEF Rec, r2
<1>5. r3 = Rec(cmd[c].phase, [cmd[c].opt EXCEPT !.target = target], cmd[c].identity, inst, td,
               cmd[c].returned, cmd[c].saw)
  BY <1>4 DEF Rec, r3
<1>6. r4 = Rec(cmd[c].phase, [cmd[c].opt EXCEPT !.target = target], cmd[c].identity, inst, td, rt,
               cmd[c].saw)
  BY <1>5 DEF Rec, r4
<1>7. r5 = Rec(ph, [cmd[c].opt EXCEPT !.target = target], cmd[c].identity, inst, td, rt, cmd[c].saw)
  BY <1>6 DEF Rec, r5
<1> QED BY <1>1, <1>7, Replaced

LEMMA PhaseTodoSawRec ==
    ASSUME Shaped, NEW c \in Command, NEW ph, NEW td, NEW sw,
           cmd' = [cmd EXCEPT ![c].phase = ph, ![c].todo = td, ![c].saw = sw]
    PROVE  Becoming(c, Rec(ph, cmd[c].opt, cmd[c].identity, cmd[c].inst, td, cmd[c].returned, sw))
<1> DEFINE r1 == [cmd[c] EXCEPT !.phase = ph]
           r2 == [r1 EXCEPT !.todo = td]
           r3 == [r2 EXCEPT !.saw = sw]
<1>1. cmd' = [cmd EXCEPT ![c] = r3]
  OBVIOUS
<1>2. cmd[c] = Rec(cmd[c].phase, cmd[c].opt, cmd[c].identity, cmd[c].inst, cmd[c].todo,
                  cmd[c].returned, cmd[c].saw)
  BY DEF Shaped, Whole
<1> HIDE DEF r1, r2, r3
<1>3. r1 = Rec(ph, cmd[c].opt, cmd[c].identity, cmd[c].inst, cmd[c].todo, cmd[c].returned,
               cmd[c].saw)
  BY <1>2 DEF Rec, r1
<1>4. r2 = Rec(ph, cmd[c].opt, cmd[c].identity, cmd[c].inst, td, cmd[c].returned, cmd[c].saw)
  BY <1>3 DEF Rec, r2
<1>5. r3 = Rec(ph, cmd[c].opt, cmd[c].identity, cmd[c].inst, td, cmd[c].returned, sw)
  BY <1>4 DEF Rec, r3
<1> QED BY <1>1, <1>5, Replaced

LEMMA PhaseInstRec ==
    ASSUME Shaped, NEW c \in Command, NEW ph, NEW inst,
           cmd' = [cmd EXCEPT ![c].phase = ph, ![c].inst = inst]
    PROVE  Becoming(c, Rec(ph, cmd[c].opt, cmd[c].identity, inst, cmd[c].todo, cmd[c].returned,
                           cmd[c].saw))
<1> DEFINE r1 == [cmd[c] EXCEPT !.phase = ph]
           r2 == [r1 EXCEPT !.inst = inst]
<1>1. cmd' = [cmd EXCEPT ![c] = r2]
  OBVIOUS
<1>2. cmd[c] = Rec(cmd[c].phase, cmd[c].opt, cmd[c].identity, cmd[c].inst, cmd[c].todo,
                  cmd[c].returned, cmd[c].saw)
  BY DEF Shaped, Whole
<1> HIDE DEF r1, r2
<1>3. r1 = Rec(ph, cmd[c].opt, cmd[c].identity, cmd[c].inst, cmd[c].todo, cmd[c].returned,
               cmd[c].saw)
  BY <1>2 DEF Rec, r1
<1>4. r2 = Rec(ph, cmd[c].opt, cmd[c].identity, inst, cmd[c].todo, cmd[c].returned, cmd[c].saw)
  BY <1>3 DEF Rec, r2
<1> QED BY <1>1, <1>4, Replaced


------------------------------------------------------------------------------
\* What a step may rely on, of a command's record, a bridge and a pane: each
\* kind of command has its phases; who starts a container knows whose; a stop
\* that found its rig by the options of a session touches names of that run only.
Sound(r) ==
    /\ r.opt.kind \in AnyKind /\ r.phase \in PhasesOf(r.opt.kind)
    /\ r.opt.kind = "start" => r.inst \in Command /\ r.identity \in Identity
    /\ r.opt.kind = "smoke" => /\ r.inst \in Command
                               /\ r.phase \in {"run", "wait"} => r.identity \in Identity
    /\ r.opt.kind = "scenario" => r.opt.identity \in Identity
    /\ r.opt.kind = "scenario stop" => r.inst = None
    /\ r.opt.kind = "rig stop" /\ r.inst # None =>
          /\ r.phase = "apps" => r.returned \subseteq {r.inst} \X Identity
          /\ r.phase = "coms" => r.todo \subseteq {r.inst} \X Identity

SoundBridge(x) == x.inst \in Command /\ x.identity \in Identity /\ x.net \in {Host, x.inst}

SoundPane(p) == WholePane(p) /\ p.inst \in Command /\ (~p.app => p.identity \in Identity)

Windows == \A c \in Command : In(c, "windows") => \A p \in cmd[c].todo : SoundPane(p)

Opens(c) == c \in Command /\ Kind(c) \in {"scenario", "rig"}

\* An option of a session and a manifest name the command that opened it, and a
\* stop that knows its run bears the name of that run's session.
TagsAreTrue == \A s \in tmux : /\ WholeSession(s)
                               /\ s.tag # None => Opens(s.tag) /\ s.name = Console(s.tag)
RunsAreTrue == \A r \in runs : WholeRun(r) /\ Opens(r.inst) /\ r.console = Console(r.inst)
FoundByTag  == \A c \in Command : Kind(c) = "rig stop" /\ cmd[c].inst # None =>
                   Opens(cmd[c].inst) /\ Console(cmd[c].inst) = Console(c)

ConsoleInv ==
    /\ Shaped
    /\ \A c \in Command : Sound(cmd[c])
    /\ Windows
    /\ \A x \in containers : SoundBridge(x)
    /\ \A n \in networks : n.inst \in Command
    /\ \A p \in panes : SoundPane(p)
    /\ TagsAreTrue /\ RunsAreTrue /\ FoundByTag

\* What a step of command c may add to what it shares with the others.
Adds(c) ==
    /\ \A x \in containers' : x \in containers \/ SoundBridge(x)
    /\ \A n \in networks' : n \in networks \/ n.inst \in Command
    /\ \A p \in panes' : p \in panes \/ SoundPane(p)
    /\ \A s \in tmux' : s \in tmux \/ (/\ WholeSession(s)
                                       /\ s.tag # None => s.tag = c /\ Opens(c) /\ s.name = Console(c))
    /\ \A q \in runs' :
          \/ q \in runs
          \/ /\ WholeRun(q)
             /\ \/ \E q0 \in runs : q.inst = q0.inst /\ q.console = q0.console
                \/ q.inst = c /\ Opens(c) /\ q.console = Console(c)

\* What a step of a command has to give to keep all of it.
LEMMA StepKeeps ==
    ASSUME ConsoleInv, NEW c \in Command, NEW r, Becoming(c, r), Whole(r), Sound(r),
           r.phase = "windows" => \A p \in r.todo : SoundPane(p),
           Opens(c) => r.opt = cmd[c].opt,
           r.opt.kind = "rig stop" /\ r.inst # None =>
               Opens(r.inst) /\ Console(r.inst) = <<"rig", r.opt.target>>,
           Adds(c)
    PROVE  ConsoleInv'
<1>1. Shaped'
  BY DEF ConsoleInv, Shaped, Becoming
<1>2. \A d \in Command : Sound(cmd'[d])
  BY DEF ConsoleInv, Becoming
<1>3. \A d : Opens(d) => Opens(d)' /\ Console(d)' = Console(d)
  <2> SUFFICES ASSUME NEW d, Opens(d) PROVE Opens(d)' /\ Console(d)' = Console(d)
    OBVIOUS
  <2>1. d \in Command /\ cmd'[d].opt = cmd[d].opt
    BY DEF Opens, Becoming
  <2> QED BY <2>1 DEF Opens, Kind, Console, OfRig, Target
<1>4. TagsAreTrue'
  BY <1>3 DEF Adds, ConsoleInv, TagsAreTrue
<1>5. RunsAreTrue'
  BY <1>3 DEF Adds, ConsoleInv, RunsAreTrue
<1>6. FoundByTag'
  <2> SUFFICES ASSUME NEW d \in Command, Kind(d)' = "rig stop", NEW i, i = (cmd[d].inst)', i # None
               PROVE  Opens(i)' /\ Console(i)' = Console(d)'
    BY DEF FoundByTag
  <2>1. CASE d # c
    <3>1. cmd'[d] = cmd[d]
      BY <2>1 DEF Becoming
    <3>2. Kind(d) = "rig stop" /\ cmd[d].inst = i /\ Console(d)' = Console(d)
      BY <3>1 DEF Kind, Console, OfRig, Target
    <3>3. Opens(i) /\ Console(i) = Console(d)
      BY <3>2 DEF ConsoleInv, FoundByTag
    <3> QED BY <1>3, <3>2, <3>3
  <2>2. CASE d = c
    <3>1. cmd'[c] = r /\ r.opt.kind = "rig stop" /\ r.inst = i
      BY <2>2 DEF Becoming, Kind
    <3>2. Console(c)' = <<"rig", r.opt.target>>
      BY <3>1 DEF Console, OfRig, Kind, Target
    <3>3. Opens(i) /\ Console(i) = <<"rig", r.opt.target>>
      BY <3>1
    <3> QED BY <1>3, <2>2, <3>2, <3>3
  <2> QED BY <2>1, <2>2
<1>7. Windows'
  BY DEF ConsoleInv, Windows, Becoming, In
<1>8. /\ \A x \in containers' : SoundBridge(x)
      /\ \A n \in networks' : n.inst \in Command
      /\ \A p \in panes' : SoundPane(p)
  BY DEF Adds, ConsoleInv
<1> QED BY <1>1, <1>2, <1>4, <1>5, <1>6, <1>7, <1>8 DEF ConsoleInv

\* A step that leaves the options alone.
LEMMA FieldsKeep ==
    ASSUME ConsoleInv, NEW c \in Command,
           NEW ph, NEW id, NEW inst, NEW td, NEW rt, NEW sw,
           Becoming(c, Rec(ph, cmd[c].opt, id, inst, td, rt, sw)),
           ph \in PhasesOf(Kind(c)),
           id = cmd[c].identity \/ id \in Identity,
           inst = cmd[c].inst \/ Opens(c),
           Kind(c) = "smoke" /\ ph \in {"run", "wait"} => id \in Identity,
           ph = "windows" => \A p \in td : SoundPane(p),
           Kind(c) = "rig stop" /\ inst # None =>
               /\ ph = "apps" => rt \subseteq {inst} \X Identity
               /\ ph = "coms" => td \subseteq {inst} \X Identity,
           Adds(c)
    PROVE  ConsoleInv'
<1>1. PICK r : r = Rec(ph, cmd[c].opt, id, inst, td, rt, sw)
  OBVIOUS
<1>2. Becoming(c, r) /\ Sound(cmd[c]) /\ WholeOption(cmd[c].opt)
  BY <1>1 DEF ConsoleInv, Shaped, Whole
<1>3. /\ Whole(r) /\ r.phase = ph /\ r.opt = cmd[c].opt /\ r.identity = id
      /\ r.inst = inst /\ r.todo = td /\ r.returned = rt
  BY <1>1, <1>2 DEF Whole, Rec
<1>4. Sound(r)
  BY <1>2, <1>3 DEF Sound, Kind, Opens
<1>5. ASSUME r.opt.kind = "rig stop", r.inst # None
      PROVE  Opens(r.inst) /\ Console(r.inst) = <<"rig", r.opt.target>>
  <2>1. Console(c) = <<"rig", r.opt.target>>
    BY <1>3, <1>5 DEF Kind, Console, OfRig, Target
  <2>2. Kind(c) = "rig stop" /\ cmd[c].inst = r.inst
    BY <1>3, <1>5 DEF Kind, Opens
  <2> QED BY <1>5, <2>1, <2>2 DEF ConsoleInv, FoundByTag
<1>6. Opens(c) => r.opt = cmd[c].opt
  BY <1>3
<1>7. r.phase = "windows" => \A p \in r.todo : SoundPane(p)
  BY <1>3
<1> QED BY <1>2, <1>3, <1>4, <1>5, <1>6, <1>7, StepKeeps

\* A step to another phase and nothing else of the record.
LEMMA GotoKeeps ==
    ASSUME ConsoleInv, NEW c \in Command, NEW ph, Goto(c, ph),
           ph \in PhasesOf(Kind(c)), ph \notin {"windows", "apps", "coms"},
           ph \in {"run", "wait"} => cmd[c].identity \in Identity,
           Adds(c)
    PROVE  ConsoleInv'
<1>1. Becoming(c, Rec(ph, cmd[c].opt, cmd[c].identity, cmd[c].inst, cmd[c].todo,
                      cmd[c].returned, cmd[c].saw))
  BY GotoRec DEF ConsoleInv
<1> QED BY <1>1, FieldsKeep

LEMMA ThePhases ==
    /\ PhasesOf("start") = {"list", "conflicts", "own", "run", "wait"} \cup Ended
    /\ PhasesOf("smoke") = {"guard", "network", "run", "wait", "verify", "cleanup",
                            "remove"} \cup Ended
    /\ PhasesOf("stop") = {"idle", "list", "cleanup"} \cup Ended
    /\ PhasesOf("scenario") = {"look", "apps", "coms", "record", "open", "tag", "windows",
                               "ready"} \cup Ended
    /\ PhasesOf("rig") = {"look", "guard", "network", "record", "open", "tag", "windows"} \cup Ended
    /\ PhasesOf("scenario stop") = {"look", "apps", "coms", "mark"} \cup Ended
    /\ PhasesOf("rig stop") = {"look", "apps", "coms", "unnet", "mark"} \cup Ended
BY DEF PhasesOf

\* The kinds a phase may belong to.
LEMMA KindOfPhase ==
    ASSUME ConsoleInv, NEW c \in Command
    PROVE  /\ Kind(c) \in AnyKind /\ cmd[c].phase \in PhasesOf(Kind(c))
           /\ In(c, "idle") => Kind(c) = "stop"
           /\ In(c, "list") => Kind(c) \in {"start", "stop"}
           /\ In(c, "conflicts") \/ In(c, "own") => Kind(c) = "start"
           /\ In(c, "run") \/ In(c, "wait") => Kind(c) \in {"start",
                                                            "smoke"} /\ cmd[c].identity \in Identity
           /\ In(c, "guard") \/ In(c, "network") => Kind(c) \in {"smoke", "rig"}
           /\ In(c, "verify") \/ In(c, "remove") => Kind(c) = "smoke"
           /\ In(c, "cleanup") => Kind(c) \in {"smoke", "stop"}
           /\ In(c, "look") => Kind(c) \in {"scenario", "rig", "scenario stop", "rig stop"}
           /\ In(c, "apps") \/ In(c, "coms") => Kind(c) \in {"scenario", "scenario stop",
                                                             "rig stop"}
           /\ In(c, "unnet") => Kind(c) = "rig stop"
           /\ In(c, "mark") => Kind(c) \in {"scenario stop", "rig stop"}
           /\ In(c, "record") \/ In(c, "open") \/ In(c, "tag") \/ In(c, "windows") => Opens(c)
           /\ In(c, "ready") => Kind(c) = "scenario"
<1>1. Sound(cmd[c])
  BY DEF ConsoleInv
<1>2. Kind(c) \in AnyKind /\ cmd[c].phase \in PhasesOf(Kind(c))
  BY <1>1 DEF Sound, Kind
<1>3. Kind(c) \in {"start", "smoke"} /\ cmd[c].phase \in {"run",
                                                          "wait"} => cmd[c].identity \in Identity
  BY <1>1 DEF Sound, Kind
<1> QED BY <1>2, <1>3, ThePhases DEF AnyKind, In, Ended, Opens
------------------------------------------------------------------------------
\* The commands of Workspace among the consoles.

\* What follows an exception.
LEMMA RaisedKeeps ==
    ASSUME ConsoleInv, NEW c \in Command, AfterRaise(c), ~In(c, "idle"), Adds(c)
    PROVE  ConsoleInv'
<1>1. CASE cmd[c].opt.kind = "smoke" /\ cmd[c].phase \in InTry
  <2> DEFINE td == IF cmd[c].opt.keep THEN {} ELSE cmd[c].returned
  <2>1. cmd' = [cmd EXCEPT ![c].phase = "cleanup", ![c].todo = td]
    BY <1>1 DEF AfterRaise
  <2> HIDE DEF td
  <2>2. Becoming(c, Rec("cleanup", cmd[c].opt, cmd[c].identity, cmd[c].inst, td,
                        cmd[c].returned, cmd[c].saw))
    BY <2>1, PhaseTodoRec DEF ConsoleInv
  <2>3. Kind(c) = "smoke" /\ "cleanup" \in PhasesOf(Kind(c))
    BY <1>1, ThePhases DEF Kind
  <2> QED BY <2>2, <2>3, FieldsKeep
<1>2. CASE ~(cmd[c].opt.kind = "smoke" /\ cmd[c].phase \in InTry)
  <2>1. Goto(c, "failed")
    BY <1>2 DEF AfterRaise
  <2>2. "failed" \in PhasesOf(Kind(c))
    BY DEF PhasesOf, Ended
  <2> QED BY <2>1, <2>2, GotoKeeps
<1> QED BY <1>1, <1>2

\* A step of start, stop and smoke.
LEMMA CommandsKeep ==
    ASSUME ConsoleInv, NEW c \in Command, Kind(c) \in {"start", "stop", "smoke"}, Step(c),
           UNCHANGED consoleVars
    PROVE  ConsoleInv'
<1>0. UNCHANGED <<panes, tmux, runs>>
  BY DEF consoleVars
<1>1. Shaped /\ Sound(cmd[c]) /\ ~Opens(c)
  BY DEF ConsoleInv, Opens
<1>a. ASSUME containers' \subseteq containers, networks' \subseteq networks PROVE Adds(c)
  BY <1>0, <1>a DEF Adds
<1>b. \A name : Stop(name) \subseteq containers
  BY DEF Stop
<1>2. CASE ListConflicts(c)
  <2> DEFINE found == IF cmd[c].opt.skip THEN {} ELSE Conflicts(c)
             ph == IF found = {} THEN "own" ELSE IF cmd[c].opt.force THEN "conflicts" ELSE "refused"
             td == {NameOf(x) : x \in found}
  <2>1. cmd' = [cmd EXCEPT ![c].saw = found, ![c].todo = td, ![c].phase = ph]
    BY <1>2 DEF ListConflicts
  <2>2. ph \in {"own", "conflicts", "refused"} /\ Kind(c) = "start" /\ Adds(c)
    BY <1>2, <1>a DEF ListConflicts, Kind
  <2> HIDE DEF found, ph, td
  <2>3. Becoming(c, Rec(ph, cmd[c].opt, cmd[c].identity, cmd[c].inst, td, cmd[c].returned, found))
    BY <1>1, <2>1, ListRec
  <2>4. ph \in PhasesOf(Kind(c))
    BY <2>2, ThePhases DEF Ended
  <2> QED BY <2>2, <2>3, <2>4, FieldsKeep
<1>3. CASE StopConflict(c)
  <2>1. PICK name \in cmd[c].todo :
          /\ containers' = Stop(name)
          /\ cmd' = [cmd EXCEPT ![c].todo  = @ \ {name},
                                ![c].phase = IF cmd[c].todo = {name} THEN "own" ELSE @]
    BY <1>3 DEF StopConflict
  <2> DEFINE td == cmd[c].todo \ {name}
             ph == IF cmd[c].todo = {name} THEN "own" ELSE "conflicts"
  <2>2. cmd[c].phase = "conflicts" /\ Kind(c) = "start"
    BY <1>3, KindOfPhase DEF StopConflict, In
  <2>3. cmd' = [cmd EXCEPT ![c].todo = td, ![c].phase = ph]
    <3>1. cmd' = [cmd EXCEPT ![c].todo = td,
                  ![c].phase = IF cmd[c].todo = {name} THEN "own" ELSE cmd[c].phase]
      <4>1. [cmd[c] EXCEPT !.todo = td].phase = cmd[c].phase
        BY <1>1 DEF Shaped, Whole, Rec
      <4> QED BY <1>1, <2>1, <4>1 DEF Shaped
    <3> QED BY <2>2, <3>1
  <2> HIDE DEF ph, td
  <2>4. Becoming(c, Rec(ph, cmd[c].opt, cmd[c].identity, cmd[c].inst, td, cmd[c].returned,
                        cmd[c].saw))
    BY <1>1, <2>3, TodoPhaseRec
  <2>5. ph \in {"own", "conflicts"} /\ ph \in PhasesOf(Kind(c))
    BY <2>2, ThePhases DEF ph
  <2>6. Adds(c)
    BY <1>3, <1>a, <1>b, <2>1 DEF StopConflict
  <2> QED BY <2>2, <2>4, <2>5, <2>6, FieldsKeep
<1>4. CASE StopOwn(c)
  <2>1. Goto(c, "run") /\ Kind(c) = "start" /\ Adds(c)
    BY <1>4, <1>a, <1>b, KindOfPhase DEF StopOwn
  <2>2. "run" \in PhasesOf(Kind(c)) /\ cmd[c].identity \in Identity
    BY <1>1, <2>1, ThePhases DEF Sound, Kind
  <2> QED BY <2>1, <2>2, GotoKeeps
<1>5. CASE Guard(c)
  <2> DEFINE sw == IF cmd[c].opt.skip THEN {} ELSE SmokeContainers(cmd[c].opt.target)
             ph == IF ~cmd[c].opt.skip /\ OnTargetNetworks(c) # {} THEN "refused" ELSE "network"
  <2>1. cmd' = [cmd EXCEPT ![c].saw = sw, ![c].phase = ph]
    BY <1>5 DEF Guard
  <2>2. ph \in {"refused", "network"} /\ Kind(c) = "smoke" /\ Adds(c)
    BY <1>5, <1>a, KindOfPhase DEF Guard
  <2> HIDE DEF sw, ph
  <2>3. Becoming(c, Rec(ph, cmd[c].opt, cmd[c].identity, cmd[c].inst, cmd[c].todo, cmd[c].returned,
                        sw))
    BY <1>1, <2>1, SawPhaseRec
  <2>4. ph \in PhasesOf(Kind(c))
    BY <2>2, ThePhases DEF Ended
  <2> QED BY <2>2, <2>3, <2>4, FieldsKeep
<1>6. CASE EnsureNetwork(c)
  <2>1. Kind(c) = "smoke" /\ cmd[c].inst \in Command
    BY <1>1, <1>6, KindOfPhase DEF EnsureNetwork, Sound, Kind
  <2>2. FirstPeer \in Identity /\ "run" \in PhasesOf(Kind(c))
    BY <2>1, ThePhases DEF FirstPeer
  <2>3. Adds(c)
    BY <1>0, <1>6, <2>1 DEF EnsureNetwork, Adds
  <2>4. cmd' = [cmd EXCEPT ![c].identity = FirstPeer, ![c].phase = "run"]
    BY <1>6 DEF EnsureNetwork
  <2>5. Becoming(c, Rec("run", cmd[c].opt, FirstPeer, cmd[c].inst, cmd[c].todo, cmd[c].returned,
                        cmd[c].saw))
    BY <1>1, <2>4, PeerRec
  <2> QED BY <2>1, <2>2, <2>3, <2>5, FieldsKeep
<1>7. CASE RunContainer(c)
  <2> DEFINE new == [inst |-> cmd[c].inst, identity |-> cmd[c].identity,
                     net  |-> IF cmd[c].opt.kind = "smoke" THEN cmd[c].inst ELSE Host,
                     by   |-> c]
  <2>1. Kind(c) \in {"start", "smoke"} /\ cmd[c].identity \in Identity /\ cmd[c].inst \in Command
    BY <1>1, <1>7, KindOfPhase DEF RunContainer, Sound, Kind
  <2>2. SoundBridge(new)
    BY <2>1 DEF SoundBridge
  <2>3. containers' \subseteq containers \cup {new} /\ networks' = networks /\ Goto(c, "wait")
    BY <1>7 DEF RunContainer
  <2> HIDE DEF new
  <2>4. Adds(c) /\ "wait" \in PhasesOf(Kind(c))
    BY <1>0, <2>1, <2>2, <2>3, ThePhases DEF Adds
  <2> QED BY <2>1, <2>3, <2>4, GotoKeeps
<1>8. CASE Ready(c)
  <2> DEFINE rt   == cmd[c].returned \cup {<<cmd[c].inst, cmd[c].identity>>}
             rest == {p \in Identity : <<cmd[c].inst, p>> \notin rt}
             ph   == IF cmd[c].opt.kind = "start" THEN "done"
                     ELSE IF rest = {} THEN "verify" ELSE "run"
             id   == IF cmd[c].opt.kind = "start" \/ rest = {} THEN cmd[c].identity
                     ELSE CHOOSE p \in rest : TRUE
  <2>1. cmd' = [cmd EXCEPT ![c].returned = rt, ![c].phase = ph, ![c].identity = id]
    <3>1. [[cmd[c] EXCEPT !.returned = rt] EXCEPT !.phase = ph].identity = cmd[c].identity
      BY <1>1 DEF Shaped, Whole, Rec
    <3> QED BY <1>1, <1>8, <3>1 DEF Ready, Shaped
  <2>2. Kind(c) \in {"start", "smoke"} /\ cmd[c].identity \in Identity /\ Adds(c)
    BY <1>8, <1>a, KindOfPhase DEF Ready
  <2>3. /\ id \in Identity
        /\ Kind(c) = "start" => ph = "done"
        /\ Kind(c) = "smoke" => ph \in {"verify", "run"}
    BY <2>2 DEF Kind
  <2> HIDE DEF rt, rest, ph, id
  <2>4. Becoming(c, Rec(ph, cmd[c].opt, id, cmd[c].inst, cmd[c].todo, rt, cmd[c].saw))
    BY <1>1, <2>1, ReturnRec
  <2>5. ph \in PhasesOf(Kind(c)) /\ ph # "windows"
    BY <2>2, <2>3, ThePhases DEF Ended
  <2> QED BY <2>2, <2>3, <2>4, <2>5, FieldsKeep
<1>9. CASE NeverReady(c) \/ Verified(c)
  <2>1. AfterRaise(c) /\ ~In(c, "idle") /\ Adds(c)
    BY <1>9, <1>a DEF NeverReady, Verified, In
  <2> QED BY <2>1, RaisedKeeps
<1>10. CASE ListToStop(c)
  <2> DEFINE found == {x \in containers : cmd[c].identity \in {None, x.identity}}
             td == {NameOf(x) : x \in found}
  <2>1. cmd' = [cmd EXCEPT ![c].saw = found, ![c].todo = td, ![c].phase = "cleanup"]
    BY <1>10 DEF ListToStop
  <2>2. Kind(c) = "stop" /\ Adds(c)
    BY <1>10, <1>a DEF ListToStop, Kind
  <2> HIDE DEF found, td
  <2>3. Becoming(c, Rec("cleanup", cmd[c].opt, cmd[c].identity, cmd[c].inst, td, cmd[c].returned,
                        found))
    BY <1>1, <2>1, ListRec
  <2>4. "cleanup" \in PhasesOf(Kind(c))
    BY <2>2, ThePhases
  <2> QED BY <2>2, <2>3, <2>4, FieldsKeep
<1>11. CASE Cleanup(c)
  <2>1. PICK name \in cmd[c].todo :
          /\ containers' = Stop(name)
          /\ cmd' = [cmd EXCEPT ![c].todo = @ \ {name}]
    BY <1>11 DEF Cleanup
  <2>2. Becoming(c,
                 Rec(cmd[c].phase, cmd[c].opt, cmd[c].identity, cmd[c].inst, cmd[c].todo \ {name},
                        cmd[c].returned, cmd[c].saw))
    BY <1>1, <2>1, TodoRec
  <2>3. cmd[c].phase = "cleanup" /\ cmd[c].phase \in PhasesOf(Kind(c)) /\ Kind(c) # "rig stop"
    BY <1>11, KindOfPhase DEF Cleanup, In
  <2>4. Adds(c)
    BY <1>11, <1>a, <1>b, <2>1 DEF Cleanup
  <2> QED BY <2>2, <2>3, <2>4, FieldsKeep
<1>12. CASE Cleaned(c)
  <2> DEFINE ph == IF cmd[c].opt.kind = "smoke" /\ ~cmd[c].opt.keep THEN "remove" ELSE "done"
  <2>1. Goto(c, ph) /\ Adds(c)
    BY <1>12, <1>a DEF Cleaned
  <2>2. ph = "done" \/ (ph = "remove" /\ Kind(c) = "smoke")
    BY DEF Kind
  <2> HIDE DEF ph
  <2>3. ph \in PhasesOf(Kind(c)) /\ ph \notin {"windows", "apps", "coms", "run", "wait"}
    BY <2>2, ThePhases DEF PhasesOf, Ended
  <2> QED BY <2>1, <2>3, GotoKeeps
<1>13. CASE RemoveNetwork(c)
  <2>1. Goto(c, "done") /\ Adds(c)
    BY <1>13, <1>a DEF RemoveNetwork
  <2>2. "done" \in PhasesOf(Kind(c))
    BY DEF PhasesOf, Ended
  <2> QED BY <2>1, <2>2, GotoKeeps
<1> QED
  BY <1>2, <1>3, <1>4, <1>5, <1>6, <1>7, <1>8, <1>9, <1>10, <1>11, <1>12, <1>13 DEF Step
------------------------------------------------------------------------------
\* The steps of the consoles themselves.

\* A console's first steps: what bears its name, or what it is asked to stop.
LEMMA LooksKeep ==
    ASSUME ConsoleInv, NEW c \in Command,
           \/ LookForScenario(c) \/ LookForRig(c) \/ RigGuard(c) \/ RigNetwork(c)
           \/ FindScenario(c) \/ FindRig(c)
    PROVE  ConsoleInv'
<1>1. Shaped /\ Sound(cmd[c]) /\ WholeOption(cmd[c].opt)
  BY DEF ConsoleInv, Shaped, Whole
<1>a. ASSUME UNCHANGED <<containers, networks, consoleVars>> PROVE Adds(c)
  BY <1>a DEF Adds, consoleVars
<1>2. CASE LookForScenario(c)
  <2>1. Kind(c) = "scenario" /\ Adds(c)
    BY <1>2, <1>a DEF LookForScenario
  <2>2. {"record", "apps", "refused"} \subseteq PhasesOf(Kind(c)) /\ Opens(c)
    BY <2>1, ThePhases DEF Ended, Opens
  <2>3. CASE Goto(c, "record") \/ Goto(c, "refused")
    BY <2>1, <2>2, <2>3, GotoKeeps
  <2>4. CASE cmd' = [cmd EXCEPT ![c].phase = "apps", ![c].todo = Peers(c), ![c].inst = None]
    <3>1. Becoming(c, Rec("apps", cmd[c].opt, cmd[c].identity, None, Peers(c), cmd[c].returned,
                          cmd[c].saw))
      BY <1>1, <2>4, PhaseTodoInstRec
    <3> QED BY <2>1, <2>2, <3>1, FieldsKeep
  <2> QED BY <1>2, <2>3, <2>4 DEF LookForScenario
<1>3. CASE LookForRig(c)
  <2>1. Kind(c) = "rig" /\ Adds(c) /\ (Goto(c, "done") \/ Goto(c, "guard"))
    BY <1>3, <1>a DEF LookForRig
  <2>2. {"done", "guard"} \subseteq PhasesOf(Kind(c))
    BY <2>1, ThePhases DEF Ended
  <2> QED BY <2>1, <2>2, GotoKeeps
<1>4. CASE RigGuard(c)
  <2> DEFINE sw == IF cmd[c].opt.skip THEN {} ELSE SmokeContainers(cmd[c].opt.target)
             ph == IF ~cmd[c].opt.skip /\ OnTargetNetworks(c) # {} THEN "refused" ELSE "network"
  <2>1. cmd' = [cmd EXCEPT ![c].saw = sw, ![c].phase = ph]
    BY <1>4 DEF RigGuard, Guard
  <2>2. ph \in {"refused", "network"} /\ Kind(c) = "rig" /\ Adds(c)
    BY <1>4, <1>a, KindOfPhase DEF RigGuard, Guard, OfRig
  <2> HIDE DEF sw, ph
  <2>3. Becoming(c, Rec(ph, cmd[c].opt, cmd[c].identity, cmd[c].inst, cmd[c].todo, cmd[c].returned,
                        sw))
    BY <1>1, <2>1, SawPhaseRec
  <2>4. ph \in PhasesOf(Kind(c))
    BY <2>2, ThePhases DEF Ended
  <2> QED BY <2>2, <2>3, <2>4, FieldsKeep
<1>5. CASE RigNetwork(c)
  <2>1. Kind(c) = "rig" /\ Goto(c, "record")
    BY <1>5, KindOfPhase DEF RigNetwork, OfRig
  <2>2. Adds(c)
    BY <1>5 DEF RigNetwork, Adds, consoleVars
  <2>3. "record" \in PhasesOf(Kind(c))
    BY <2>1, ThePhases
  <2> QED BY <2>1, <2>2, <2>3, GotoKeeps
<1>6. CASE FindScenario(c)
  <2>1. Kind(c) = "scenario stop" /\ cmd[c].inst = None /\ Adds(c)
    BY <1>1, <1>6, <1>a DEF FindScenario, Sound, Kind
  <2>2. "refused" \in PhasesOf(Kind(c)) /\ "apps" \in PhasesOf(Kind(c))
    BY <2>1, ThePhases DEF Ended
  <2>3. CASE Goto(c, "refused")
    BY <2>1, <2>2, <2>3, GotoKeeps
  <2>4. ASSUME NEW name,
               cmd' = [cmd EXCEPT ![c].opt.target = name[1], ![c].opt.identity = name[2],
                                  ![c].todo = {name[2]}, ![c].phase = "apps"]
        PROVE  ConsoleInv'
    <3>0. PICK q : q = cmd[c].opt
      OBVIOUS
    <3> DEFINE o1 == [q EXCEPT !.target = name[1]]
               o  == [o1 EXCEPT !.identity = name[2]]
    <3>1. PICK r : r = Rec("apps", o, cmd[c].identity, cmd[c].inst, {name[2]},
                           cmd[c].returned, cmd[c].saw)
      OBVIOUS
    <3>2. Becoming(c, r)
      BY <1>1, <2>4, <3>0, <3>1, FoundScenarioRec
    <3>3. WholeOption(o) /\ o.kind = "scenario stop"
      <4>1. WholeOption(o1) /\ o1.kind = "scenario stop"
        <5>1. WholeOption(q) /\ q.kind = "scenario stop"
          BY <1>1, <2>1, <3>0 DEF Kind
        <5> QED BY <5>1, OptionTarget
      <4> HIDE DEF o1
      <4> QED BY <4>1, OptionPeer
    <3> HIDE DEF o
    <3>4. Whole(r) /\ r.opt = o /\ r.inst = None /\ r.phase = "apps"
      BY <2>1, <3>1, <3>3 DEF Whole, Rec
    <3>5. Sound(r)
      BY <2>1, <2>2, <3>3, <3>4 DEF Sound, AnyKind
    <3>6. ~Opens(c) /\ r.opt.kind # "rig stop" /\ r.phase # "windows"
      BY <2>1, <3>3, <3>4 DEF Opens
    <3> QED BY <2>1, <3>2, <3>4, <3>5, <3>6, StepKeeps
  <2> QED BY <1>6, <2>3, <2>4 DEF FindScenario
<1>7. CASE FindRig(c)
  <2>1. Kind(c) = "rig stop" /\ Adds(c)
    BY <1>7, <1>a DEF FindRig
  <2>2. "refused" \in PhasesOf(Kind(c)) /\ "apps" \in PhasesOf(Kind(c))
    BY <2>1, ThePhases DEF Ended
  <2>3. CASE Goto(c, "refused")
    BY <2>1, <2>2, <2>3, GotoKeeps
  <2>4. ASSUME NEW inst, NEW target,
               inst # None => Opens(inst) /\ Console(inst) = <<"rig", target>>,
               cmd' = [cmd EXCEPT ![c].inst = inst, ![c].opt.target = target, ![c].todo = Identity,
                                  ![c].returned = Bridges(inst), ![c].phase = "apps"]
        PROVE  ConsoleInv'
    <3>0. PICK q : q = cmd[c].opt
      OBVIOUS
    <3> DEFINE o == [q EXCEPT !.target = target]
    <3>1. PICK r : r = Rec("apps", o, cmd[c].identity, inst, Identity, Bridges(inst), cmd[c].saw)
      OBVIOUS
    <3>2. Becoming(c, r)
      BY <1>1, <2>4, <3>0, <3>1, FoundRigRec
    <3>3. WholeOption(o) /\ o.kind = "rig stop" /\ o.target = target
      <4>1. WholeOption(q) /\ q.kind = "rig stop"
        BY <1>1, <2>1, <3>0 DEF Kind
      <4> QED BY <4>1, OptionTarget
    <3> HIDE DEF o
    <3>4. Whole(r) /\ r.opt = o /\ r.inst = inst /\ r.phase = "apps" /\ r.returned = Bridges(inst)
      BY <3>1, <3>3 DEF Whole, Rec
    <3>5. Sound(r)
      BY <2>1, <2>2, <3>3, <3>4 DEF Sound, AnyKind, Bridges
    <3>6. ~Opens(c) /\ r.phase # "windows"
      BY <2>1, <3>4 DEF Opens
    <3>7. r.inst # None => Opens(r.inst) /\ Console(r.inst) = <<"rig", r.opt.target>>
      BY <2>4, <3>3, <3>4
    <3> QED BY <2>1, <3>2, <3>4, <3>5, <3>6, <3>7, StepKeeps
  <2>5. ASSUME NEW s \in ActiveRigs(c)
        PROVE  Opens(s.tag) /\ Console(s.tag) = <<"rig", s.name[2]>>
    <3>1. s \in tmux /\ s.tag # None /\ s.name[1] = "rig"
      BY <2>5 DEF ActiveRigs
    <3>2. Opens(s.tag) /\ s.name = Console(s.tag)
      BY <3>1 DEF ConsoleInv, TagsAreTrue
    <3>3. \E a, b : s.name = <<a, b>>
      BY <3>2 DEF Console
    <3> QED BY <3>1, <3>2, <3>3
  <2>6. ASSUME NEW s \in ActiveRigs(c),
               cmd' = [cmd EXCEPT ![c].inst = s.tag, ![c].opt.target = s.name[2],
                                  ![c].todo = Identity, ![c].returned = Bridges(s.tag),
                                  ![c].phase = "apps"]
        PROVE  ConsoleInv'
    BY <2>4, <2>5, <2>6
  <2>7. ASSUME cmd' = [cmd EXCEPT ![c].inst = None, ![c].opt.target = Target(c),
                                  ![c].todo = Identity, ![c].returned = Bridges(None),
                                  ![c].phase = "apps"]
        PROVE  ConsoleInv'
    BY <2>4, <2>7
  <2> QED BY <1>7, <2>3, <2>6, <2>7 DEF FindRig
<1> QED BY <1>2, <1>3, <1>4, <1>5, <1>6, <1>7

\* Taking a console down.
LEMMA TakingDownKeeps ==
    ASSUME ConsoleInv, NEW c \in Command,
           \/ StopApp(c) \/ ListComs(c) \/ StopCom(c) \/ KillSession(c)
           \/ RemoveNetworks(c) \/ MarkStopped(c)
    PROVE  ConsoleInv'
<1>1. Shaped /\ Sound(cmd[c])
  BY DEF ConsoleInv
<1>a. ASSUME containers' \subseteq containers, networks' \subseteq networks, panes' \subseteq panes,
             tmux' \subseteq tmux, runs' = runs
      PROVE  Adds(c)
  BY <1>a DEF Adds
<1>2. CASE StopApp(c)
  <2>1. PICK p \in cmd[c].todo : cmd' = [cmd EXCEPT ![c].todo = @ \ {p}]
    BY <1>2 DEF StopApp
  <2>2. Becoming(c, Rec(cmd[c].phase, cmd[c].opt, cmd[c].identity, cmd[c].inst, cmd[c].todo \ {p},
                        cmd[c].returned, cmd[c].saw))
    BY <1>1, <2>1, TodoRec
  <2>3. /\ cmd[c].phase = "apps" /\ cmd[c].phase \in PhasesOf(Kind(c)) /\ Kind(c) # "smoke"
        /\ Kind(c) = "rig stop" /\ cmd[c].inst # None =>
              cmd[c].returned \subseteq {cmd[c].inst} \X Identity
    BY <1>1, <1>2, KindOfPhase DEF StopApp, In, Sound, Kind
  <2>4. Adds(c)
    BY <1>2, <1>a DEF StopApp
  <2> QED BY <2>2, <2>3, <2>4, FieldsKeep
<1>3. CASE ListComs(c)
  <2> DEFINE names == IF OfRig(c) THEN cmd[c].returned ELSE ComNames(None, Peers(c))
             sw == {x \in containers : NameOf(x) \in names}
  <2>1. cmd' = [cmd EXCEPT ![c].phase = "coms", ![c].todo = names, ![c].saw = sw]
    BY <1>3 DEF ListComs
  <2>2. /\ Kind(c) \in {"scenario", "scenario stop", "rig stop"}
        /\ Kind(c) = "rig stop" /\ cmd[c].inst # None => names \subseteq {cmd[c].inst} \X Identity
    BY <1>1, <1>3, KindOfPhase DEF ListComs, In, Sound, Kind, OfRig
  <2> HIDE DEF names, sw
  <2>3. Becoming(c, Rec("coms", cmd[c].opt, cmd[c].identity, cmd[c].inst, names, cmd[c].returned,
                        sw))
    BY <1>1, <2>1, PhaseTodoSawRec
  <2>4. "coms" \in PhasesOf(Kind(c))
    BY <2>2, ThePhases
  <2>5. Adds(c)
    BY <1>3, <1>a DEF ListComs, consoleVars
  <2> QED BY <2>2, <2>3, <2>4, <2>5, FieldsKeep
<1>4. CASE StopCom(c)
  <2>1. PICK name \in cmd[c].todo :
          containers' = Stop(name) /\ cmd' = [cmd EXCEPT ![c].todo = @ \ {name}]
    BY <1>4 DEF StopCom
  <2>2. Becoming(c,
                 Rec(cmd[c].phase, cmd[c].opt, cmd[c].identity, cmd[c].inst, cmd[c].todo \ {name},
                        cmd[c].returned, cmd[c].saw))
    BY <1>1, <2>1, TodoRec
  <2>3. /\ cmd[c].phase = "coms" /\ cmd[c].phase \in PhasesOf(Kind(c)) /\ Kind(c) # "smoke"
        /\ Kind(c) = "rig stop" /\ cmd[c].inst # None =>
              cmd[c].todo \subseteq {cmd[c].inst} \X Identity
    BY <1>1, <1>4, KindOfPhase DEF StopCom, In, Sound, Kind
  <2>4. Adds(c)
    BY <1>4, <1>a, <2>1 DEF StopCom, Stop, consoleVars
  <2> QED BY <2>2, <2>3, <2>4, FieldsKeep
<1>5. CASE KillSession(c)
  <2>1. Adds(c)
    BY <1>5, <1>a DEF KillSession
  <2>2. Kind(c) \in {"scenario", "scenario stop", "rig stop"}
    BY <1>5, KindOfPhase DEF KillSession
  <2>3. CASE Kind(c) = "scenario"
    <3>1. cmd' = [cmd EXCEPT ![c].phase = "record", ![c].inst = c]
      BY <1>5, <2>3 DEF KillSession
    <3>2. Becoming(c, Rec("record", cmd[c].opt, cmd[c].identity, c, cmd[c].todo, cmd[c].returned,
                          cmd[c].saw))
      BY <1>1, <3>1, PhaseInstRec
    <3>3. "record" \in PhasesOf(Kind(c)) /\ Opens(c)
      BY <2>3, ThePhases DEF Opens
    <3> QED BY <2>1, <2>3, <3>2, <3>3, FieldsKeep
  <2>4. CASE Kind(c) # "scenario"
    <3>1. Goto(c, IF OfRig(c) THEN "unnet" ELSE "mark")
      BY <1>5, <2>4 DEF KillSession
    <3>2. (IF OfRig(c) THEN "unnet" ELSE "mark") \in PhasesOf(Kind(c)) \ {"windows", "apps",
                                                                          "coms", "run", "wait"}
      BY <2>2, <2>4, ThePhases DEF OfRig
    <3> QED BY <2>1, <3>1, <3>2, GotoKeeps
  <2> QED BY <2>3, <2>4
<1>6. CASE RemoveNetworks(c)
  <2>1. Adds(c)
    BY <1>6, <1>a DEF RemoveNetworks, consoleVars
  <2>2. Goto(c, "mark") /\ "mark" \in PhasesOf(Kind(c))
    BY <1>6, KindOfPhase, ThePhases DEF RemoveNetworks
  <2> QED BY <2>1, <2>2, GotoKeeps
<1>7. CASE MarkStopped(c)
  <2>1. Goto(c, "done") /\ "done" \in PhasesOf(Kind(c))
    BY <1>7 DEF MarkStopped, PhasesOf, Ended
  <2>2. ASSUME NEW r \in runs, NEW q, q = [r EXCEPT !.stopped = TRUE]
        PROVE  WholeRun(q) /\ q.inst = r.inst /\ q.console = r.console
    <3>1. r = [inst |-> r.inst, console |-> r.console, stopped |-> r.stopped]
      BY DEF ConsoleInv, RunsAreTrue, WholeRun
    <3>2. q = [inst |-> r.inst, console |-> r.console, stopped |-> TRUE]
      BY <2>2, <3>1
    <3> QED BY <3>2 DEF WholeRun
  <2>3. \A q \in runs' : q \in runs \/ \E r \in runs : q = [r EXCEPT !.stopped = TRUE]
    BY <1>7 DEF MarkStopped, Latest
  <2>4. Adds(c)
    <3>1. \A q \in runs' : \/ q \in runs
                           \/ WholeRun(q) /\ \E r \in runs : q.inst = r.inst /\ q.console = r.console
      BY <2>2, <2>3
    <3> QED BY <1>7, <3>1 DEF MarkStopped, Adds
  <2> QED BY <2>1, <2>4, GotoKeeps
<1> QED BY <1>2, <1>3, <1>4, <1>5, <1>6, <1>7

\* The panes a console opens.
LEMMA ThePanes ==
    ASSUME ConsoleInv, NEW c \in Command, Opens(c)
    PROVE  /\ OfRig(c) => SoundPane(RigPane(c)) /\ \A p \in RigWindows(c) : SoundPane(p)
           /\ ~OfRig(c) => SoundPane(ScenarioPane(c)) /\ \A p \in ScenarioWindows(c) : SoundPane(p)
<1>1. /\ \A q : (\E p, at : q = Pane(c, p, TRUE, at)) => SoundPane(q)
      /\ \A q : (\E p \in Identity : \E at : q = Pane(c, p, FALSE, at)) => SoundPane(q)
  BY DEF SoundPane, WholePane, Pane
<1>2. FirstPeer \in Identity
  BY DEF FirstPeer
<1>3. ~OfRig(c) => cmd[c].opt.identity \in Identity
  BY DEF ConsoleInv, Sound, Opens, Kind, OfRig
<1>4. SoundPane(RigPane(c)) /\ \A p \in RigWindows(c) : SoundPane(p)
  <2>1. SoundPane(RigPane(c))
    BY <1>1, <1>2 DEF RigPane
  <2>2. \A q \in RigWindows(c) : \/ \E p \in Identity : q = Pane(c, p, FALSE, "spec")
                                 \/ \E p : q = Pane(c, p, TRUE, "spec")
    BY DEF RigWindows
  <2> QED BY <1>1, <2>1, <2>2
<1>5. ~OfRig(c) => SoundPane(ScenarioPane(c)) /\ \A p \in ScenarioWindows(c) : SoundPane(p)
  <2>1. ~OfRig(c) => SoundPane(ScenarioPane(c))
    BY <1>1, <1>3 DEF ScenarioPane
  <2>2. \A q \in ScenarioWindows(c) : \E p : q = Pane(c, p, TRUE, "run")
    BY DEF ScenarioWindows
  <2> QED BY <1>1, <2>1, <2>2
<1> QED BY <1>4, <1>5

\* Opening a console.
LEMMA OpeningKeeps ==
    ASSUME ConsoleInv, NEW c \in Command,
           \/ RecordRun(c) \/ OpenSession(c) \/ TagSession(c) \/ NewWindow(c) \/ NoSession(c)
           \/ Opened(c) \/ ScenarioReady(c)
    PROVE  ConsoleInv'
<1>1. Shaped /\ Sound(cmd[c])
  BY DEF ConsoleInv
<1>a. ASSUME UNCHANGED <<containers, networks, consoleVars>> PROVE Adds(c)
  BY <1>a DEF Adds, consoleVars
<1>b. Opens(c) => Kind(c) # "rig stop" /\ Kind(c) # "smoke"
  BY DEF Opens
<1>c. "done" \in PhasesOf(Kind(c)) /\ "failed" \in PhasesOf(Kind(c))
  BY DEF PhasesOf, Ended
<1>2. CASE RecordRun(c)
  <2>1. Opens(c) /\ Goto(c, "open")
    BY <1>2, KindOfPhase DEF RecordRun
  <2>2. "open" \in PhasesOf(Kind(c))
    BY <2>1, ThePhases DEF Opens
  <2>3. Adds(c)
    BY <1>2, <2>1 DEF RecordRun, Adds, WholeRun
  <2> QED BY <2>1, <2>2, <2>3, GotoKeeps
<1>3. CASE OpenSession(c)
  <2>1. Opens(c)
    BY <1>3, KindOfPhase DEF OpenSession
  <2>2. CASE Open(Console(c))
    <3>1. Goto(c, "failed") /\ Adds(c)
      BY <1>3, <1>a, <2>2 DEF OpenSession, consoleVars
    <3> QED BY <1>c, <3>1, GotoKeeps
  <2>3. CASE ~Open(Console(c))
    <3>1. /\ tmux' = tmux \cup {[name |-> Console(c), tag |-> None]}
          /\ panes' = panes \cup {IF OfRig(c) THEN RigPane(c) ELSE ScenarioPane(c)}
          /\ Goto(c, "tag")
          /\ UNCHANGED <<containers, networks, runs>>
      BY <1>3, <2>3 DEF OpenSession
    <3>2. "tag" \in PhasesOf(Kind(c))
      BY <2>1, ThePhases DEF Opens
    <3>3. SoundPane(IF OfRig(c) THEN RigPane(c) ELSE ScenarioPane(c))
      BY <2>1, ThePanes
    <3>4. Adds(c)
      BY <3>1, <3>3 DEF Adds, WholeSession
    <3> QED BY <3>1, <3>2, <3>4, GotoKeeps
  <2> QED BY <2>2, <2>3
<1>4. CASE TagSession(c)
  <2> DEFINE td == IF OfRig(c) THEN RigWindows(c) ELSE ScenarioWindows(c)
  <2>1. cmd' = [cmd EXCEPT ![c].phase = "windows", ![c].todo = td] /\ Opens(c)
    BY <1>4, KindOfPhase DEF TagSession
  <2>2. "windows" \in PhasesOf(Kind(c)) /\ \A p \in td : SoundPane(p)
    BY <2>1, ThePhases, ThePanes DEF Opens
  <2> HIDE DEF td
  <2>3. Becoming(c, Rec("windows", cmd[c].opt, cmd[c].identity, cmd[c].inst, td, cmd[c].returned,
                        cmd[c].saw))
    BY <1>1, <2>1, PhaseTodoRec
  <2>4. ASSUME NEW s \in tmux, NEW q, q = [s EXCEPT !.tag = c]
        PROVE  WholeSession(q) /\ q.name = s.name /\ q.tag = c
    <3>1. s = [name |-> s.name, tag |-> s.tag]
      BY DEF ConsoleInv, TagsAreTrue, WholeSession
    <3>2. q = [name |-> s.name, tag |-> c]
      BY <2>4, <3>1
    <3> QED BY <3>2 DEF WholeSession
  <2>5. \A q \in tmux' : q \in tmux \/ \E s \in tmux : s.name = Console(c) /\ q = [s EXCEPT !.tag = c]
    BY <1>4 DEF TagSession
  <2>6. \A q \in tmux' : q \in tmux \/ (WholeSession(q) /\ q.name = Console(c) /\ q.tag = c)
    BY <2>4, <2>5
  <2>7. Adds(c)
    BY <1>4, <2>1, <2>6 DEF TagSession, Adds
  <2> QED BY <1>b, <2>1, <2>2, <2>3, <2>7, FieldsKeep
<1>5. CASE NewWindow(c)
  <2>1. PICK p \in cmd[c].todo :
          panes' = panes \cup {p} /\ cmd' = [cmd EXCEPT ![c].todo = @ \ {p}]
    BY <1>5 DEF NewWindow
  <2>a. PICK td : td = cmd[c].todo \ {p}
    OBVIOUS
  <2>2. Becoming(c, Rec(cmd[c].phase, cmd[c].opt, cmd[c].identity, cmd[c].inst, td,
                        cmd[c].returned, cmd[c].saw))
    BY <1>1, <2>1, <2>a, TodoRec
  <2>3. cmd[c].phase = "windows" /\ cmd[c].phase \in PhasesOf(Kind(c)) /\ Opens(c)
    BY <1>5, KindOfPhase DEF NewWindow, In
  <2>4. SoundPane(p) /\ \A q \in td : SoundPane(q)
    BY <1>5, <2>a DEF NewWindow, ConsoleInv, Windows
  <2>5. Adds(c)
    <3>1. \A q \in panes' : q \in panes \/ SoundPane(q)
      BY <2>1, <2>4
    <3>2. UNCHANGED <<containers, networks, tmux, runs>>
      BY <1>5 DEF NewWindow
    <3> QED BY <3>1, <3>2 DEF Adds
  <2> QED BY <1>b, <2>2, <2>3, <2>4, <2>5, FieldsKeep
<1>6. CASE NoSession(c)
  <2>1. Goto(c, "failed") /\ Adds(c)
    BY <1>6, <1>a DEF NoSession
  <2> QED BY <1>c, <2>1, GotoKeeps
<1>7. CASE Opened(c)
  <2>1. Goto(c, IF OfRig(c) THEN "done" ELSE "ready") /\ Adds(c) /\ Opens(c)
    BY <1>7, <1>a, KindOfPhase DEF Opened
  <2>2. (IF OfRig(c) THEN "done" ELSE "ready") \in PhasesOf(Kind(c)) \ {"windows", "apps", "coms",
                                                                        "run", "wait"}
    BY <1>c, <2>1, ThePhases DEF Opens, OfRig
  <2> QED BY <2>1, <2>2, GotoKeeps
<1>8. CASE ScenarioReady(c)
  <2>1. (Goto(c, "done") \/ Goto(c, "failed")) /\ Adds(c)
    BY <1>8, <1>a DEF ScenarioReady
  <2> QED BY <1>c, <2>1, GotoKeeps
<1> QED BY <1>2, <1>3, <1>4, <1>5, <1>6, <1>7, <1>8


\* A command that fails or is killed.
LEMMA TroubleKeeps ==
    ASSUME ConsoleInv, NEW c \in Command, Trouble(c) \/ (RunRefused(c) /\ UNCHANGED consoleVars)
    PROVE  ConsoleInv'
<1>1. Adds(c)
  BY DEF Trouble, Raise, Kill, RunRefused, Adds, consoleVars
<1>2. CASE Kill(c)
  <2>1. Goto(c, "killed") /\ "killed" \in PhasesOf(Kind(c))
    BY <1>2 DEF Kill, PhasesOf, Ended
  <2> QED BY <1>1, <2>1, GotoKeeps
<1>3. CASE Raise(c) \/ RunRefused(c)
  <2>1. AfterRaise(c) /\ ~In(c, "idle")
    BY <1>3 DEF Raise, RunRefused, Running, NetworkGone, In
  <2> QED BY <1>1, <2>1, RaisedKeeps
<1> QED BY <1>2, <1>3 DEF Trouble

\* A command is issued.
LEMMA IssueKeeps ==
    ASSUME ConsoleInv, NEW c \in Command, NEW o \in Options[c], Issue(c, o), UNCHANGED consoleVars
    PROVE  ConsoleInv'
<1>1. PICK inst : /\ o.join => \E d \in Command : Kind(d) = "start" /\ inst = cmd[d].inst
                  /\ ~o.join => inst = c
                  /\ cmd' = [cmd EXCEPT ![c] =
                        [phase |-> IF o.kind = "smoke" THEN "guard" ELSE "list", opt |-> o,
                         identity |-> o.identity, inst |-> inst,
                         todo |-> {}, returned |-> {}, saw |-> {}]]
  BY DEF Issue, Kind
<1>2. PICK ph : ph = IF o.kind = "smoke" THEN "guard" ELSE "list"
  OBVIOUS
<1>3. PICK r : r = Rec(ph, o, o.identity, inst, {}, {}, {})
  OBVIOUS
<1>4. Becoming(c, r)
  BY <1>1, <1>2, <1>3, Replaced DEF ConsoleInv, Rec
<1>5. o \in Option /\ (o.kind = "start" => o.identity # None) /\ (o.join => o.kind = "start")
  BY DEF WorkspaceAssumption
<1>6. WholeOption(o) /\ o.kind \in {"start", "stop", "smoke"} /\ o.identity \in Identity \cup {None}
      /\ o.join \in BOOLEAN
  BY <1>5 DEF Option, WholeOption
<1>7. Whole(r) /\ r.phase = ph /\ r.opt = o /\ r.identity = o.identity /\ r.inst = inst /\ r.todo = {}
  BY <1>3, <1>6 DEF Whole, Rec
<1>8. inst \in Command
  BY <1>1, <1>6 DEF ConsoleInv, Sound, Kind
<1>9. ph \in PhasesOf(o.kind)
  BY <1>2, <1>6, ThePhases
<1>10. Sound(r)
  BY <1>2, <1>5, <1>6, <1>7, <1>8, <1>9 DEF Sound, AnyKind
<1>11. ~Opens(c) /\ r.opt.kind # "rig stop" /\ r.phase # "windows"
  BY <1>2, <1>6, <1>7, KindOfPhase DEF Issue, Opens
<1>12. Adds(c)
  BY DEF Issue, Adds, consoleVars
<1> QED BY <1>4, <1>7, <1>10, <1>11, <1>12, StepKeeps

LEMMA IssueConsoleKeeps ==
    ASSUME ConsoleInv, NEW c \in Command, NEW o \in ConsoleOptions[c], IssueConsole(c, o)
    PROVE  ConsoleInv'
<1>1. PICK inst : inst = IF o.kind \in {"scenario", "rig"} THEN c ELSE None
  OBVIOUS
<1>2. PICK r : r = Rec("look", o, o.identity, inst, {}, {}, {})
  OBVIOUS
<1>3. Becoming(c, r)
  <2>1. [NotIssued EXCEPT !.phase = "look", !.opt = o, !.identity = o.identity, !.inst = inst] = r
    <3>1. PICK n : n = NotIssued
      OBVIOUS
    <3>2. n = Rec("idle", NoOption, None, None, {}, {}, {})
      BY <3>1 DEF NotIssued, Rec
    <3>3. PICK n1 : n1 = [n EXCEPT !.phase = "look", !.opt = o]
      OBVIOUS
    <3>4. n1 = Rec("look", o, None, None, {}, {}, {})
      BY <3>2, <3>3 DEF Rec
    <3>5. [n1 EXCEPT !.identity = o.identity, !.inst = inst] = r
      <4>1. PICK n2 : n2 = [n1 EXCEPT !.identity = o.identity]
        OBVIOUS
      <4>2. n2 = Rec("look", o, o.identity, None, {}, {}, {})
        BY <3>4, <4>1 DEF Rec
      <4>3. PICK n3 : n3 = [n2 EXCEPT !.inst = inst]
        OBVIOUS
      <4>4. n3 = Rec("look", o, o.identity, inst, {}, {}, {})
        BY <4>2, <4>3 DEF Rec
      <4> QED BY <1>2, <4>1, <4>3, <4>4
    <3> QED BY <3>1, <3>3, <3>5
  <2> QED BY <1>1, <2>1, Replaced DEF ConsoleInv, IssueConsole
<1>4. o \in ConsoleOption /\ (o.kind = "scenario" => o.identity # None)
  BY DEF TmuxRunsAssumption
<1>5. WholeOption(o) /\ o.kind \in {"scenario", "scenario stop", "rig", "rig stop"}
      /\ o.identity \in Identity \cup {None}
  BY <1>4 DEF ConsoleOption, WholeOption
<1>6. Whole(r) /\ r.phase = "look" /\ r.opt = o /\ r.inst = inst
  BY <1>2, <1>5 DEF Whole, Rec
<1>7. "look" \in PhasesOf(o.kind)
  BY <1>5, ThePhases
<1>8. Sound(r)
  BY <1>1, <1>4, <1>5, <1>6, <1>7 DEF Sound, AnyKind
<1>9. ~Opens(c) /\ (r.opt.kind = "rig stop" => r.inst = None)
  BY <1>1, <1>6, KindOfPhase DEF IssueConsole, Opens
<1>10. Adds(c)
  BY DEF IssueConsole, Adds, consoleVars
<1> QED BY <1>3, <1>6, <1>8, <1>9, <1>10, StepKeeps

\* A pane's step touches no command, session or manifest.
LEMMA PanesKeep ==
    ASSUME ConsoleInv, NEW p \in panes, PaneStep(p)
    PROVE  ConsoleInv'
<1>1. UNCHANGED <<networks, cmd, tmux, runs>>
  BY DEF PaneStep
<1>2. SoundPane(p)
  BY DEF ConsoleInv
<1>3. ASSUME NEW at, NEW q, q = [p EXCEPT !.at = at] PROVE SoundPane(q)
  <2>1. q = [session |-> p.session, inst |-> p.inst, target |-> p.target,
             identity |-> p.identity, app |-> p.app, at |-> at, todo |-> p.todo]
    BY <1>2, <1>3 DEF SoundPane, WholePane
  <2> QED BY <1>2, <2>1 DEF SoundPane, WholePane
<1>4. ASSUME NEW td, NEW q, q = [p EXCEPT !.todo = td] PROVE SoundPane(q)
  <2>1. q = [session |-> p.session, inst |-> p.inst, target |-> p.target,
             identity |-> p.identity, app |-> p.app, at |-> p.at, todo |-> td]
    BY <1>2, <1>4 DEF SoundPane, WholePane
  <2> QED BY <1>2, <2>1 DEF SoundPane, WholePane
<1>5. ASSUME NEW at, NEW td, NEW q, q = [p EXCEPT !.at = at, !.todo = td] PROVE SoundPane(q)
  <2>1. q = [session |-> p.session, inst |-> p.inst, target |-> p.target,
             identity |-> p.identity, app |-> p.app, at |-> at, todo |-> td]
    BY <1>2, <1>5 DEF SoundPane, WholePane
  <2> QED BY <1>2, <2>1 DEF SoundPane, WholePane
<1>6. \A name : Stop(name) \subseteq containers
  BY DEF Stop
<1>7. /\ \A x \in containers' : x \in containers \/ SoundBridge(x)
      /\ \A q \in panes' : q \in panes \/ SoundPane(q)
  <2>1. CASE PaneList(p)
    <3>1. containers' = containers
      BY <2>1 DEF PaneList
    <3>2. \A q \in panes' : \/ q \in panes
                            \/ \E td : q = [p EXCEPT !.at = "run", !.todo = td]
      BY <2>1 DEF PaneList, Move
    <3> QED BY <1>5, <3>1, <3>2
  <2>2. CASE PaneStopConflict(p)
    <3>1. \A q \in panes' : q \in panes \/ \E td : q = [p EXCEPT !.todo = td]
      <4>1. PICK name \in p.todo : Move(p, [p EXCEPT !.todo = p.todo \ {name}])
        BY <2>2, <1>2 DEF PaneStopConflict
      <4> QED BY <4>1 DEF Move
    <3>2. containers' \subseteq containers
      BY <1>6, <2>2 DEF PaneStopConflict
    <3> QED BY <1>4, <3>1, <3>2
  <2>3. CASE PaneRun(p)
    <3> DEFINE rig == p.session[1] = "rig"
               new == [inst |-> p.inst, identity |-> p.identity,
                       net |-> IF rig THEN p.inst ELSE Host, by |-> p.inst]
    <3>1. SoundBridge(new)
      BY <1>2, <2>3 DEF PaneRun, SoundPane, SoundBridge
    <3>2. \/ containers' = containers /\ panes' = panes \ {p}
          \/ containers' = containers \cup {new} /\ Move(p, [p EXCEPT !.at = "up"])
      BY <2>3 DEF PaneRun
    <3> HIDE DEF new
    <3>3. \A q \in panes' : q \in panes \/ \E at : q = [p EXCEPT !.at = at]
      BY <3>2 DEF Move
    <3> QED BY <1>3, <3>1, <3>2, <3>3
  <2>4. CASE PaneWait(p) \/ PaneBridge(p) \/ PaneRunApp(p)
    <3>1. containers' = containers
      BY <2>4 DEF PaneWait, PaneBridge, PaneRunApp
    <3>2. \A q \in panes' : q \in panes \/ \E at : q = [p EXCEPT !.at = at]
      BY <2>4 DEF PaneWait, PaneBridge, PaneRunApp, Move
    <3> QED BY <1>3, <3>1, <3>2
  <2> QED BY <2>1, <2>2, <2>3, <2>4 DEF PaneStep
<1>8. Shaped' /\ (\A c \in Command : Sound(cmd'[c]))
  BY <1>1 DEF ConsoleInv, Shaped
<1>9. Windows' /\ FoundByTag'
  BY <1>1 DEF ConsoleInv, Windows, FoundByTag, In, Opens, Kind, Console, OfRig, Target
<1>10. TagsAreTrue' /\ RunsAreTrue'
  BY <1>1 DEF ConsoleInv, TagsAreTrue, RunsAreTrue, Opens, Kind, Console, OfRig, Target
<1> QED BY <1>1, <1>7, <1>8, <1>9, <1>10 DEF ConsoleInv

LEMMA ConsoleStepKeeps ==
    ASSUME ConsoleInv, NEW c \in Command, ConsoleStep(c)
    PROVE  ConsoleInv'
BY LooksKeep, TakingDownKeeps, OpeningKeeps DEF ConsoleStep

LEMMA ConsoleInvInductive == TmuxSpec => []ConsoleInv
<1>1. TmuxInit => ConsoleInv
  <2> SUFFICES ASSUME TmuxInit PROVE ConsoleInv
    OBVIOUS
  <2>1. \A c \in Command : cmd[c] = NotIssued
    BY DEF TmuxInit, Init
  <2>2. WholeOption(NoOption) /\ NoOption.kind = "stop"
    BY DEF WholeOption, NoOption
  <2>3. Whole(NotIssued) /\ NotIssued.opt = NoOption /\ NotIssued.phase = "idle"
    BY <2>2 DEF Whole, Rec, NotIssued
  <2>4. Sound(NotIssued)
    BY <2>2, <2>3, ThePhases DEF Sound, AnyKind
  <2>5. Shaped
    BY <2>1, <2>3 DEF TmuxInit, Init, Shaped
  <2>6. Windows /\ FoundByTag
    BY <2>1, <2>2, <2>3 DEF Windows, FoundByTag, In, Kind
  <2> QED BY <2>1, <2>4, <2>5, <2>6 DEF TmuxInit, Init, ConsoleInv, TagsAreTrue, RunsAreTrue
<1>2. ConsoleInv /\ [TmuxNext]_tmuxVars => ConsoleInv'
  <2> SUFFICES ASSUME ConsoleInv, [TmuxNext]_tmuxVars PROVE ConsoleInv'
    OBVIOUS
  <2>1. CASE UNCHANGED tmuxVars
    BY <2>1 DEF tmuxVars, vars, consoleVars, ConsoleInv, Shaped, Windows, TagsAreTrue, RunsAreTrue,
                FoundByTag, In, Opens, Kind, Console, OfRig, Target
  <2>2. ASSUME NEW c \in Command,
               \/ \E o \in Options[c] :
                     Met(c, o) /\ Issue(c, o) /\ alone' = {} /\ UNCHANGED consoleVars
               \/ \E o \in ConsoleOptions[c] : Met(c, o) /\ IssueConsole(c, o)
               \/ CommandStep(c) \/ Trouble(c)
        PROVE  ConsoleInv'
    <3>1. CASE \E o \in Options[c] : Issue(c, o) /\ UNCHANGED consoleVars
      BY <3>1, IssueKeeps
    <3>2. CASE \E o \in ConsoleOptions[c] : IssueConsole(c, o)
      BY <3>2, IssueConsoleKeeps
    <3>3. CASE CommandStep(c)
      BY <3>3, CommandsKeep, TroubleKeeps, ConsoleStepKeeps DEF CommandStep
    <3>4. CASE Trouble(c)
      BY <3>4, TroubleKeeps
    <3> QED BY <2>2, <3>1, <3>2, <3>3, <3>4
  <2>3. ASSUME NEW p \in panes, PaneStep(p) PROVE ConsoleInv'
    BY <2>3, PanesKeep
  <2> QED BY <2>1, <2>2, <2>3 DEF TmuxNext
<1> QED BY <1>1, <1>2, PTL DEF TmuxSpec

------------------------------------------------------------------------------
\* A command writes its own record alone.
LEMMA OthersStay ==
    ASSUME ConsoleInv, NEW c \in Command, NEW d \in Command, d # c,
           \/ \E o \in Options[c] : Issue(c, o)
           \/ \E o \in ConsoleOptions[c] : IssueConsole(c, o)
           \/ CommandStep(c) \/ Trouble(c)
    PROVE  cmd'[d] = cmd[d]
<1>1. Shaped
  BY DEF ConsoleInv
<1>2. \A ph : Goto(c, ph) => cmd'[d] = cmd[d]
  BY <1>1 DEF Shaped, Goto
<1>3. AfterRaise(c) => cmd'[d] = cmd[d]
  BY <1>1, <1>2 DEF Shaped, AfterRaise
<1>4. CASE (\E o \in Options[c] : Issue(c, o)) \/ \E o \in ConsoleOptions[c] : IssueConsole(c, o)
  BY <1>1, <1>4 DEF Shaped, Issue, IssueConsole
<1>5. CASE Trouble(c) \/ RunRefused(c)
  BY <1>2, <1>3, <1>5 DEF Trouble, Raise, Kill, RunRefused
<1>6. CASE Step(c)
  <2>1. CASE ListConflicts(c) \/ StopConflict(c) \/ Guard(c) \/ EnsureNetwork(c)
    BY <1>1, <2>1 DEF Shaped, ListConflicts, StopConflict, Guard, EnsureNetwork
  <2>2. CASE StopOwn(c) \/ RunContainer(c) \/ NeverReady(c) \/ Verified(c) \/ Cleaned(c) \/ RemoveNetwork(c)
    BY <1>2, <1>3, <2>2 DEF StopOwn, RunContainer, NeverReady, Verified, Cleaned, RemoveNetwork
  <2>3. CASE Ready(c) \/ ListToStop(c) \/ Cleanup(c)
    BY <1>1, <2>3 DEF Shaped, Ready, ListToStop, Cleanup
  <2> QED BY <1>6, <2>1, <2>2, <2>3 DEF Step
<1>7. CASE ConsoleStep(c)
  <2>1. CASE LookForScenario(c) \/ FindScenario(c) \/ FindRig(c)
    BY <1>1, <1>2, <2>1 DEF Shaped, LookForScenario, FindScenario, FindRig
  <2>2. CASE RigGuard(c) \/ StopApp(c) \/ ListComs(c) \/ StopCom(c)
    BY <1>1, <2>2 DEF Shaped, RigGuard, Guard, StopApp, ListComs, StopCom
  <2>3. CASE KillSession(c) \/ TagSession(c) \/ NewWindow(c)
    BY <1>1, <1>2, <2>3 DEF Shaped, KillSession, TagSession, NewWindow
  <2>4. CASE \/ LookForRig(c) \/ RigNetwork(c) \/ RemoveNetworks(c) \/ MarkStopped(c) \/ RecordRun(c)
             \/ OpenSession(c) \/ NoSession(c) \/ Opened(c) \/ ScenarioReady(c)
    BY <1>2, <2>4 DEF LookForRig, RigNetwork, RemoveNetworks, MarkStopped, RecordRun,
                      OpenSession, NoSession, Opened, ScenarioReady
  <2> QED BY <1>7, <2>1, <2>2, <2>3, <2>4 DEF ConsoleStep
<1> QED BY <1>4, <1>5, <1>6, <1>7 DEF CommandStep

\* What a rig's command may take down.
Apart(c) ==
    \A x \in (containers \ containers') \cup (apps \ apps') :
       \/ Kind(c) = "rig stop" /\ Matches(cmd[c].inst, x)
       \/ \E p \in panes \ panes' : NameOf(p) = NameOf(x)

LEMMA RigStepsStayApart ==
    ASSUME ConsoleInv, NEW c \in Command, OfRig(c), ConsoleStep(c)
    PROVE  Apart(c)
<1>1. CASE StopApp(c)
  <2>1. Kind(c) = "rig stop"
    BY <1>1, KindOfPhase DEF StopApp, OfRig
  <2>2. containers' = containers /\ \A x \in apps \ apps' : Matches(cmd[c].inst, x)
    BY <1>1 DEF StopApp
  <2> QED BY <2>1, <2>2 DEF Apart
<1>2. CASE StopCom(c)
  <2>1. Kind(c) = "rig stop" /\ cmd[c].phase = "coms"
    BY <1>2, KindOfPhase DEF StopCom, OfRig, In
  <2>2. PICK name \in cmd[c].todo : containers' = Stop(name) /\ apps' = apps
    BY <1>2 DEF StopCom, consoleVars
  <2>3. ASSUME NEW x \in containers \ containers' PROVE Matches(cmd[c].inst, x)
    <3>1. <<x.inst, x.identity>> \in cmd[c].todo
      BY <2>2, <2>3 DEF Stop, NameOf
    <3>2. cmd[c].inst # None => cmd[c].todo \subseteq {cmd[c].inst} \X Identity
      BY <2>1 DEF ConsoleInv, Sound, Kind
    <3> QED BY <3>1, <3>2 DEF Matches
  <2> QED BY <2>1, <2>2, <2>3 DEF Apart
<1>3. CASE KillSession(c)
  <2> DEFINE hung == {p \in panes : p.session = Console(c)}
  <2>1. PICK gone \in SUBSET {p \in hung : p.at = "up"} :
          /\ containers' = {x \in containers : \A p \in gone : p.app \/ NameOf(x) # NameOf(p)}
          /\ apps' = {x \in apps : \A p \in gone : p.app => NameOf(x) # NameOf(p)}
    BY <1>3 DEF KillSession
  <2>2. gone \subseteq panes \ panes'
    BY <1>3, <2>1 DEF KillSession
  <2> QED BY <2>1, <2>2 DEF Apart
<1>4. CASE \/ LookForScenario(c) \/ LookForRig(c) \/ RigGuard(c) \/ RigNetwork(c)
           \/ FindScenario(c) \/ FindRig(c) \/ ListComs(c) \/ RemoveNetworks(c) \/ MarkStopped(c)
           \/ RecordRun(c) \/ OpenSession(c) \/ TagSession(c) \/ NewWindow(c) \/ NoSession(c)
           \/ Opened(c) \/ ScenarioReady(c)
  <2>1. containers' = containers /\ apps' = apps
    BY <1>4 DEF LookForScenario, LookForRig, RigGuard, Guard, RigNetwork, FindScenario, FindRig,
                ListComs, RemoveNetworks, MarkStopped, RecordRun, OpenSession, TagSession,
                NewWindow, NoSession, Opened, ScenarioReady, consoleVars
  <2> QED BY <2>1 DEF Apart
<1> QED BY <1>1, <1>2, <1>3, <1>4 DEF ConsoleStep

\* "One run can never stop another run's containers by accident": to start a rig
\* stops nothing, and to stop one stops what the run it found has up, and what
\* is attached to the session it kills.
THEOREM RigsAreApart == TmuxSpec => RigsStayApart
<1>1. ConsoleInv /\ [TmuxNext]_tmuxVars =>
        [\A c \in Command : cmd'[c] # cmd[c] /\ OfRig(c) => Apart(c)]_tmuxVars
  <2> SUFFICES ASSUME ConsoleInv, TmuxNext, NEW c \in Command, cmd'[c] # cmd[c], OfRig(c)
               PROVE  Apart(c)
    OBVIOUS
  <2>1. ASSUME NEW p \in panes, PaneStep(p) PROVE FALSE
    BY <2>1 DEF PaneStep
  <2>2. ASSUME NEW d \in Command,
               \/ \E o \in Options[d] :
                     Met(d, o) /\ Issue(d, o) /\ alone' = {} /\ UNCHANGED consoleVars
               \/ \E o \in ConsoleOptions[d] : Met(d, o) /\ IssueConsole(d, o)
               \/ CommandStep(d) \/ Trouble(d)
        PROVE  Apart(c)
    <3>1. d = c
      BY <2>2, OthersStay
    <3>2. CASE (\E o \in Options[c] : Issue(c, o)) \/ \E o \in ConsoleOptions[c] : IssueConsole(c,
                                                                                                o)
      BY <3>2, KindOfPhase DEF Issue, IssueConsole, OfRig
    <3>3. CASE Trouble(c)
      BY <3>3 DEF Trouble, Raise, Kill, consoleVars, Apart
    <3>4. CASE CommandStep(c)
      BY <3>4, RigStepsStayApart DEF CommandStep, OfRig
    <3> QED BY <2>2, <3>1, <3>2, <3>3, <3>4
  <2> QED BY <2>1, <2>2 DEF TmuxNext
<1> QED BY <1>1, ConsoleInvInductive, PTL DEF TmuxSpec, RigsStayApart, Apart

------------------------------------------------------------------------------
\* How far a stop that has the workspace to itself has come: of the applications,
\* then of the bridges that are in its way, none is left but what it has still to
\* stop; then its session and panes are gone, then its network, then its run is
\* marked.
AppsLeft(c, peers) == {x \in apps : /\ x.target = Target(c) /\ x.identity \in peers
                                    /\ Matches(cmd[c].inst, x)}
ComsLeft(c) == {x \in containers : x.identity \in Peers(c) /\ Matches(cmd[c].inst, x)}

NoConsole(c) == ~Open(Console(c)) /\ \A p \in panes : p.session # Console(c)
NoNetwork(c) == \A n \in networks : /\ n.inst # cmd[c].inst
                                    /\ cmd[c].inst = None => n.target # Target(c)
Marked(c)    == \A r \in runs : r.inst = cmd[c].inst => r.stopped

StopInv(c) ==
    /\ IsStop(c)
    /\ In(c, "apps") => /\ AppsLeft(c, Peers(c) \ cmd[c].todo) = {}
                        /\ OfRig(c) => \A x \in ComsLeft(c) : NameOf(x) \in cmd[c].returned
    /\ cmd[c].phase \in {"coms", "unnet", "mark", "done"} => AppsLeft(c, Peers(c)) = {}
    /\ In(c, "coms") => \A x \in ComsLeft(c) : NameOf(x) \in cmd[c].todo
    /\ cmd[c].phase \in {"unnet", "mark", "done"} => ComsLeft(c) = {} /\ NoConsole(c)
    /\ cmd[c].phase \in {"mark", "done"} /\ OfRig(c) => NoNetwork(c)
    /\ In(c, "done") /\ OfRig(c) /\ cmd[c].inst # None => Marked(c)

AloneInv == alone \subseteq Command /\ \A c \in alone : StopInv(c)

LEMMA RecFields ==
    ASSUME NEW c \in Command, NEW ph, NEW op, NEW id, NEW inst, NEW td, NEW rt, NEW sw,
           Becoming(c, Rec(ph, op, id, inst, td, rt, sw))
    PROVE  /\ cmd'[c].phase = ph /\ cmd'[c].opt = op /\ cmd'[c].inst = inst
           /\ cmd'[c].todo = td /\ cmd'[c].returned = rt
BY DEF Becoming, Rec

\* A step that leaves the options of its command leaves what it is about.
LEMMA SameAim ==
    ASSUME NEW c \in Command, cmd'[c].opt = cmd[c].opt
    PROVE  /\ Kind(c)' = Kind(c) /\ Target(c)' = Target(c) /\ OfRig(c)' = OfRig(c)
           /\ IsStop(c)' = IsStop(c) /\ Peers(c)' = Peers(c) /\ Console(c)' = Console(c)
BY DEF Kind, Target, OfRig, IsStop, Peers, Console

LEMMA GotoFields ==
    ASSUME ConsoleInv, NEW c \in Command, NEW ph, Goto(c, ph)
    PROVE  /\ cmd'[c].phase = ph /\ cmd'[c].opt = cmd[c].opt /\ cmd'[c].inst = cmd[c].inst
           /\ cmd'[c].todo = cmd[c].todo /\ cmd'[c].returned = cmd[c].returned
BY GotoRec, RecFields DEF ConsoleInv

\* A stop that ends otherwise promises nothing.
LEMMA EndedStop ==
    ASSUME ConsoleInv, NEW c \in Command, IsStop(c),
           Goto(c, "failed") \/ Goto(c, "killed") \/ Goto(c, "refused")
    PROVE  StopInv(c)'
<1>1. cmd'[c].phase \in {"failed", "killed", "refused"} /\ IsStop(c)'
  BY GotoFields, SameAim
<1> QED BY <1>1 DEF StopInv, In

\* A stop finds what it takes down.
LEMMA FindsForStop ==
    ASSUME ConsoleInv, NEW c \in Command, StopInv(c), FindScenario(c) \/ FindRig(c)
    PROVE  StopInv(c)'
<1>1. Shaped /\ WholeOption(cmd[c].opt) /\ IsStop(c)
  BY DEF ConsoleInv, Shaped, Whole, StopInv
<1>2. CASE Goto(c, "refused")
  BY <1>1, <1>2, EndedStop
<1>3. ASSUME FindScenario(c), NEW name,
             cmd' = [cmd EXCEPT ![c].opt.target = name[1], ![c].opt.identity = name[2],
                                ![c].todo = {name[2]}, ![c].phase = "apps"]
      PROVE  StopInv(c)'
  <2>1. PICK q : q = cmd[c].opt
    OBVIOUS
  <2>2. PICK q1 : q1 = [q EXCEPT !.target = name[1]]
    OBVIOUS
  <2>3. PICK o : o = [q1 EXCEPT !.identity = name[2]]
    OBVIOUS
  <2>4. WholeOption(q) /\ q.kind = "scenario stop"
    BY <1>1, <1>3, <2>1 DEF FindScenario, Kind
  <2>5. WholeOption(q1) /\ q1.kind = "scenario stop"
    BY <2>2, <2>4, OptionTarget
  <2>6. o.kind = "scenario stop" /\ o.identity = name[2]
    BY <2>3, <2>5, OptionPeer
  <2>7. Becoming(c, Rec("apps", o, cmd[c].identity, cmd[c].inst, {name[2]}, cmd[c].returned,
                        cmd[c].saw))
    BY <1>1, <1>3, <2>1, <2>2, <2>3, FoundScenarioRec
  <2>8. cmd'[c].phase = "apps" /\ cmd'[c].opt = o /\ cmd'[c].todo = {name[2]}
    BY <2>7 DEF Becoming, Rec
  <2>9. IsStop(c)' /\ ~OfRig(c)' /\ Peers(c)' = {name[2]}
    BY <2>6, <2>8 DEF IsStop, OfRig, Kind, Peers
  <2> QED BY <2>8, <2>9 DEF StopInv, In, AppsLeft
<1>4. ASSUME FindRig(c), NEW inst, NEW target,
             cmd' = [cmd EXCEPT ![c].inst = inst, ![c].opt.target = target, ![c].todo = Identity,
                                ![c].returned = Bridges(inst), ![c].phase = "apps"]
      PROVE  StopInv(c)'
  <2>1. PICK q : q = cmd[c].opt
    OBVIOUS
  <2>2. PICK o : o = [q EXCEPT !.target = target]
    OBVIOUS
  <2>3. WholeOption(q) /\ q.kind = "rig stop"
    BY <1>1, <1>4, <2>1 DEF FindRig, Kind
  <2>4. o.kind = "rig stop"
    BY <2>2, <2>3, OptionTarget
  <2>5. Becoming(c, Rec("apps", o, cmd[c].identity, inst, Identity, Bridges(inst), cmd[c].saw))
    BY <1>1, <1>4, <2>1, <2>2, FoundRigRec
  <2>6. /\ cmd'[c].phase = "apps" /\ cmd'[c].opt = o /\ cmd'[c].inst = inst
        /\ cmd'[c].todo = Identity /\ cmd'[c].returned = Bridges(inst)
    BY <2>5, RecFields
  <2>7. IsStop(c)' /\ OfRig(c)' /\ Peers(c)' = Identity
    BY <2>4, <2>6 DEF IsStop, OfRig, Kind, Peers
  <2>8. ASSUME NEW x \in containers, x.identity \in Identity, Matches(inst, x)
        PROVE  NameOf(x) \in Bridges(inst)
    BY <2>8 DEF Bridges, ComNames, Matches, NameOf
  <2>9. containers' = containers
    BY <1>4 DEF FindRig
  <2>10. AppsLeft(c, Peers(c) \ cmd[c].todo)' = {}
    BY <2>6, <2>7 DEF AppsLeft
  <2>11. \A x \in ComsLeft(c)' : NameOf(x) \in cmd'[c].returned
    BY <2>6, <2>7, <2>8, <2>9 DEF ComsLeft, Matches
  <2> QED BY <2>6, <2>7, <2>10, <2>11 DEF StopInv, In, NameOf
<1>5. CASE FindScenario(c)
  BY <1>2, <1>3, <1>5 DEF FindScenario
<1>6. CASE FindRig(c)
  BY <1>2, <1>4, <1>6 DEF FindRig
<1> QED BY <1>5, <1>6

\* It takes down the applications and the bridges.
LEMMA StopsTheRest ==
    ASSUME ConsoleInv, NEW c \in Command, StopInv(c), StopApp(c) \/ ListComs(c) \/ StopCom(c)
    PROVE  StopInv(c)'
<1>1. Shaped
  BY DEF ConsoleInv
<1>2. CASE StopApp(c)
  <2>1. PICK p \in cmd[c].todo :
          /\ apps' = {x \in apps : ~(/\ x.target = Target(c) /\ x.identity = p
                                     /\ Matches(cmd[c].inst, x))}
          /\ cmd' = [cmd EXCEPT ![c].todo = @ \ {p}]
    BY <1>2 DEF StopApp
  <2>2. Becoming(c, Rec(cmd[c].phase, cmd[c].opt, cmd[c].identity, cmd[c].inst, cmd[c].todo \ {p},
                        cmd[c].returned, cmd[c].saw))
    BY <1>1, <2>1, TodoRec
  <2>3. /\ cmd'[c].phase = "apps" /\ cmd'[c].opt = cmd[c].opt /\ cmd'[c].inst = cmd[c].inst
        /\ cmd'[c].todo = cmd[c].todo \ {p} /\ cmd'[c].returned = cmd[c].returned
    BY <1>2, <2>2, RecFields DEF StopApp, In
  <2>4. In(c, "apps") /\ containers' = containers
    BY <1>2 DEF StopApp
  <2>5. AppsLeft(c, Peers(c) \ cmd[c].todo)' = {}
    BY <2>1, <2>3, <2>4, SameAim DEF StopInv, AppsLeft, Matches
  <2>6. ComsLeft(c)' = ComsLeft(c)
    BY <2>3, <2>4, SameAim DEF ComsLeft, Matches
  <2> QED BY <2>3, <2>4, <2>5, <2>6, SameAim DEF StopInv, In, NameOf
<1>3. CASE ListComs(c)
  <2> DEFINE names == IF OfRig(c) THEN cmd[c].returned ELSE ComNames(None, Peers(c))
             sw == {x \in containers : NameOf(x) \in names}
  <2>1. cmd' = [cmd EXCEPT ![c].phase = "coms", ![c].todo = names, ![c].saw = sw]
    BY <1>3 DEF ListComs
  <2>2. In(c, "apps") /\ cmd[c].todo = {} /\ containers' = containers /\ apps' = apps
    BY <1>3 DEF ListComs, consoleVars
  <2>3. \A x \in ComsLeft(c) : NameOf(x) \in names
    BY <2>2 DEF StopInv, ComsLeft, ComNames, Matches
  <2> HIDE DEF names, sw
  <2>4. Becoming(c, Rec("coms", cmd[c].opt, cmd[c].identity, cmd[c].inst, names, cmd[c].returned,
                        sw))
    BY <1>1, <2>1, PhaseTodoSawRec
  <2>5. /\ cmd'[c].phase = "coms" /\ cmd'[c].opt = cmd[c].opt /\ cmd'[c].inst = cmd[c].inst
        /\ cmd'[c].todo = names
    BY <2>4 DEF Becoming, Rec
  <2>6. AppsLeft(c, Peers(c))' = {}
    BY <2>2, <2>5, SameAim DEF StopInv, AppsLeft, Matches
  <2>7. ComsLeft(c)' = ComsLeft(c)
    BY <2>2, <2>5, SameAim DEF ComsLeft, Matches
  <2> QED BY <2>3, <2>5, <2>6, <2>7, SameAim DEF StopInv, In, NameOf
<1>4. CASE StopCom(c)
  <2>1. PICK name \in cmd[c].todo :
          containers' = Stop(name) /\ cmd' = [cmd EXCEPT ![c].todo = @ \ {name}]
    BY <1>4 DEF StopCom
  <2>2. Becoming(c,
                 Rec(cmd[c].phase, cmd[c].opt, cmd[c].identity, cmd[c].inst, cmd[c].todo \ {name},
                        cmd[c].returned, cmd[c].saw))
    BY <1>1, <2>1, TodoRec
  <2>3. /\ cmd'[c].phase = "coms" /\ cmd'[c].opt = cmd[c].opt /\ cmd'[c].inst = cmd[c].inst
        /\ cmd'[c].todo = cmd[c].todo \ {name}
    BY <1>4, <2>2, RecFields DEF StopCom, In
  <2>4. In(c, "coms") /\ apps' = apps
    BY <1>4 DEF StopCom, consoleVars
  <2>5. AppsLeft(c, Peers(c))' = {}
    BY <2>3, <2>4, SameAim DEF StopInv, In, AppsLeft, Matches
  <2>6. ASSUME NEW x \in ComsLeft(c)' PROVE x \in ComsLeft(c) /\ NameOf(x) # name
    BY <2>1, <2>3, SameAim DEF ComsLeft, Matches, Stop
  <2>7. \A x \in ComsLeft(c)' : NameOf(x) \in cmd'[c].todo
    BY <2>3, <2>4, <2>6 DEF StopInv
  <2> QED BY <2>3, <2>5, <2>7, SameAim DEF StopInv, In, NameOf
<1> QED BY <1>2, <1>3, <1>4

\* It kills its session, takes the network and marks the run.
LEMMA FinishesTheStop ==
    ASSUME ConsoleInv, NEW c \in Command, StopInv(c),
           KillSession(c) \/ RemoveNetworks(c) \/ MarkStopped(c)
    PROVE  StopInv(c)'
<1>1. CASE KillSession(c)
  <2>1. Kind(c) # "scenario" /\ In(c, "coms") /\ cmd[c].todo = {}
    BY <1>1 DEF KillSession, StopInv, IsStop
  <2>2. Goto(c, IF OfRig(c) THEN "unnet" ELSE "mark")
    BY <1>1, <2>1 DEF KillSession
  <2>3. /\ cmd'[c].phase = IF OfRig(c) THEN "unnet" ELSE "mark"
        /\ cmd'[c].opt = cmd[c].opt /\ cmd'[c].inst = cmd[c].inst
    BY <2>2, GotoFields
  <2>4. containers' \subseteq containers /\ apps' \subseteq apps
    BY <1>1 DEF KillSession
  <2>5. NoConsole(c)'
    <3>1. \A s \in tmux' : s.name # Console(c)
      BY <1>1 DEF KillSession
    <3>2. \A p \in panes' : p.session # Console(c)
      BY <1>1 DEF KillSession
    <3> QED BY <2>3, <3>1, <3>2, SameAim DEF NoConsole, Open
  <2>6. AppsLeft(c, Peers(c))' = {}
    BY <2>1, <2>3, <2>4, SameAim DEF StopInv, In, AppsLeft, Matches
  <2>7. ComsLeft(c)' = {}
    <3>1. ComsLeft(c) = {}
      BY <2>1 DEF StopInv
    <3> QED BY <2>3, <2>4, <3>1, SameAim DEF ComsLeft, Matches
  <2> QED BY <2>3, <2>5, <2>6, <2>7, SameAim DEF StopInv, In
<1>2. CASE RemoveNetworks(c)
  <2>1. Kind(c) = "rig stop" /\ In(c, "unnet") /\ Peers(c) = Identity
    BY <1>2, KindOfPhase DEF RemoveNetworks, Peers, OfRig
  <2>2. /\ cmd'[c].phase = "mark" /\ cmd'[c].opt = cmd[c].opt /\ cmd'[c].inst = cmd[c].inst
        /\ containers' = containers /\ apps' = apps /\ tmux' = tmux /\ panes' = panes
    BY <1>2, GotoFields DEF RemoveNetworks, consoleVars
  <2>3. AppsLeft(c, Peers(c))' = {}
    BY <2>1, <2>2, SameAim DEF StopInv, In, AppsLeft, Matches
  <2>4. ComsLeft(c) = {} /\ NoConsole(c)
    BY <2>1 DEF StopInv, In
  <2>5. ComsLeft(c)' = {} /\ NoConsole(c)'
    BY <2>2, <2>4, SameAim DEF ComsLeft, Matches, NoConsole, Open
  <2>6. ASSUME NEW x \in containers, NEW n \in networks, x.net = n.inst,
               cmd[c].inst \in {None, n.inst}
        PROVE  FALSE
    <3>1. n.inst \in Command /\ n.inst # Host
      BY DEF ConsoleInv, WorkspaceAssumption
    <3>2. x.inst = n.inst /\ x.identity \in Identity
      BY <2>6, <3>1 DEF ConsoleInv, SoundBridge
    <3> QED BY <2>1, <2>4, <2>6, <3>2 DEF ComsLeft, Matches
  <2>7. NoNetwork(c)'
    <3>1. \A n \in networks' :
             /\ n \in networks
             /\ (IF cmd[c].inst # None THEN n.inst = cmd[c].inst ELSE n.target = Target(c))
                   => \E x \in containers : x.net = n.inst
      BY <1>2 DEF RemoveNetworks
    <3>2. \A n \in networks : n.inst # None
      BY DEF ConsoleInv, WorkspaceAssumption
    <3> QED BY <2>2, <2>6, <3>1, <3>2, SameAim DEF NoNetwork
  <2> QED BY <2>2, <2>3, <2>5, <2>7, SameAim DEF StopInv, In
<1>3. CASE MarkStopped(c)
  <2>1. In(c, "mark")
    BY <1>3 DEF MarkStopped
  <2>2. /\ cmd'[c].phase = "done" /\ cmd'[c].opt = cmd[c].opt /\ cmd'[c].inst = cmd[c].inst
        /\ containers' = containers /\ networks' = networks
        /\ apps' = apps /\ tmux' = tmux /\ panes' = panes
    BY <1>3, GotoFields DEF MarkStopped
  <2>3. AppsLeft(c, Peers(c))' = {}
    BY <2>1, <2>2, SameAim DEF StopInv, In, AppsLeft, Matches
  <2>4. ComsLeft(c) = {} /\ NoConsole(c) /\ (OfRig(c) => NoNetwork(c))
    BY <2>1 DEF StopInv, In
  <2>5. ComsLeft(c)' = {} /\ NoConsole(c)' /\ (OfRig(c) => NoNetwork(c)')
    BY <2>2, <2>4, SameAim DEF ComsLeft, Matches, NoConsole, Open, NoNetwork
  <2>6. ASSUME OfRig(c), cmd[c].inst # None PROVE Marked(c)'
    <3>1. Opens(cmd[c].inst) /\ Console(cmd[c].inst) = Console(c)
      BY <2>6 DEF ConsoleInv, FoundByTag, StopInv, IsStop, OfRig
    <3>2. cmd[c].inst \in Nat
      BY <3>1 DEF Opens, WorkspaceAssumption
    <3>3. \A r \in runs : r.inst = cmd[c].inst => r.console = Console(c)
      BY <3>1 DEF ConsoleInv, RunsAreTrue
    <3>4. \A r \in runs : r.inst = cmd[c].inst => r \in Latest(c)
      BY <2>6, <3>2, <3>3 DEF Latest, Matches
    <3>5. ASSUME NEW r \in runs, NEW q, q = [r EXCEPT !.stopped = TRUE] PROVE q.stopped
      BY <3>5 DEF ConsoleInv, RunsAreTrue, WholeRun
    <3>6. \A q \in runs' : \/ q \in runs /\ q \notin Latest(c)
                           \/ \E r \in runs : q = [r EXCEPT !.stopped = TRUE]
      BY <1>3 DEF MarkStopped, Latest
    <3> QED BY <2>2, <3>4, <3>5, <3>6 DEF Marked
  <2> QED BY <2>2, <2>3, <2>5, <2>6, SameAim DEF StopInv, In
<1> QED BY <1>1, <1>2, <1>3

\* "scenario stop owns cleanup", and so does "smoke --stop": a stop that had the
\* workspace to itself and got through leaves no session or pane, bridge,
\* application or network of its console, and a rig's run is marked.
THEOREM AStopCleansUp == TmuxSpec => []StopCleansUp
<1>1. TmuxInit => AloneInv
  BY DEF TmuxInit, AloneInv
<1>2. ConsoleInv /\ AloneInv /\ [TmuxNext]_tmuxVars => AloneInv'
  <2> SUFFICES ASSUME ConsoleInv, AloneInv, [TmuxNext]_tmuxVars PROVE AloneInv'
    OBVIOUS
  <2>1. CASE UNCHANGED tmuxVars
    <3>1. UNCHANGED <<containers, networks, cmd, apps, tmux, panes, runs, alone>>
      BY <2>1 DEF tmuxVars, vars, consoleVars
    <3>2. ASSUME NEW c \in alone PROVE StopInv(c)'
      <4>1. cmd'[c] = cmd[c] /\ c \in Command /\ StopInv(c)
        BY <3>1 DEF AloneInv
      <4>2. /\ Peers(c)' = Peers(c) /\ OfRig(c)' = OfRig(c) /\ IsStop(c)' = IsStop(c)
            /\ Console(c)' = Console(c) /\ Target(c)' = Target(c)
        BY <4>1, SameAim
      <4>3. /\ ComsLeft(c)' = ComsLeft(c) /\ NoConsole(c)' = NoConsole(c)
            /\ NoNetwork(c)' = NoNetwork(c) /\ Marked(c)' = Marked(c)
        BY <3>1, <4>1, <4>2 DEF ComsLeft, Matches, NoConsole, Open, NoNetwork, Marked
      <4>4. AppsLeft(c, Peers(c))' = AppsLeft(c, Peers(c))
        BY <3>1, <4>1, <4>2 DEF AppsLeft, Matches
      <4>5. AppsLeft(c, Peers(c) \ cmd[c].todo)' = AppsLeft(c, Peers(c) \ cmd[c].todo)
        BY <3>1, <4>1, <4>2 DEF AppsLeft, Matches
      <4> QED BY <4>1, <4>2, <4>3, <4>4, <4>5 DEF StopInv, In, NameOf
    <3> QED BY <3>1, <3>2 DEF AloneInv
  <2>2. CASE alone' = {}
    BY <2>2 DEF AloneInv
  <2>3. ASSUME NEW c \in Command, NEW o \in ConsoleOptions[c], IssueConsole(c, o) PROVE AloneInv'
    <3>1. CASE o.kind \in {"scenario", "rig"}
      BY <2>2, <2>3, <3>1 DEF IssueConsole
    <3>2. CASE o.kind \notin {"scenario", "rig"}
      <4>1. alone' = {c} /\ o.kind \in {"scenario stop", "rig stop"}
        BY <2>3, <3>2 DEF IssueConsole, TmuxRunsAssumption, ConsoleOption
      <4>2. PICK r : /\ r = [NotIssued EXCEPT !.phase = "look", !.opt = o, !.identity = o.identity,
                                              !.inst = IF o.kind \in {"scenario",
                                                                      "rig"} THEN c ELSE None]
                     /\ cmd'[c] = r
        BY <2>3 DEF IssueConsole, ConsoleInv, Shaped
      <4>3. r.phase = "look" /\ r.opt = o
        BY <4>2 DEF NotIssued
      <4>4. StopInv(c)'
        BY <4>1, <4>2, <4>3 DEF StopInv, IsStop, Kind, In
      <4> QED BY <4>1, <4>4 DEF AloneInv
    <3> QED BY <3>1, <3>2
  <2>4. ASSUME NEW c \in Command, CommandStep(c) \/ Trouble(c) PROVE AloneInv'
    <3>1. alone' = alone \cap {c}
      BY <2>4 DEF CommandStep, Trouble
    <3>2. ASSUME c \in alone PROVE StopInv(c)'
      <4>1. StopInv(c) /\ IsStop(c) /\ Kind(c) \in {"scenario stop", "rig stop"}
        BY <3>2 DEF AloneInv, StopInv, IsStop
      <4>2. CASE Trouble(c)
        <5>1. Goto(c, "failed") \/ Goto(c, "killed")
          BY <4>1, <4>2 DEF Trouble, Raise, Kill, AfterRaise, Kind
        <5> QED BY <4>1, <5>1, EndedStop
      <4>3. CASE ConsoleStep(c)
        <5>1. \/ FindScenario(c) \/ FindRig(c) \/ StopApp(c) \/ ListComs(c) \/ StopCom(c)
              \/ KillSession(c) \/ RemoveNetworks(c) \/ MarkStopped(c)
          BY <4>1, <4>3, KindOfPhase
             DEF ConsoleStep, LookForScenario, LookForRig, RigGuard, Guard, RigNetwork, RecordRun,
                 OpenSession, TagSession, NewWindow, NoSession, Opened, ScenarioReady, Opens
        <5> QED BY <4>1, <5>1, FindsForStop, StopsTheRest, FinishesTheStop
      <4> QED BY <2>4, <4>1, <4>2, <4>3 DEF CommandStep
    <3> QED BY <3>1, <3>2 DEF AloneInv
  <2> QED BY <2>1, <2>2, <2>3, <2>4 DEF TmuxNext
<1>3. AloneInv => StopCleansUp
  <2> SUFFICES ASSUME AloneInv, NEW c \in alone, In(c, "done") PROVE
        /\ ~Open(Console(c))
        /\ \A p \in panes : p.session # Console(c)
        /\ \A x \in containers : x.identity \in Peers(c) => ~Matches(cmd[c].inst, x)
        /\ \A x \in apps : ~(/\ x.target = Target(c) /\ x.identity \in Peers(c)
                             /\ Matches(cmd[c].inst, x))
        /\ OfRig(c) => \A n \in networks : n.inst # cmd[c].inst
                          /\ (cmd[c].inst = None => n.target # Target(c))
        /\ OfRig(c) /\ cmd[c].inst # None =>
              \A r \in runs : r.inst = cmd[c].inst => r.stopped
    BY DEF StopCleansUp
  <2>1. StopInv(c) /\ cmd[c].phase = "done"
    BY DEF AloneInv, In
  <2>2. AppsLeft(c, Peers(c)) = {} /\ ComsLeft(c) = {} /\ NoConsole(c)
    BY <2>1 DEF StopInv
  <2>3. (OfRig(c) => NoNetwork(c)) /\ (OfRig(c) /\ cmd[c].inst # None => Marked(c))
    BY <2>1 DEF StopInv, In
  <2> QED BY <2>2, <2>3 DEF AppsLeft, ComsLeft, NoConsole, NoNetwork, Marked
<1> QED BY <1>1, <1>2, <1>3, ConsoleInvInductive, PTL DEF TmuxSpec

------------------------------------------------------------------------------
(* What a command saw is gone, and a smoke leaves nothing, whatever consoles  *)
(* run beside them                                                            *)

Makers == {"start", "smoke", "scenario", "rig"}

\* A console's panes bear its number; a start works on the instance it was given.
InstanceOf(c) == IF Kind(c) \in {"scenario", "rig"} THEN c ELSE cmd[c].inst

\* An instance belongs to the starts that share it, to one smoke or to one
\* console, and so do its containers and everything a smoke will ever stop.
Owned ==
    /\ \A c \in Command : Kind(c) = "start" => Kind(cmd[c].inst) = "start"
    /\ \A c \in Command : Kind(c) = "smoke" =>
          /\ cmd[c].inst = c
          /\ \A name \in cmd[c].todo \cup cmd[c].returned : name[1] = c
    /\ \A x \in containers : x.by \in Command /\ Kind(x.by) \in Makers /\ x.inst = InstanceOf(x.by)

BeforeOpen == {"idle", "look", "apps", "coms", "guard", "network", "record", "open"}

Mine(c, present) == {q \in present : q.inst = c /\ ~q.app}

\* The bridge of each peer is given one pane, once: it is open, or a window
\* still to open, or neither any more.
OnceOf(c, r, present) ==
    /\ Mine(c, present) # {} =>
          r.opt.kind \in {"scenario", "rig"} /\ r.phase \in {"tag", "windows", "ready"} \cup Ended
    /\ \A p \in Mine(c, present) : \A q \in Mine(c, present) : p.identity = q.identity => p = q
    /\ r.phase = "tag" /\ r.opt.kind = "rig" =>
          \A q \in Mine(c, present) : q.identity = FirstPeer
    /\ r.phase = "windows" => \A w \in r.todo :
          /\ w.inst = c
          /\ ~w.app => /\ \A q \in Mine(c, present) : q.identity # w.identity
                       /\ \A v \in r.todo : ~v.app /\ v.identity = w.identity => v = w

\* A console may still run the bridge of peer p.
YetOf(c, r, present, p) ==
    \/ r.phase \in BeforeOpen
    \/ r.phase = "tag" /\ r.opt.kind = "rig" /\ p # FirstPeer
    \/ r.phase = "windows" /\ \E w \in r.todo : ~w.app /\ w.identity = p
    \/ \E q \in Mine(c, present) : q.identity = p /\ q.at # "up"

\* The docker run that made x lies behind the command that made it.
RunBehind(r, x) ==
    \/ r.phase \in Past
    \/ r.phase = "wait" /\ NameOf(x) = OwnName(r)
    \/ r.phase \in {"run", "wait"} /\ NameOf(x) \in r.returned

BehindOf(r, present, x) ==
    \/ r.opt.kind \in {"start", "smoke"} /\ RunBehind(r, x)
    \/ r.opt.kind \in {"scenario", "rig"} /\ ~YetOf(x.by, r, present, x.identity)

Behind(x) == x.by \in Command /\ BehindOf(cmd[x.by], panes, x)

\* A start and a smoke run each of their containers once.
RunsEachOnce(r) ==
    r.opt.kind \in {"start", "smoke"} => /\ r.phase \in Before => r.returned = {}
                                         /\ r.phase = "run" => OwnName(r) \notin r.returned

\* What docker knows, and what was ever seen there, is made once.
EachOnce ==
    /\ \A c \in Command : OnceOf(c, cmd[c], panes) /\ RunsEachOnce(cmd[c])
    /\ \A x \in containers : Behind(x)
    /\ \A c \in Command : \A x \in cmd[c].saw : Behind(x)

\* A network is a smoke's or a rig's; what is off the host's is on one of them.
Linked ==
    /\ \A n \in networks : Kind(n.inst) \in {"smoke", "rig"} /\ n = NetworkOf(n.inst)
    /\ \A x \in containers : x.net # Host => x.net = x.by /\ NetworkOf(x.by) \in networks

\* As ClearOf, with the phases of the consoles.
ClearedOf(r, present) ==
    /\ Beyond(r) \/ r.phase \in {"record", "open", "tag", "windows", "ready", "unnet", "mark"} =>
          r.saw \cap present = {}
    /\ Removing(r) \/ r.phase = "coms" => \A x \in r.saw \cap present : NameOf(x) \in r.todo
    /\ r.phase = "look" => r.saw = {}

Survives ==
    /\ Owned /\ EachOnce /\ Linked
    /\ \A c \in Command : /\ ClearedOf(cmd[c], containers)
                          /\ SweptOf(c, cmd[c], containers, networks)

\* A step of command c: no other moves, and who may make a container keeps its
\* options, and the instance it works on.
Steps(c) ==
    /\ \A d \in Command : d # c => cmd'[d] = cmd[d]
    /\ Kind(c) \in Makers => cmd'[c].opt = cmd[c].opt
    /\ Kind(c) \in {"start", "smoke"} => cmd'[c].inst = cmd[c].inst

LEMMA MakersStay ==
    ASSUME NEW c \in Command, Steps(c), NEW d \in Command, Kind(d) \in Makers
    PROVE  /\ cmd'[d].opt = cmd[d].opt /\ Kind(d)' = Kind(d)
           /\ InstanceOf(d)' = InstanceOf(d) /\ NetworkOf(d)' = NetworkOf(d)
<1>1. cmd'[d].opt = cmd[d].opt
  BY DEF Steps
<1>2. Kind(d) \in {"start", "smoke"} => cmd'[d].inst = cmd[d].inst
  BY DEF Steps
<1> QED BY <1>1, <1>2 DEF Kind, InstanceOf, NetworkOf, Makers

\* Of the command that takes a step: whom a new start joins, and what is on the
\* lists of a smoke.
LEMMA OwnedStep ==
    ASSUME ConsoleInv, Owned, NEW c \in Command, Steps(c),
           Kind(c) # "start" /\ cmd'[c].opt.kind = "start" =>
               cmd'[cmd'[c].inst].opt.kind = "start",
           cmd'[c].opt.kind = "smoke" =>
               /\ cmd'[c].inst = c
               /\ \A name \in cmd'[c].todo \cup cmd'[c].returned : name[1] = c,
           \A x \in containers' \ containers :
               x.by = c /\ Kind(c) \in Makers /\ x.inst = InstanceOf(c)
    PROVE  Owned'
<1>1. ASSUME NEW d \in Command, cmd'[d].opt.kind = "start"
      PROVE  cmd'[cmd'[d].inst].opt.kind = "start"
  <2>1. CASE Kind(d) = "start"
    <3>1. cmd'[d].inst = cmd[d].inst
      BY <2>1 DEF Steps
    <3>2. cmd[d].inst \in Command /\ Kind(cmd[d].inst) = "start"
      BY <2>1 DEF ConsoleInv, Sound, Kind, Owned
    <3>3. Kind(cmd[d].inst)' = "start"
      <4>1. PICK i \in Command : i = cmd[d].inst
        BY <3>2
      <4>2. Kind(i)' = "start"
        BY <3>2, <4>1, MakersStay DEF Makers
      <4> QED BY <3>1, <4>1, <4>2 DEF Kind
    <3> QED BY <3>1, <3>3 DEF Kind
  <2>2. CASE Kind(d) # "start"
    <3>1. d = c
      BY <1>1, <2>2 DEF Steps, Kind
    <3> QED BY <1>1, <2>2, <3>1
  <2> QED BY <2>1, <2>2
<1>2. ASSUME NEW d \in Command, cmd'[d].opt.kind = "smoke"
      PROVE  cmd'[d].inst = d /\ \A name \in cmd'[d].todo \cup cmd'[d].returned : name[1] = d
  <2>1. CASE d = c
    BY <1>2, <2>1
  <2>2. CASE d # c
    BY <1>2, <2>2 DEF Steps, Owned, Kind
  <2> QED BY <2>1, <2>2
<1>3. ASSUME NEW x \in containers'
      PROVE  x.by \in Command /\ Kind(x.by)' \in Makers /\ x.inst = InstanceOf(x.by)'
  <2>1. x.by \in Command /\ Kind(x.by) \in Makers /\ x.inst = InstanceOf(x.by)
    BY <1>3 DEF Owned
  <2>2. PICK d \in Command : d = x.by
    BY <2>1
  <2>3. Kind(d)' = Kind(d) /\ InstanceOf(d)' = InstanceOf(d)
    BY <2>1, <2>2, MakersStay
  <2> QED BY <2>1, <2>2, <2>3
<1> QED BY <1>1, <1>2, <1>3 DEF Owned, Kind

\* A step that adds no pane to another's panes, takes back nothing that is behind
\* its command, and makes what was not made before.
LEMMA EachOnceStep ==
    ASSUME ConsoleInv, EachOnce, NEW c \in Command, Steps(c),
           OnceOf(c, cmd'[c], panes'), RunsEachOnce(cmd'[c]),
           \A q \in panes' : q \in panes \/ q.inst = c,
           Kind(c) \in {"start", "smoke"} =>
               \A x : RunBehind(cmd[c], x) => RunBehind(cmd'[c], x),
           Kind(c) \in {"scenario", "rig"} =>
               \A p : YetOf(c, cmd'[c], panes', p) => YetOf(c, cmd[c], panes, p),
           cmd'[c].saw \subseteq containers \cup cmd[c].saw,
           \A x \in containers' \ containers :
               x.by = c /\ Kind(c) \in {"start", "smoke"} /\ RunBehind(cmd'[c], x)
    PROVE  EachOnce'
<1>1. \A d : d # c => Mine(d, panes') \subseteq Mine(d, panes)
  BY DEF Mine
<1>2. ASSUME NEW d \in Command PROVE OnceOf(d, cmd'[d], panes') /\ RunsEachOnce(cmd'[d])
  <2>1. CASE d = c
    BY <2>1
  <2>2. CASE d # c
    <3>1. cmd'[d] = cmd[d] /\ OnceOf(d, cmd[d], panes) /\ RunsEachOnce(cmd[d])
      BY <2>2 DEF Steps, EachOnce
    <3>2. OnceOf(d, cmd[d], panes')
      BY <1>1, <2>2, <3>1 DEF OnceOf
    <3> QED BY <3>1, <3>2
  <2> QED BY <2>1, <2>2
<1>3. ASSUME NEW x, Behind(x) PROVE x.by \in Command /\ BehindOf(cmd'[x.by], panes', x)
  <2>1. PICK d \in Command : d = x.by
    BY <1>3 DEF Behind
  <2>2. BehindOf(cmd[d], panes, x) /\ Kind(d) \in Makers
    BY <1>3, <2>1 DEF Behind, BehindOf, Kind, Makers
  <2>3. cmd'[d].opt = cmd[d].opt
    BY <2>2, MakersStay
  <2>4. CASE d # c
    <3>1. cmd'[d] = cmd[d]
      BY <2>4 DEF Steps
    <3>2. \A p : YetOf(d, cmd[d], panes', p) => YetOf(d, cmd[d], panes, p)
      BY <1>1, <2>4 DEF YetOf
    <3>3. BehindOf(cmd[d], panes', x)
      BY <2>1, <2>2, <3>2 DEF BehindOf
    <3> QED BY <2>1, <3>1, <3>3
  <2>5. CASE d = c
    BY <2>1, <2>2, <2>3, <2>5 DEF BehindOf, Kind
  <2> QED BY <2>4, <2>5
<1>4. ASSUME NEW x \in containers' PROVE x.by \in Command /\ BehindOf(cmd'[x.by], panes', x)
  <2>1. CASE x \in containers
    BY <1>3, <2>1 DEF EachOnce
  <2>2. CASE x \notin containers
    <3>1. x.by = c /\ Kind(c) \in {"start", "smoke"} /\ RunBehind(cmd'[c], x)
      BY <1>4, <2>2
    <3>2. cmd'[c].opt.kind \in {"start", "smoke"}
      BY <3>1 DEF Steps, Makers, Kind
    <3> QED BY <3>1, <3>2 DEF BehindOf
  <2> QED BY <2>1, <2>2
<1>5. ASSUME NEW d \in Command, NEW x \in cmd'[d].saw
      PROVE  x.by \in Command /\ BehindOf(cmd'[x.by], panes', x)
  <2>1. x \in containers \/ \E e \in Command : x \in cmd[e].saw
    BY <1>5 DEF Steps
  <2> QED BY <1>3, <2>1 DEF EachOnce
<1> QED BY <1>2, <1>4, <1>5 DEF EachOnce, Behind

\* A network comes with its command, and stays while a container is on it.
LEMMA LinkedStep ==
    ASSUME ConsoleInv, Owned, Linked, NEW c \in Command, Steps(c),
           \A n \in networks' \ networks : n = NetworkOf(c) /\ Kind(c) \in {"smoke", "rig"},
           \A x \in containers' : \A n \in networks : x.net = n.inst => n \in networks',
           \A x \in containers' \ containers :
               /\ x.by = c /\ Kind(c) \in Makers
               /\ x.net # Host => x.net = c /\ NetworkOf(c) \in networks
    PROVE  Linked'
<1>1. ASSUME NEW n \in networks' PROVE Kind(n.inst)' \in {"smoke", "rig"} /\ n = NetworkOf(n.inst)'
  <2>1. n.inst \in Command /\ Kind(n.inst) \in {"smoke", "rig"} /\ n = NetworkOf(n.inst)
    <3>1. CASE n \in networks
      BY <3>1 DEF Linked, ConsoleInv
    <3>2. CASE n \notin networks
      <4>1. n = NetworkOf(c) /\ Kind(c) \in {"smoke", "rig"}
        BY <1>1, <3>2
      <4>2. n.inst = c
        BY <4>1 DEF NetworkOf
      <4> QED BY <4>1, <4>2
    <3> QED BY <3>1, <3>2
  <2>2. PICK d \in Command : d = n.inst
    BY <2>1
  <2>3. Kind(d)' = Kind(d) /\ NetworkOf(d)' = NetworkOf(d)
    BY <2>1, <2>2, MakersStay DEF Makers
  <2> QED BY <2>1, <2>2, <2>3
<1>2. ASSUME NEW x \in containers', x.net # Host
      PROVE  x.net = x.by /\ NetworkOf(x.by)' \in networks'
  <2>1. x.by \in Command /\ Kind(x.by) \in Makers /\ x.net = x.by /\ NetworkOf(x.by) \in networks
    BY <1>2 DEF Linked, Owned
  <2>2. NetworkOf(x.by) \in networks'
    <3>1. NetworkOf(x.by).inst = x.net
      BY <2>1 DEF NetworkOf
    <3> QED BY <1>2, <2>1, <3>1
  <2>3. PICK d \in Command : d = x.by
    BY <2>1
  <2>4. NetworkOf(d)' = NetworkOf(d)
    BY <2>1, <2>3, MakersStay
  <2> QED BY <2>1, <2>2, <2>3, <2>4
<1> QED BY <1>1, <1>2 DEF Linked

\* What was not made before, no command has seen.
LEMMA OthersClear ==
    ASSUME EachOnce, \A x \in containers' \ containers : ~Behind(x),
           NEW d \in Command, ClearedOf(cmd[d], containers)
    PROVE  ClearedOf(cmd[d], containers')
<1>1. cmd[d].saw \cap containers' \subseteq cmd[d].saw \cap containers
  BY DEF EachOnce
<1> QED BY <1>1 DEF ClearedOf

\* The names on a smoke's lists are of containers it made.
LEMMA OthersSweep ==
    ASSUME Owned, NEW c \in Command,
           \A x \in containers' \ containers : Kind(c) \in Makers /\ x.inst = InstanceOf(c),
           \A n \in networks' \ networks : n.inst = c,
           NEW d \in Command, d # c, SweptOf(d, cmd[d], containers, networks)
    PROVE  SweptOf(d, cmd[d], containers', networks')
<1> SUFFICES ASSUME Kind(d) = "smoke", ~cmd[d].opt.keep
             PROVE  SweptOf(d, cmd[d], containers', networks')
  BY DEF SweptOf, Kind
<1>1. ASSUME NEW x \in containers' \ containers PROVE NameOf(x) \notin cmd[d].returned
  <2>1. \A name \in cmd[d].returned : name[1] = d
    BY DEF Owned
  <2>2. InstanceOf(c) # d
    BY <1>1 DEF Owned, InstanceOf, Makers
  <2> QED BY <1>1, <2>1, <2>2 DEF NameOf
<1>2. \A x \in containers' : NameOf(x) \in cmd[d].returned => x \in containers
  BY <1>1
<1>3. \A n \in networks' : n.inst = d => n \in networks
  OBVIOUS
<1> QED BY <1>2, <1>3 DEF SweptOf

\* All that a command's step has to give.
LEMMA StepSurvives ==
    ASSUME ConsoleInv, Survives, NEW c \in Command, Steps(c),
           Kind(c) # "start" /\ cmd'[c].opt.kind = "start" =>
               cmd'[cmd'[c].inst].opt.kind = "start",
           cmd'[c].opt.kind = "smoke" =>
               /\ cmd'[c].inst = c
               /\ \A name \in cmd'[c].todo \cup cmd'[c].returned : name[1] = c,
           OnceOf(c, cmd'[c], panes'), RunsEachOnce(cmd'[c]),
           \A q \in panes' : q \in panes \/ q.inst = c,
           Kind(c) \in {"start", "smoke"} =>
               \A x : RunBehind(cmd[c], x) => RunBehind(cmd'[c], x),
           Kind(c) \in {"scenario", "rig"} =>
               \A p : YetOf(c, cmd'[c], panes', p) => YetOf(c, cmd[c], panes, p),
           cmd'[c].saw \subseteq containers \cup cmd[c].saw,
           \A x \in containers' \ containers :
               /\ x.by = c /\ Kind(c) \in {"start", "smoke"} /\ x.inst = cmd[c].inst
               /\ ~RunBehind(cmd[c], x) /\ RunBehind(cmd'[c], x)
               /\ x.net # Host => x.net = c /\ NetworkOf(c) \in networks,
           \A n \in networks' \ networks : n = NetworkOf(c) /\ Kind(c) \in {"smoke", "rig"},
           \A x \in containers' : \A n \in networks : x.net = n.inst => n \in networks',
           ClearedOf(cmd'[c], containers'),
           SweptOf(c, cmd'[c], containers', networks')
    PROVE  Survives'
<1>a. Owned /\ EachOnce /\ Linked
  BY DEF Survives
<1>b. \A x \in containers' \ containers :
         /\ x.by = c /\ Kind(c) \in Makers /\ x.inst = InstanceOf(c)
         /\ ~Behind(x)
  BY DEF Makers, InstanceOf, Behind, BehindOf, Kind
<1>c. \A n \in networks' \ networks : n.inst = c
  BY DEF NetworkOf
<1>1. Owned'
  BY <1>a, <1>b, OwnedStep
<1>2. EachOnce'
  BY <1>a, EachOnceStep
<1>3. Linked'
  BY <1>a, <1>b, LinkedStep
<1>4. ASSUME NEW d \in Command
      PROVE  ClearedOf(cmd'[d], containers') /\ SweptOf(d, cmd'[d], containers', networks')
  <2>1. CASE d = c
    BY <2>1
  <2>2. CASE d # c
    <3>1. /\ cmd'[d] = cmd[d] /\ ClearedOf(cmd[d], containers)
          /\ SweptOf(d, cmd[d], containers, networks)
      BY <2>2 DEF Steps, Survives
    <3>2. ClearedOf(cmd[d], containers')
      BY <1>a, <1>b, <3>1, OthersClear
    <3>3. SweptOf(d, cmd[d], containers', networks')
      BY <1>a, <1>b, <1>c, <2>2, <3>1, OthersSweep
    <3> QED BY <3>1, <3>2, <3>3
  <2> QED BY <2>1, <2>2
<1> QED BY <1>1, <1>2, <1>3, <1>4 DEF Survives

\* A start or a smoke that moves on does not come back to a docker run.
LEMMA ForwardRuns ==
    ASSUME NEW c \in Command, Forward(c, cmd'[c].phase, cmd'[c].identity, cmd'[c].returned),
           cmd'[c].inst = cmd[c].inst
    PROVE  /\ RunsEachOnce(cmd'[c])
           /\ \A x : RunBehind(cmd[c], x) => RunBehind(cmd'[c], x)
<1>1. RunsEachOnce(cmd'[c])
  BY DEF Forward, RunsEachOnce, Past, Before, Ended, OwnName
<1>2. ASSUME NEW x, RunBehind(cmd[c], x) PROVE RunBehind(cmd'[c], x)
  <2>1. cmd[c].phase \notin Before
    BY <1>2 DEF RunBehind, Past, Before, Ended
  <2> QED BY <1>2, <2>1 DEF Forward, RunBehind, Past, Ended, OwnName
<1> QED BY <1>1, <1>2

\* A console that moves on opens its panes once.
OpenForward(c, ph) ==
    \/ ph \in Ended
    \/ Kind(c) \notin {"scenario", "rig"} /\ ph \notin {"tag", "windows"}
    \/ cmd[c].phase \in BeforeOpen /\ ph \in BeforeOpen
    \/ cmd[c].phase = "windows" /\ ph = "ready"

LEMMA ForwardOpens ==
    ASSUME NEW c \in Command, OnceOf(c, cmd[c], panes), panes' \subseteq panes,
           cmd'[c].opt.kind = Kind(c), OpenForward(c, cmd'[c].phase)
    PROVE  /\ OnceOf(c, cmd'[c], panes')
           /\ Kind(c) \in {"scenario", "rig"} =>
                 \A p : YetOf(c, cmd'[c], panes', p) => YetOf(c, cmd[c], panes, p)
<1>1. Mine(c, panes') \subseteq Mine(c, panes)
  BY DEF Mine
<1>2. cmd'[c].phase \notin {"tag", "windows"}
  BY DEF OpenForward, Ended, BeforeOpen
<1>3. Mine(c, panes) # {} => /\ Kind(c) \in {"scenario", "rig"}
                             /\ cmd[c].phase \in {"tag", "windows", "ready"} \cup Ended
  BY DEF OnceOf, Kind
<1>4. Mine(c, panes) # {} => cmd[c].phase \notin BeforeOpen
  BY <1>3 DEF BeforeOpen, Ended
<1>5. Mine(c, panes) # {} => cmd'[c].phase \in {"tag", "windows", "ready"} \cup Ended
  BY <1>3, <1>4 DEF OpenForward
<1>6. OnceOf(c, cmd'[c], panes')
  BY <1>1, <1>2, <1>3, <1>5 DEF OnceOf
<1>7. ASSUME Kind(c) \in {"scenario", "rig"}, NEW p, YetOf(c, cmd'[c], panes', p)
      PROVE  YetOf(c, cmd[c], panes, p)
  BY <1>1, <1>2, <1>7 DEF YetOf, OpenForward, BeforeOpen, Ended
<1> QED BY <1>6, <1>7

\* A step that makes no container and opens no pane.
LEMMA QuietSurvives ==
    ASSUME ConsoleInv, Survives, NEW c \in Command, Steps(c), cmd'[c].opt.kind = Kind(c),
           Kind(c) \in {"start", "smoke"} =>
               Forward(c, cmd'[c].phase, cmd'[c].identity, cmd'[c].returned),
           OpenForward(c, cmd'[c].phase),
           Kind(c) = "smoke" => \A name \in cmd'[c].todo \cup cmd'[c].returned : name[1] = c,
           cmd'[c].saw \subseteq containers \cup cmd[c].saw,
           containers' \subseteq containers, panes' \subseteq panes,
           \A n \in networks' \ networks : n = NetworkOf(c) /\ Kind(c) \in {"smoke", "rig"},
           \A x \in containers' : \A n \in networks : x.net = n.inst => n \in networks',
           ClearedOf(cmd'[c], containers'),
           SweptOf(c, cmd'[c], containers', networks')
    PROVE  Survives'
<1>1. OnceOf(c, cmd'[c], panes') /\ (Kind(c) \in {"scenario", "rig"} =>
          \A p : YetOf(c, cmd'[c], panes', p) => YetOf(c, cmd[c], panes, p))
  BY ForwardOpens DEF Survives, EachOnce
<1>2. RunsEachOnce(cmd'[c]) /\ (Kind(c) \in {"start", "smoke"} =>
          \A x : RunBehind(cmd[c], x) => RunBehind(cmd'[c], x))
  <2>1. CASE Kind(c) \in {"start", "smoke"}
    BY <2>1, ForwardRuns DEF Steps
  <2>2. CASE Kind(c) \notin {"start", "smoke"}
    BY <2>2 DEF RunsEachOnce
  <2> QED BY <2>1, <2>2
<1>3. cmd'[c].opt.kind = "smoke" => cmd'[c].inst = c
  BY DEF Steps, Survives, Owned
<1>4. \A x \in containers' \ containers : FALSE
  OBVIOUS
<1>5. \A q \in panes' : q \in panes
  OBVIOUS
<1> QED BY <1>1, <1>2, <1>3, <1>4, <1>5, StepSurvives

\* The record after a step to another phase.
LEMMA GotoFieldsOf ==
    ASSUME ConsoleInv, NEW c \in Command, NEW ph, Goto(c, ph)
    PROVE  /\ Steps(c) /\ cmd'[c].opt = cmd[c].opt /\ cmd'[c].opt.kind = Kind(c)
           /\ cmd'[c].phase = ph /\ cmd'[c].identity = cmd[c].identity
           /\ cmd'[c].inst = cmd[c].inst /\ cmd'[c].todo = cmd[c].todo
           /\ cmd'[c].returned = cmd[c].returned /\ cmd'[c].saw = cmd[c].saw
<1>1. Becoming(c, Rec(ph, cmd[c].opt, cmd[c].identity, cmd[c].inst, cmd[c].todo,
                      cmd[c].returned, cmd[c].saw))
  BY GotoRec DEF ConsoleInv
<1> QED BY <1>1 DEF Becoming, Rec, Steps, Kind

\* Another phase, and nothing else of the record.
LEMMA GotoSurvives ==
    ASSUME ConsoleInv, Survives, NEW c \in Command, NEW ph, Goto(c, ph),
           Kind(c) \in {"start", "smoke"} => Forward(c, ph, cmd[c].identity, cmd[c].returned),
           OpenForward(c, ph),
           containers' \subseteq containers, panes' \subseteq panes,
           \A n \in networks' \ networks : n = NetworkOf(c) /\ Kind(c) \in {"smoke", "rig"},
           \A x \in containers' : \A n \in networks : x.net = n.inst => n \in networks',
           ClearedOf(cmd'[c], containers'),
           SweptOf(c, cmd'[c], containers', networks')
    PROVE  Survives'
<1>1. /\ Steps(c) /\ cmd'[c].opt.kind = Kind(c)
      /\ cmd'[c].phase = ph /\ cmd'[c].identity = cmd[c].identity
      /\ cmd'[c].todo = cmd[c].todo /\ cmd'[c].returned = cmd[c].returned
      /\ cmd'[c].saw = cmd[c].saw
  BY GotoFieldsOf
<1>2. Kind(c) = "smoke" => \A name \in cmd'[c].todo \cup cmd'[c].returned : name[1] = c
  BY <1>1 DEF Survives, Owned
<1>3. Kind(c) \in {"start", "smoke"} =>
          Forward(c, cmd'[c].phase, cmd'[c].identity, cmd'[c].returned)
  BY <1>1
<1>4. OpenForward(c, cmd'[c].phase) /\ cmd'[c].saw \subseteq containers \cup cmd[c].saw
  BY <1>1
<1> QED BY <1>1, <1>2, <1>3, <1>4, QuietSurvives

\* What a command's own record says before its step.
LEMMA SurvivesOf ==
    ASSUME Survives, NEW c \in Command
    PROVE  /\ ClearedOf(cmd[c], containers) /\ SweptOf(c, cmd[c], containers, networks)
           /\ RunsEachOnce(cmd[c]) /\ OnceOf(c, cmd[c], panes)
           /\ Kind(c) = "smoke" =>
                 /\ cmd[c].inst = c
                 /\ \A name \in cmd[c].todo \cup cmd[c].returned : name[1] = c
           /\ Kind(c) \in {"start", "smoke"} /\ cmd[c].phase \in Before => cmd[c].returned = {}
           /\ Kind(c) \in {"start", "smoke"} /\ cmd[c].phase = "run" =>
                 OwnName(cmd[c]) \notin cmd[c].returned
BY DEF Survives, EachOnce, Owned, RunsEachOnce, Kind

\* The guard looks at the networks with the target's label: a smoke or rig of the
\* target that has a container has its network.
LEMMA GuardSeesEveryRun ==
    ASSUME Linked, NEW c \in Command, OnTargetNetworks(c) = {}
    PROVE  SmokeContainers(cmd[c].opt.target) = {}
BY DEF Linked, OnTargetNetworks, SmokeContainers, NetworkOf

\* What the guard sees, it is refused for.
LEMMA GuardSurvives ==
    ASSUME ConsoleInv, Survives, NEW c \in Command, Guard(c), panes' = panes
    PROVE  Survives'
<1> DEFINE sw == IF cmd[c].opt.skip THEN {} ELSE SmokeContainers(cmd[c].opt.target)
           ph == IF ~cmd[c].opt.skip /\ OnTargetNetworks(c) # {} THEN "refused" ELSE "network"
<1>1. cmd' = [cmd EXCEPT ![c].saw = sw, ![c].phase = ph]
  BY DEF Guard
<1>2. /\ containers' = containers /\ networks' = networks
      /\ cmd[c].phase = "guard" /\ Kind(c) \in {"smoke", "rig"}
      /\ ph \in {"refused", "network"} /\ sw \subseteq containers
  BY KindOfPhase DEF Guard, In, SmokeContainers
<1>3. ph = "network" => sw = {}
  BY GuardSeesEveryRun DEF Survives
<1> HIDE DEF sw, ph
<1>4. Becoming(c, Rec(ph, cmd[c].opt, cmd[c].identity, cmd[c].inst, cmd[c].todo,
                      cmd[c].returned, sw))
  BY <1>1, SawPhaseRec DEF ConsoleInv
<1>5. /\ Steps(c) /\ cmd'[c].opt = cmd[c].opt /\ cmd'[c].opt.kind = Kind(c)
      /\ cmd'[c].phase = ph /\ cmd'[c].identity = cmd[c].identity
      /\ cmd'[c].todo = cmd[c].todo /\ cmd'[c].returned = cmd[c].returned /\ cmd'[c].saw = sw
  BY <1>4 DEF Becoming, Rec, Steps, Kind
<1>6. Kind(c) \in {"start", "smoke"} =>
          Forward(c, cmd'[c].phase, cmd'[c].identity, cmd'[c].returned)
  BY <1>2, <1>5, SurvivesOf DEF Forward, Before, Past, Ended
<1>7. OpenForward(c, cmd'[c].phase)
  BY <1>2, <1>5 DEF OpenForward, BeforeOpen, Ended
<1>8. ClearedOf(cmd'[c], containers') /\ SweptOf(c, cmd'[c], containers', networks')
  BY <1>2, <1>3, <1>5 DEF ClearedOf, Beyond, Removing, SweptOf
<1>9. Kind(c) = "smoke" => \A name \in cmd'[c].todo \cup cmd'[c].returned : name[1] = c
  BY <1>5, SurvivesOf
<1> QED BY <1>2, <1>5, <1>6, <1>7, <1>8, <1>9, QuietSurvives

\* start lists its conflicts, and stops them.
LEMMA ConflictsSurvive ==
    ASSUME ConsoleInv, Survives, NEW c \in Command, panes' = panes,
           ListConflicts(c) \/ StopConflict(c) \/ StopOwn(c)
    PROVE  Survives'
<1>a. \A name : Stop(name) = {x \in containers : NameOf(x) # name}
  BY DEF Stop
<1>1. CASE ListConflicts(c)
  <2> DEFINE found == IF cmd[c].opt.skip THEN {} ELSE Conflicts(c)
             ph == IF found = {} THEN "own" ELSE IF cmd[c].opt.force THEN "conflicts" ELSE "refused"
             td == {NameOf(x) : x \in found}
  <2>1. cmd' = [cmd EXCEPT ![c].saw = found, ![c].todo = td, ![c].phase = ph]
    BY <1>1 DEF ListConflicts
  <2>2. /\ containers' = containers /\ networks' = networks
        /\ cmd[c].phase = "list" /\ Kind(c) = "start"
        /\ ph \in {"own", "conflicts", "refused"} /\ found \subseteq containers
        /\ ph = "own" => found = {}
    BY <1>1 DEF ListConflicts, In, Conflicts, Kind
  <2>3. \A x \in found : NameOf(x) \in td
    OBVIOUS
  <2> HIDE DEF found, ph, td
  <2>4. Becoming(c, Rec(ph, cmd[c].opt, cmd[c].identity, cmd[c].inst, td, cmd[c].returned, found))
    BY <2>1, ListRec DEF ConsoleInv
  <2>5. /\ Steps(c) /\ cmd'[c].opt.kind = Kind(c) /\ cmd'[c].phase = ph
        /\ cmd'[c].identity = cmd[c].identity /\ cmd'[c].todo = td
        /\ cmd'[c].returned = cmd[c].returned /\ cmd'[c].saw = found
    BY <2>4 DEF Becoming, Rec, Steps, Kind
  <2>6. Forward(c, cmd'[c].phase, cmd'[c].identity, cmd'[c].returned)
    BY <2>2, <2>5, SurvivesOf DEF Forward, Before, Past, Ended
  <2>7. OpenForward(c, cmd'[c].phase)
    BY <2>2, <2>5 DEF OpenForward
  <2>8. ClearedOf(cmd'[c], containers') /\ SweptOf(c, cmd'[c], containers', networks')
    BY <2>2, <2>3, <2>5 DEF ClearedOf, Beyond, Removing, SweptOf
  <2> QED BY <2>2, <2>5, <2>6, <2>7, <2>8, QuietSurvives
<1>2. CASE StopConflict(c)
  <2>1. PICK name \in cmd[c].todo :
          /\ containers' = Stop(name)
          /\ cmd' = [cmd EXCEPT ![c].todo  = @ \ {name},
                                ![c].phase = IF cmd[c].todo = {name} THEN "own" ELSE @]
    BY <1>2 DEF StopConflict
  <2> DEFINE td == cmd[c].todo \ {name}
             ph == IF cmd[c].todo = {name} THEN "own" ELSE "conflicts"
  <2>2. /\ cmd[c].phase = "conflicts" /\ Kind(c) = "start" /\ networks' = networks
        /\ Shaped
    BY <1>2, KindOfPhase DEF StopConflict, In, ConsoleInv
  <2>3. cmd' = [cmd EXCEPT ![c].todo = td, ![c].phase = ph]
    <3>1. cmd' = [cmd EXCEPT ![c].todo = td,
                  ![c].phase = IF cmd[c].todo = {name} THEN "own" ELSE cmd[c].phase]
      <4>1. [cmd[c] EXCEPT !.todo = td].phase = cmd[c].phase
        BY <2>2 DEF Shaped, Whole, Rec
      <4> QED BY <2>1, <2>2, <4>1 DEF Shaped
    <3> QED BY <2>2, <3>1
  <2>4. ph \in {"own", "conflicts"} /\ (ph = "own" => td = {})
    OBVIOUS
  <2>5. \A x \in cmd[c].saw \cap containers' : NameOf(x) \in td
    BY <1>a, <2>1, <2>2, SurvivesOf DEF ClearedOf, Removing
  <2> HIDE DEF ph, td
  <2>6. Becoming(c, Rec(ph, cmd[c].opt, cmd[c].identity, cmd[c].inst, td, cmd[c].returned,
                        cmd[c].saw))
    BY <2>2, <2>3, TodoPhaseRec
  <2>7. /\ Steps(c) /\ cmd'[c].opt.kind = Kind(c) /\ cmd'[c].phase = ph
        /\ cmd'[c].identity = cmd[c].identity /\ cmd'[c].todo = td
        /\ cmd'[c].returned = cmd[c].returned /\ cmd'[c].saw = cmd[c].saw
    BY <2>6 DEF Becoming, Rec, Steps, Kind
  <2>8. Forward(c, cmd'[c].phase, cmd'[c].identity, cmd'[c].returned)
    BY <2>2, <2>4, <2>7, SurvivesOf DEF Forward, Before
  <2>9. OpenForward(c, cmd'[c].phase)
    BY <2>2, <2>4, <2>7 DEF OpenForward
  <2>10. ClearedOf(cmd'[c], containers') /\ SweptOf(c, cmd'[c], containers', networks')
    BY <2>2, <2>4, <2>5, <2>7 DEF ClearedOf, Beyond, Removing, SweptOf
  <2>11. containers' \subseteq containers
    BY <1>a, <2>1
  <2> QED BY <2>2, <2>7, <2>8, <2>9, <2>10, <2>11, QuietSurvives
<1>3. CASE StopOwn(c)
  <2>1. /\ Goto(c, "run") /\ cmd[c].phase = "own" /\ Kind(c) = "start"
        /\ containers' \subseteq containers /\ networks' = networks
    BY <1>3, <1>a, KindOfPhase DEF StopOwn, In
  <2>2. /\ cmd'[c].opt.kind = "start" /\ cmd'[c].phase = "run" /\ cmd'[c].saw = cmd[c].saw
    BY <2>1, GotoFieldsOf
  <2>3. Forward(c, "run", cmd[c].identity, cmd[c].returned) /\ OpenForward(c, "run")
    BY <2>1, SurvivesOf DEF Forward, Before, OpenForward
  <2>4. ClearedOf(cmd'[c], containers') /\ SweptOf(c, cmd'[c], containers', networks')
    BY <2>1, <2>2, SurvivesOf DEF ClearedOf, Beyond, Removing, SweptOf
  <2> QED BY <2>1, <2>3, <2>4, GotoSurvives
<1> QED BY <1>1, <1>2, <1>3

\* The docker run of a start or a smoke: the smoke's network is still there.
LEMMA RunSurvives ==
    ASSUME ConsoleInv, Survives, NEW c \in Command, RunContainer(c), ~NetworkGone(c),
           panes' = panes
    PROVE  Survives'
<1> DEFINE new == [inst |-> cmd[c].inst, identity |-> cmd[c].identity,
                   net |-> IF cmd[c].opt.kind = "smoke" THEN cmd[c].inst ELSE Host, by |-> c]
<1>1. /\ containers \subseteq containers' /\ containers' \subseteq containers \cup {new}
      /\ networks' = networks /\ Goto(c, "wait")
      /\ cmd[c].phase = "run" /\ Kind(c) \in {"start", "smoke"}
  BY KindOfPhase DEF RunContainer, In
<1>2. /\ new.by = c /\ NameOf(new) = OwnName(cmd[c]) /\ new.inst = cmd[c].inst
      /\ new.net = IF Kind(c) = "smoke" THEN cmd[c].inst ELSE Host
  BY DEF NameOf, OwnName, Kind
<1> HIDE DEF new
<1>3. /\ Steps(c) /\ cmd'[c].opt = cmd[c].opt /\ cmd'[c].opt.kind = Kind(c)
      /\ cmd'[c].phase = "wait" /\ cmd'[c].identity = cmd[c].identity
      /\ cmd'[c].inst = cmd[c].inst /\ cmd'[c].todo = cmd[c].todo
      /\ cmd'[c].returned = cmd[c].returned /\ cmd'[c].saw = cmd[c].saw
  BY <1>1, GotoFieldsOf
<1>4. RunsEachOnce(cmd'[c]) /\ \A x : RunBehind(cmd[c], x) => RunBehind(cmd'[c], x)
  <2>1. Forward(c, cmd'[c].phase, cmd'[c].identity, cmd'[c].returned)
    BY <1>1, <1>3 DEF Forward
  <2> QED BY <1>3, <2>1, ForwardRuns
<1>5. OnceOf(c, cmd'[c], panes')
  <2>1. OpenForward(c, cmd'[c].phase)
    BY <1>1, <1>3 DEF OpenForward
  <2> QED BY <1>3, <2>1, SurvivesOf, ForwardOpens
<1>6. ~RunBehind(cmd[c], new) /\ RunBehind(cmd'[c], new)
  <2>1. OwnName(cmd[c]) \notin cmd[c].returned /\ OwnName(cmd'[c]) = OwnName(cmd[c])
    BY <1>1, <1>3, SurvivesOf DEF OwnName
  <2> QED BY <1>1, <1>2, <1>3, <2>1 DEF RunBehind, Past, Ended
<1>7. new.net # Host => new.net = c /\ NetworkOf(c) \in networks
  <2>1. ASSUME Kind(c) = "smoke" PROVE cmd[c].inst = c /\ NetworkOf(c) \in networks
    <3>1. cmd[c].inst = c
      BY <2>1, SurvivesOf
    <3>2. PICK n \in networks : n.inst = c
      BY <1>1, <2>1, <3>1 DEF NetworkGone, In
    <3> QED BY <3>1, <3>2 DEF Survives, Linked
  <2> QED BY <1>2, <2>1
<1>8. cmd'[c].opt.kind = "smoke" =>
          /\ cmd'[c].inst = c
          /\ \A name \in cmd'[c].todo \cup cmd'[c].returned : name[1] = c
  BY <1>3, SurvivesOf
<1>9. ClearedOf(cmd'[c], containers')
  <2>1. new \notin cmd[c].saw
    BY <1>1, <1>2, <1>6 DEF Survives, EachOnce, Behind, BehindOf, Kind
  <2>2. cmd[c].saw \cap containers = {}
    BY <1>1, SurvivesOf DEF ClearedOf, Beyond
  <2>3. cmd'[c].saw \cap containers' = {}
    BY <1>1, <1>3, <2>1, <2>2
  <2> QED BY <1>3, <2>3 DEF ClearedOf, Removing
<1>10. SweptOf(c, cmd'[c], containers', networks')
  BY <1>3 DEF SweptOf
<1>11. \A x \in containers' \ containers : x = new
  BY <1>1
<1>12. Kind(c) \notin {"scenario", "rig"} /\ (Kind(c) # "start" => cmd'[c].opt.kind # "start")
  BY <1>1, <1>3
<1> QED BY <1>1, <1>2, <1>3, <1>4, <1>5, <1>6, <1>7, <1>8, <1>9, <1>10, <1>11, <1>12, StepSurvives

\* The network of a smoke and that of a rig, before the first docker run.
LEMMA NetworkSurvives ==
    ASSUME ConsoleInv, Survives, NEW c \in Command, panes' = panes,
           \/ Kind(c) = "smoke" /\ EnsureNetwork(c)
           \/ RigNetwork(c)
    PROVE  Survives'
<1>1. CASE Kind(c) = "smoke" /\ EnsureNetwork(c)
  <2>1. /\ cmd[c].phase = "network" /\ cmd[c].inst = c /\ containers' = containers
        /\ networks' = networks \cup {NetworkOf(c)}
    BY <1>1, SurvivesOf DEF EnsureNetwork, In, NetworkOf
  <2>2. cmd' = [cmd EXCEPT ![c].identity = FirstPeer, ![c].phase = "run"]
    BY <1>1 DEF EnsureNetwork
  <2>3. Becoming(c, Rec("run", cmd[c].opt, FirstPeer, cmd[c].inst, cmd[c].todo, cmd[c].returned,
                        cmd[c].saw))
    BY <2>2, PeerRec DEF ConsoleInv
  <2>4. /\ Steps(c) /\ cmd'[c].opt.kind = Kind(c) /\ cmd'[c].phase = "run"
        /\ cmd'[c].todo = cmd[c].todo /\ cmd'[c].returned = cmd[c].returned
        /\ cmd'[c].saw = cmd[c].saw
    BY <2>3 DEF Becoming, Rec, Steps, Kind
  <2>5. Forward(c, cmd'[c].phase, cmd'[c].identity, cmd'[c].returned)
    BY <1>1, <2>1, <2>4, SurvivesOf DEF Forward, Before
  <2>6. OpenForward(c, cmd'[c].phase)
    BY <1>1, <2>4 DEF OpenForward
  <2>7. ClearedOf(cmd'[c], containers') /\ SweptOf(c, cmd'[c], containers', networks')
    BY <2>1, <2>4, SurvivesOf DEF ClearedOf, Beyond, Removing, SweptOf
  <2>8. \A name \in cmd'[c].todo \cup cmd'[c].returned : name[1] = c
    BY <1>1, <2>4, SurvivesOf
  <2> QED BY <1>1, <2>1, <2>4, <2>5, <2>6, <2>7, <2>8, QuietSurvives
<1>2. CASE RigNetwork(c)
  <2>1. /\ Kind(c) = "rig" /\ cmd[c].phase = "network" /\ containers' = containers
        /\ Goto(c, "record") /\ networks' = networks \cup {NetworkOf(c)}
    BY <1>2, KindOfPhase DEF RigNetwork, OfRig, NetworkOf, Target, In
  <2>2. /\ cmd'[c].opt.kind = "rig" /\ cmd'[c].phase = "record" /\ cmd'[c].saw = cmd[c].saw
    BY <2>1, GotoFieldsOf
  <2>3. OpenForward(c, "record")
    BY <2>1 DEF OpenForward, BeforeOpen
  <2>4. ClearedOf(cmd'[c], containers') /\ SweptOf(c, cmd'[c], containers', networks')
    BY <2>1, <2>2, SurvivesOf DEF ClearedOf, Beyond, Removing, SweptOf
  <2> QED BY <2>1, <2>3, <2>4, GotoSurvives
<1> QED BY <1>1, <1>2

\* A docker run returned.
LEMMA ReadySurvives ==
    ASSUME ConsoleInv, Survives, NEW c \in Command, panes' = panes, Ready(c)
    PROVE  Survives'
<1> DEFINE rt   == cmd[c].returned \cup {<<cmd[c].inst, cmd[c].identity>>}
           rest == {p \in Identity : <<cmd[c].inst, p>> \notin rt}
           ph   == IF cmd[c].opt.kind = "start" THEN "done"
                   ELSE IF rest = {} THEN "verify" ELSE "run"
           id   == IF cmd[c].opt.kind = "start" \/ rest = {} THEN cmd[c].identity
                   ELSE CHOOSE p \in rest : TRUE
<1>1. cmd' = [cmd EXCEPT ![c].returned = rt, ![c].phase = ph, ![c].identity = id]
  <2>1. [[cmd[c] EXCEPT !.returned = rt] EXCEPT !.phase = ph].identity = cmd[c].identity
    BY DEF ConsoleInv, Shaped, Whole, Rec
  <2> QED BY <2>1 DEF Ready, ConsoleInv, Shaped
<1>2. /\ cmd[c].phase = "wait" /\ containers' = containers /\ networks' = networks
      /\ Kind(c) \in {"start", "smoke"}
  BY KindOfPhase DEF Ready, In
<1>3. ph \in {"done", "verify", "run"} /\ (ph = "done" => Kind(c) = "start")
  BY DEF Kind
<1>4. rt = cmd[c].returned \cup {OwnName(cmd[c])} /\ (ph = "run" => <<cmd[c].inst, id>> \notin rt)
  <2>1. ph = "run" => id \in rest
    OBVIOUS
  <2> QED BY <2>1 DEF OwnName
<1> HIDE DEF rt, rest, ph, id
<1>5. Becoming(c, Rec(ph, cmd[c].opt, id, cmd[c].inst, cmd[c].todo, rt, cmd[c].saw))
  BY <1>1, ReturnRec DEF ConsoleInv
<1>6. /\ Steps(c) /\ cmd'[c].opt.kind = Kind(c) /\ cmd'[c].phase = ph /\ cmd'[c].identity = id
      /\ cmd'[c].todo = cmd[c].todo /\ cmd'[c].returned = rt /\ cmd'[c].saw = cmd[c].saw
  BY <1>5 DEF Becoming, Rec, Steps, Kind
<1>7. Forward(c, cmd'[c].phase, cmd'[c].identity, cmd'[c].returned)
  BY <1>2, <1>3, <1>4, <1>6 DEF Forward, Past, Ended
<1>8. OpenForward(c, cmd'[c].phase)
  BY <1>2, <1>3, <1>6 DEF OpenForward
<1>9. ClearedOf(cmd'[c], containers') /\ SweptOf(c, cmd'[c], containers', networks')
  BY <1>2, <1>3, <1>6, SurvivesOf DEF ClearedOf, Beyond, Removing, SweptOf
<1>10. Kind(c) = "smoke" => \A name \in cmd'[c].todo \cup cmd'[c].returned : name[1] = c
  <2>1. ASSUME Kind(c) = "smoke" PROVE OwnName(cmd[c])[1] = c
    BY <2>1, SurvivesOf DEF OwnName
  <2>2. Kind(c) = "smoke" => \A name \in cmd[c].todo \cup cmd[c].returned : name[1] = c
    BY SurvivesOf
  <2> QED BY <1>4, <1>6, <2>1, <2>2
<1> QED BY <1>2, <1>6, <1>7, <1>8, <1>9, <1>10, QuietSurvives

\* An exception: the finally of a smoke begins with all that it started.
LEMMA RaisedSurvives ==
    ASSUME ConsoleInv, Survives, NEW c \in Command, AfterRaise(c), ~In(c, "idle"),
           containers' = containers, networks' = networks, panes' = panes
    PROVE  Survives'
<1>1. CASE Kind(c) = "smoke" /\ cmd[c].phase \in InTry
  <2> DEFINE td == IF cmd[c].opt.keep THEN {} ELSE cmd[c].returned
  <2>1. cmd' = [cmd EXCEPT ![c].phase = "cleanup", ![c].todo = td]
    BY <1>1 DEF AfterRaise, Kind
  <2>2. td \subseteq cmd[c].returned /\ (~cmd[c].opt.keep => td = cmd[c].returned)
    OBVIOUS
  <2> HIDE DEF td
  <2>3. Becoming(c, Rec("cleanup", cmd[c].opt, cmd[c].identity, cmd[c].inst, td,
                        cmd[c].returned, cmd[c].saw))
    BY <2>1, PhaseTodoRec DEF ConsoleInv
  <2>4. /\ Steps(c) /\ cmd'[c].opt = cmd[c].opt /\ cmd'[c].opt.kind = Kind(c)
        /\ cmd'[c].phase = "cleanup" /\ cmd'[c].todo = td
        /\ cmd'[c].returned = cmd[c].returned /\ cmd'[c].saw = cmd[c].saw
    BY <2>3 DEF Becoming, Rec, Steps, Kind
  <2>5. Forward(c, cmd'[c].phase, cmd'[c].identity, cmd'[c].returned)
    BY <2>4 DEF Forward, Past
  <2>6. OpenForward(c, cmd'[c].phase)
    BY <1>1, <2>4 DEF OpenForward
  <2>7. ClearedOf(cmd'[c], containers') /\ SweptOf(c, cmd'[c], containers', networks')
    BY <1>1, <2>2, <2>4, SurvivesOf DEF ClearedOf, Beyond, Removing, SweptOf, InTry, Kind
  <2>8. \A name \in cmd'[c].todo \cup cmd'[c].returned : name[1] = c
    BY <1>1, <2>2, <2>4, SurvivesOf
  <2> QED BY <2>4, <2>5, <2>6, <2>7, <2>8, QuietSurvives
<1>2. CASE ~(Kind(c) = "smoke" /\ cmd[c].phase \in InTry)
  <2>1. Goto(c, "failed")
    BY <1>2 DEF AfterRaise, Kind
  <2>2. cmd'[c].phase = "failed"
    BY <2>1, GotoFieldsOf
  <2>3. Forward(c, "failed", cmd[c].identity, cmd[c].returned) /\ OpenForward(c, "failed")
    BY DEF Forward, OpenForward, Past, Ended
  <2>4. ClearedOf(cmd'[c], containers') /\ SweptOf(c, cmd'[c], containers', networks')
    BY <2>2 DEF ClearedOf, Beyond, Removing, SweptOf
  <2> QED BY <2>1, <2>3, <2>4, GotoSurvives
<1> QED BY <1>1, <1>2

\* Whatever a command or a console meets, it ends, or cleans up.
LEMMA TroubleSurvives ==
    ASSUME ConsoleInv, Survives, NEW c \in Command, panes' = panes, Trouble(c) \/ RunRefused(c)
    PROVE  Survives'
<1>1. CASE Kill(c)
  <2>1. Goto(c, "killed") /\ containers' = containers /\ networks' = networks
    BY <1>1 DEF Kill
  <2>2. cmd'[c].phase = "killed"
    BY <2>1, GotoFieldsOf
  <2>3. Forward(c, "killed", cmd[c].identity, cmd[c].returned) /\ OpenForward(c, "killed")
    BY DEF Forward, OpenForward, Past, Ended
  <2>4. ClearedOf(cmd'[c], containers') /\ SweptOf(c, cmd'[c], containers', networks')
    BY <2>2 DEF ClearedOf, Beyond, Removing, SweptOf
  <2> QED BY <2>1, <2>3, <2>4, GotoSurvives
<1>2. CASE Raise(c) \/ RunRefused(c)
  <2>1. AfterRaise(c) /\ ~In(c, "idle") /\ containers' = containers /\ networks' = networks
    BY <1>2 DEF Raise, RunRefused, Running, NetworkGone, In
  <2> QED BY <2>1, RaisedSurvives
<1> QED BY <1>1, <1>2 DEF Trouble

\* A stop and a finally take down what is on their list.
LEMMA CleanupSurvives ==
    ASSUME ConsoleInv, Survives, NEW c \in Command, panes' = panes,
           ListToStop(c) \/ Cleanup(c) \/ Cleaned(c)
    PROVE  Survives'
<1>a. \A name : Stop(name) = {x \in containers : NameOf(x) # name}
  BY DEF Stop
<1>1. CASE ListToStop(c)
  <2> DEFINE found == {x \in containers : cmd[c].identity \in {None, x.identity}}
             td == {NameOf(x) : x \in found}
  <2>1. cmd' = [cmd EXCEPT ![c].saw = found, ![c].todo = td, ![c].phase = "cleanup"]
    BY <1>1 DEF ListToStop
  <2>2. /\ containers' = containers /\ networks' = networks /\ found \subseteq containers
        /\ Kind(c) = "stop" /\ \A x \in found : NameOf(x) \in td
    BY <1>1 DEF ListToStop, Kind
  <2> HIDE DEF found, td
  <2>3. Becoming(c, Rec("cleanup", cmd[c].opt, cmd[c].identity, cmd[c].inst, td, cmd[c].returned,
                        found))
    BY <2>1, ListRec DEF ConsoleInv
  <2>4. /\ Steps(c) /\ cmd'[c].opt.kind = Kind(c) /\ cmd'[c].phase = "cleanup"
        /\ cmd'[c].todo = td /\ cmd'[c].saw = found
    BY <2>3 DEF Becoming, Rec, Steps, Kind
  <2>5. OpenForward(c, cmd'[c].phase)
    BY <2>2, <2>4 DEF OpenForward
  <2>6. ClearedOf(cmd'[c], containers') /\ SweptOf(c, cmd'[c], containers', networks')
    BY <2>2, <2>4 DEF ClearedOf, Beyond, Removing, SweptOf
  <2> QED BY <2>2, <2>4, <2>5, <2>6, QuietSurvives
<1>2. CASE Cleanup(c)
  <2>1. PICK name \in cmd[c].todo :
          /\ containers' = Stop(name)
          /\ cmd' = [cmd EXCEPT ![c].todo = @ \ {name}]
    BY <1>2 DEF Cleanup
  <2>2. /\ cmd[c].phase = "cleanup" /\ networks' = networks /\ containers' \subseteq containers
        /\ Kind(c) \in {"smoke", "stop"}
    BY <1>2, <1>a, <2>1, KindOfPhase DEF Cleanup, In
  <2>3. Becoming(c, Rec("cleanup", cmd[c].opt, cmd[c].identity, cmd[c].inst,
                        cmd[c].todo \ {name}, cmd[c].returned, cmd[c].saw))
    BY <2>1, <2>2, TodoRec DEF ConsoleInv
  <2>4. /\ Steps(c) /\ cmd'[c].opt = cmd[c].opt /\ cmd'[c].opt.kind = Kind(c)
        /\ cmd'[c].phase = "cleanup" /\ cmd'[c].identity = cmd[c].identity
        /\ cmd'[c].todo = cmd[c].todo \ {name}
        /\ cmd'[c].returned = cmd[c].returned /\ cmd'[c].saw = cmd[c].saw
    BY <2>3 DEF Becoming, Rec, Steps, Kind
  <2>5. Forward(c, cmd'[c].phase, cmd'[c].identity, cmd'[c].returned)
    BY <2>4 DEF Forward, Past
  <2>6. OpenForward(c, cmd'[c].phase)
    BY <2>2, <2>4 DEF OpenForward
  <2>7. ClearedOf(cmd'[c], containers')
    <3>1. ClearedOf(cmd[c], containers)
      BY SurvivesOf
    <3> QED BY <1>a, <2>1, <2>2, <2>4, <3>1 DEF ClearedOf, Beyond, Removing, Kind
  <2>8. SweptOf(c, cmd'[c], containers', networks')
    <3>1. SweptOf(c, cmd[c], containers, networks)
      BY SurvivesOf
    <3> QED BY <1>a, <2>1, <2>2, <2>4, <3>1 DEF SweptOf, Kind
  <2>9. Kind(c) = "smoke" => \A nm \in cmd'[c].todo \cup cmd'[c].returned : nm[1] = c
    BY <2>4, SurvivesOf
  <2> QED BY <2>2, <2>4, <2>5, <2>6, <2>7, <2>8, <2>9, QuietSurvives
<1>3. CASE Cleaned(c)
  <2> DEFINE ph == IF cmd[c].opt.kind = "smoke" /\ ~cmd[c].opt.keep THEN "remove" ELSE "done"
  <2>1. /\ Goto(c, ph) /\ cmd[c].phase = "cleanup" /\ cmd[c].todo = {}
        /\ containers' = containers /\ networks' = networks /\ Kind(c) \in {"smoke", "stop"}
    BY <1>3, KindOfPhase DEF Cleaned, In
  <2>2. ph \in {"remove", "done"} /\ (Kind(c) = "smoke" /\ ~cmd[c].opt.keep => ph = "remove")
    BY DEF Kind
  <2> HIDE DEF ph
  <2>3. /\ cmd'[c].opt = cmd[c].opt /\ cmd'[c].phase = ph /\ cmd'[c].saw = cmd[c].saw
        /\ cmd'[c].todo = {} /\ cmd'[c].returned = cmd[c].returned
    BY <2>1, GotoFieldsOf
  <2>4. Forward(c, ph, cmd[c].identity, cmd[c].returned) /\ OpenForward(c, ph)
    BY <2>1, <2>2 DEF Forward, Past, Ended, OpenForward
  <2>5. cmd[c].saw \cap containers = {}
    BY <2>1, SurvivesOf DEF ClearedOf, Beyond, Removing, Kind
  <2>6. ClearedOf(cmd'[c], containers')
    BY <2>1, <2>2, <2>3, <2>5 DEF ClearedOf, Removing
  <2>7. SweptOf(c, cmd'[c], containers', networks')
    BY <2>1, <2>2, <2>3, SurvivesOf DEF SweptOf, Kind
  <2> QED BY <2>1, <2>4, <2>6, <2>7, GotoSurvives
<1> QED BY <1>1, <1>2, <1>3

\* With nothing of it left, nothing is attached to the smoke's network.
LEMMA RemoveSurvives ==
    ASSUME ConsoleInv, Survives, NEW c \in Command, panes' = panes, RemoveNetwork(c)
    PROVE  Survives'
<1>1. /\ cmd[c].phase = "remove" /\ Kind(c) = "smoke" /\ cmd[c].inst = c
      /\ containers' = containers /\ Goto(c, "done")
      /\ networks' = {n \in networks : n.inst = c => \E x \in containers : x.net = n.inst}
  <2>1. cmd[c].phase = "remove" /\ Kind(c) = "smoke"
    BY KindOfPhase DEF RemoveNetwork, In
  <2>2. cmd[c].inst = c
    BY <2>1, SurvivesOf
  <2> QED BY <2>1, <2>2 DEF RemoveNetwork
<1>2. /\ cmd'[c].opt = cmd[c].opt /\ cmd'[c].phase = "done" /\ cmd'[c].saw = cmd[c].saw
      /\ cmd'[c].returned = cmd[c].returned
  BY <1>1, GotoFieldsOf
<1>3. Forward(c, "done", cmd[c].identity, cmd[c].returned) /\ OpenForward(c, "done")
  BY DEF Forward, Past, Ended, OpenForward
<1>4. ClearedOf(cmd'[c], containers')
  BY <1>1, <1>2, SurvivesOf DEF ClearedOf, Beyond, Removing
<1>5. SweptOf(c, cmd'[c], containers', networks')
  <2> SUFFICES ASSUME ~cmd[c].opt.keep PROVE SweptOf(c, cmd'[c], containers', networks')
    BY <1>2 DEF SweptOf
  <2>1. \A x \in containers : NameOf(x) \notin cmd[c].returned
    BY <1>1, SurvivesOf DEF SweptOf, Kind
  <2>2. ASSUME cmd[c].returned = {c} \X Identity, NEW x \in containers, x.net = c PROVE FALSE
    <3>1. x.net # Host
      BY <2>2, WorkspaceAssumption
    <3>2. x.by = c
      BY <2>2, <3>1 DEF Survives, Linked
    <3>3. x.inst = c
      <4>1. x.inst = InstanceOf(x.by)
        BY DEF Survives, Owned
      <4> QED BY <1>1, <3>2, <4>1 DEF InstanceOf
    <3>4. x.identity \in Identity
      BY DEF ConsoleInv, SoundBridge
    <3> QED BY <2>1, <2>2, <3>3, <3>4 DEF NameOf
  <2>3. cmd[c].returned = {c} \X Identity => \A n \in networks' : n.inst # c
    BY <1>1, <2>2
  <2> QED BY <1>1, <1>2, <2>1, <2>3 DEF SweptOf
<1>6. \A x \in containers' : \A n \in networks : x.net = n.inst => n \in networks'
  BY <1>1
<1> QED BY <1>1, <1>3, <1>4, <1>5, <1>6, GotoSurvives

\* A console's step that makes no container and opens no pane.
LEMMA ConsoleSurvives ==
    ASSUME ConsoleInv, Survives, NEW c \in Command, Steps(c), cmd'[c].opt.kind = Kind(c),
           Kind(c) \notin {"start", "smoke"}, OpenForward(c, cmd'[c].phase),
           cmd'[c].saw \subseteq containers \cup cmd[c].saw,
           containers' \subseteq containers, panes' \subseteq panes, networks' = networks,
           ClearedOf(cmd'[c], containers')
    PROVE  Survives'
<1>1. SweptOf(c, cmd'[c], containers', networks')
  BY DEF SweptOf
<1> QED BY <1>1, QuietSurvives

\* Such a step that writes nothing but its phase, and forgets nothing it saw.
LEMMA ConsoleGotoSurvives ==
    ASSUME ConsoleInv, Survives, NEW c \in Command, NEW ph, Goto(c, ph),
           Kind(c) \notin {"start", "smoke"}, OpenForward(c, ph),
           containers' \subseteq containers, panes' \subseteq panes, networks' = networks,
           \/ ph \in {"guard", "refused", "failed"}
           \/ cmd[c].saw \cap containers = {} /\ ph # "look" /\ ph \notin {"conflicts", "coms"}
    PROVE  Survives'
<1>1. cmd'[c].phase = ph /\ cmd'[c].saw = cmd[c].saw /\ cmd'[c].opt.kind = Kind(c)
  BY GotoFieldsOf
<1>2. ClearedOf(cmd'[c], containers')
  BY <1>1 DEF ClearedOf, Beyond, Removing
<1>3. SweptOf(c, cmd'[c], containers', networks')
  BY <1>1 DEF SweptOf
<1> QED BY <1>2, <1>3, GotoSurvives

\* A console's first steps: what bears its name, or what it is asked to stop.
LEMMA LooksSurvive ==
    ASSUME ConsoleInv, Survives, NEW c \in Command,
           LookForScenario(c) \/ LookForRig(c) \/ FindScenario(c) \/ FindRig(c)
    PROVE  Survives'
<1>1. /\ UNCHANGED <<containers, networks, panes>> /\ cmd[c].phase = "look"
      /\ Kind(c) \in {"scenario", "rig", "scenario stop", "rig stop"}
  BY DEF LookForScenario, LookForRig, FindScenario, FindRig, consoleVars, In
<1>2. cmd[c].saw = {}
  BY <1>1, SurvivesOf DEF ClearedOf
<1>3. \A ph \in {"record", "done", "guard", "refused"} : OpenForward(c, ph)
  BY <1>1 DEF OpenForward, BeforeOpen, Ended
<1>4. ASSUME NEW ph \in {"record", "done", "guard", "refused"}, Goto(c, ph) PROVE Survives'
  BY <1>1, <1>2, <1>3, <1>4, ConsoleGotoSurvives
<1>5. ASSUME Steps(c), cmd'[c].opt.kind = Kind(c), cmd'[c].phase = "apps", cmd'[c].saw = cmd[c].saw
      PROVE  Survives'
  <2>1. OpenForward(c, cmd'[c].phase)
    BY <1>1, <1>5 DEF OpenForward, BeforeOpen
  <2>2. ClearedOf(cmd'[c], containers')
    BY <1>5 DEF ClearedOf, Beyond, Removing
  <2> QED BY <1>1, <1>5, <2>1, <2>2, ConsoleSurvives
<1>6. CASE LookForScenario(c)
  <2>1. CASE cmd' = [cmd EXCEPT ![c].phase = "apps", ![c].todo = Peers(c), ![c].inst = None]
    <3>1. Becoming(c, Rec("apps", cmd[c].opt, cmd[c].identity, None, Peers(c), cmd[c].returned,
                          cmd[c].saw))
      BY <2>1, PhaseTodoInstRec DEF ConsoleInv
    <3>2. /\ cmd'[c].opt = cmd[c].opt /\ cmd'[c].phase = "apps" /\ cmd'[c].saw = cmd[c].saw
          /\ \A d \in Command : d # c => cmd'[d] = cmd[d]
      BY <3>1 DEF Becoming, Rec
    <3>3. Steps(c) /\ cmd'[c].opt.kind = Kind(c)
      BY <1>1, <3>2 DEF Steps, Kind
    <3> QED BY <1>5, <3>2, <3>3
  <2> QED BY <1>4, <1>6, <2>1 DEF LookForScenario
<1>7. CASE LookForRig(c)
  BY <1>4, <1>7 DEF LookForRig
<1>8. CASE FindScenario(c)
  <2>1. ASSUME NEW name,
               cmd' = [cmd EXCEPT ![c].opt.target = name[1], ![c].opt.identity = name[2],
                                  ![c].todo = {name[2]}, ![c].phase = "apps"]
        PROVE  Survives'
    <3>0. PICK q : q = cmd[c].opt
      OBVIOUS
    <3> DEFINE o1 == [q EXCEPT !.target = name[1]]
               o  == [o1 EXCEPT !.identity = name[2]]
    <3>1. Becoming(c, Rec("apps", o, cmd[c].identity, cmd[c].inst, {name[2]}, cmd[c].returned,
                          cmd[c].saw))
      BY <2>1, <3>0, FoundScenarioRec DEF ConsoleInv
    <3>2. o.kind = Kind(c)
      <4>1. WholeOption(o1) /\ o1.kind = Kind(c)
        <5>1. WholeOption(q) /\ q.kind = Kind(c)
          BY <3>0 DEF ConsoleInv, Shaped, Whole, Kind
        <5> QED BY <5>1, OptionTarget
      <4> HIDE DEF o1
      <4> QED BY <4>1, OptionPeer
    <3> HIDE DEF o
    <3>3. /\ cmd'[c].opt.kind = Kind(c) /\ cmd'[c].phase = "apps" /\ cmd'[c].saw = cmd[c].saw
          /\ \A d \in Command : d # c => cmd'[d] = cmd[d]
      BY <3>1, <3>2 DEF Becoming, Rec
    <3>4. Steps(c)
      BY <1>8, <3>3 DEF Steps, Makers, FindScenario
    <3> QED BY <1>5, <3>3, <3>4
  <2> QED BY <1>4, <1>8, <2>1 DEF FindScenario
<1>9. CASE FindRig(c)
  <2>1. ASSUME NEW inst, NEW target,
               cmd' = [cmd EXCEPT ![c].inst = inst, ![c].opt.target = target, ![c].todo = Identity,
                                  ![c].returned = Bridges(inst), ![c].phase = "apps"]
        PROVE  Survives'
    <3>0. PICK q : q = cmd[c].opt
      OBVIOUS
    <3> DEFINE o == [q EXCEPT !.target = target]
    <3>1. Becoming(c, Rec("apps", o, cmd[c].identity, inst, Identity, Bridges(inst), cmd[c].saw))
      BY <2>1, <3>0, FoundRigRec DEF ConsoleInv
    <3>2. o.kind = Kind(c)
      <4>1. WholeOption(q) /\ q.kind = Kind(c)
        BY <3>0 DEF ConsoleInv, Shaped, Whole, Kind
      <4> QED BY <4>1, OptionTarget
    <3> HIDE DEF o
    <3>3. /\ cmd'[c].opt.kind = Kind(c) /\ cmd'[c].phase = "apps" /\ cmd'[c].saw = cmd[c].saw
          /\ \A d \in Command : d # c => cmd'[d] = cmd[d]
      BY <3>1, <3>2 DEF Becoming, Rec
    <3>4. Steps(c)
      BY <1>9, <3>3 DEF Steps, Makers, FindRig
    <3> QED BY <1>5, <3>3, <3>4
  <2> QED BY <1>4, <1>9, <2>1 DEF FindRig
<1> QED BY <1>6, <1>7, <1>8, <1>9

\* Taking a console down: the containers are listed, and stopped by their names,
\* before anything else is.
LEMMA TakingDownSurvives ==
    ASSUME ConsoleInv, Survives, NEW c \in Command,
           \/ StopApp(c) \/ ListComs(c) \/ StopCom(c) \/ KillSession(c)
           \/ RemoveNetworks(c) \/ MarkStopped(c)
    PROVE  Survives'
<1>1. CASE StopApp(c)
  <2>1. PICK p \in cmd[c].todo : cmd' = [cmd EXCEPT ![c].todo = @ \ {p}]
    BY <1>1 DEF StopApp
  <2>2. /\ UNCHANGED <<containers, networks, panes>> /\ cmd[c].phase = "apps"
        /\ Kind(c) \in {"scenario", "scenario stop", "rig stop"}
    BY <1>1, KindOfPhase DEF StopApp, In
  <2>3. Becoming(c, Rec("apps", cmd[c].opt, cmd[c].identity, cmd[c].inst, cmd[c].todo \ {p},
                        cmd[c].returned, cmd[c].saw))
    BY <2>1, <2>2, TodoRec DEF ConsoleInv
  <2>4. Steps(c) /\ cmd'[c].opt.kind = Kind(c) /\ cmd'[c].phase = "apps" /\ cmd'[c].saw = cmd[c].saw
    BY <2>3 DEF Becoming, Rec, Steps, Kind
  <2>5. OpenForward(c, cmd'[c].phase) /\ ClearedOf(cmd'[c], containers')
    BY <2>2, <2>4 DEF OpenForward, BeforeOpen, ClearedOf, Beyond, Removing
  <2> QED BY <2>2, <2>4, <2>5, ConsoleSurvives
<1>2. CASE ListComs(c)
  <2> DEFINE names == IF OfRig(c) THEN cmd[c].returned ELSE ComNames(None, Peers(c))
             sw == {x \in containers : NameOf(x) \in names}
  <2>1. cmd' = [cmd EXCEPT ![c].phase = "coms", ![c].todo = names, ![c].saw = sw]
    BY <1>2 DEF ListComs
  <2>2. /\ UNCHANGED <<containers, networks, panes>> /\ cmd[c].phase = "apps"
        /\ Kind(c) \in {"scenario", "scenario stop", "rig stop"}
    BY <1>2, KindOfPhase DEF ListComs, In, consoleVars
  <2>3. sw \subseteq containers /\ \A x \in sw : NameOf(x) \in names
    OBVIOUS
  <2> HIDE DEF names, sw
  <2>4. Becoming(c, Rec("coms", cmd[c].opt, cmd[c].identity, cmd[c].inst, names,
                        cmd[c].returned, sw))
    BY <2>1, PhaseTodoSawRec DEF ConsoleInv
  <2>5. /\ Steps(c) /\ cmd'[c].opt.kind = Kind(c) /\ cmd'[c].phase = "coms"
        /\ cmd'[c].todo = names /\ cmd'[c].saw = sw
    BY <2>4 DEF Becoming, Rec, Steps, Kind
  <2>6. OpenForward(c, cmd'[c].phase)
    BY <2>2, <2>5 DEF OpenForward, BeforeOpen
  <2>7. ClearedOf(cmd'[c], containers')
    BY <2>3, <2>5 DEF ClearedOf, Beyond, Removing
  <2> QED BY <2>2, <2>3, <2>5, <2>6, <2>7, ConsoleSurvives
<1>3. CASE StopCom(c)
  <2>1. PICK name \in cmd[c].todo :
          /\ containers' = Stop(name)
          /\ cmd' = [cmd EXCEPT ![c].todo = @ \ {name}]
    BY <1>3 DEF StopCom
  <2>2. /\ UNCHANGED <<networks, panes>> /\ cmd[c].phase = "coms"
        /\ Kind(c) \in {"scenario", "scenario stop", "rig stop"}
    BY <1>3, KindOfPhase DEF StopCom, In, consoleVars
  <2>3. containers' = {x \in containers : NameOf(x) # name}
    BY <2>1 DEF Stop
  <2>4. Becoming(c, Rec("coms", cmd[c].opt, cmd[c].identity, cmd[c].inst, cmd[c].todo \ {name},
                        cmd[c].returned, cmd[c].saw))
    BY <2>1, <2>2, TodoRec DEF ConsoleInv
  <2>5. /\ Steps(c) /\ cmd'[c].opt.kind = Kind(c) /\ cmd'[c].phase = "coms"
        /\ cmd'[c].todo = cmd[c].todo \ {name} /\ cmd'[c].saw = cmd[c].saw
    BY <2>4 DEF Becoming, Rec, Steps, Kind
  <2>6. OpenForward(c, cmd'[c].phase)
    BY <2>2, <2>5 DEF OpenForward, BeforeOpen
  <2>7. ClearedOf(cmd'[c], containers')
    <3>1. \A x \in cmd[c].saw \cap containers : NameOf(x) \in cmd[c].todo
      BY <2>2, SurvivesOf DEF ClearedOf
    <3> QED BY <2>3, <2>5, <3>1 DEF ClearedOf, Beyond, Removing
  <2> QED BY <2>2, <2>3, <2>5, <2>6, <2>7, ConsoleSurvives
<1>4. CASE KillSession(c)
  <2>1. /\ networks' = networks /\ cmd[c].phase = "coms" /\ cmd[c].todo = {}
        /\ containers' \subseteq containers /\ panes' \subseteq panes
        /\ Kind(c) \in {"scenario", "scenario stop", "rig stop"}
    BY <1>4, KindOfPhase DEF KillSession, In
  <2>2. cmd[c].saw \cap containers = {}
    BY <2>1, SurvivesOf DEF ClearedOf
  <2>3. CASE Kind(c) = "scenario"
    <3>1. cmd' = [cmd EXCEPT ![c].phase = "record", ![c].inst = c]
      BY <1>4, <2>3 DEF KillSession
    <3>2. Becoming(c, Rec("record", cmd[c].opt, cmd[c].identity, c, cmd[c].todo, cmd[c].returned,
                          cmd[c].saw))
      BY <3>1, PhaseInstRec DEF ConsoleInv
    <3>3. /\ Steps(c) /\ cmd'[c].opt.kind = Kind(c) /\ cmd'[c].phase = "record"
          /\ cmd'[c].saw = cmd[c].saw
      BY <2>3, <3>2 DEF Becoming, Rec, Steps, Kind
    <3>4. OpenForward(c, cmd'[c].phase) /\ ClearedOf(cmd'[c], containers')
      BY <2>1, <2>2, <3>3 DEF OpenForward, BeforeOpen, ClearedOf, Beyond, Removing
    <3> QED BY <2>1, <3>3, <3>4, ConsoleSurvives
  <2>4. CASE Kind(c) # "scenario"
    <3>1. PICK ph \in {"unnet", "mark"} : Goto(c, ph)
      BY <1>4, <2>4 DEF KillSession
    <3>2. OpenForward(c, ph)
      BY <2>1, <2>4 DEF OpenForward
    <3> QED BY <2>1, <2>2, <3>1, <3>2, ConsoleGotoSurvives
  <2> QED BY <2>3, <2>4
<1>5. CASE RemoveNetworks(c)
  <2>1. /\ containers' = containers /\ panes' = panes /\ networks' \subseteq networks
        /\ cmd[c].phase = "unnet" /\ Goto(c, "mark") /\ Kind(c) = "rig stop"
        /\ \A n \in networks : (\E x \in containers : x.net = n.inst) => n \in networks'
    BY <1>5, KindOfPhase DEF RemoveNetworks, In, consoleVars
  <2>2. cmd'[c].phase = "mark" /\ cmd'[c].saw = cmd[c].saw /\ cmd'[c].opt.kind = Kind(c)
    BY <2>1, GotoFieldsOf
  <2>3. OpenForward(c, "mark") /\ ClearedOf(cmd'[c], containers')
    BY <2>1, <2>2, SurvivesOf DEF OpenForward, ClearedOf, Beyond, Removing
  <2>4. SweptOf(c, cmd'[c], containers', networks')
    BY <2>1, <2>2 DEF SweptOf
  <2> QED BY <2>1, <2>3, <2>4, GotoSurvives
<1>6. CASE MarkStopped(c)
  <2>1. /\ UNCHANGED <<containers, networks, panes>> /\ cmd[c].phase = "mark"
        /\ Goto(c, "done") /\ Kind(c) \in {"scenario stop", "rig stop"}
    BY <1>6, KindOfPhase DEF MarkStopped, In
  <2>2. OpenForward(c, "done") /\ cmd[c].saw \cap containers = {}
    BY <2>1, SurvivesOf DEF OpenForward, Ended, ClearedOf
  <2> QED BY <2>1, <2>2, ConsoleGotoSurvives
<1> QED BY <1>1, <1>2, <1>3, <1>4, <1>5, <1>6

\* The steps around the windows of a console.
LEMMA OpensAround ==
    ASSUME ConsoleInv, Survives, NEW c \in Command,
           RecordRun(c) \/ NoSession(c) \/ Opened(c) \/ ScenarioReady(c)
    PROVE  Survives'
<1>1. /\ UNCHANGED <<containers, networks, panes>>
      /\ cmd[c].phase \in {"record", "tag", "windows", "ready"}
      /\ Kind(c) \in {"scenario", "rig"}
  BY KindOfPhase DEF RecordRun, NoSession, Opened, ScenarioReady, consoleVars, In, Opens
<1>2. cmd[c].saw \cap containers = {}
  BY <1>1, SurvivesOf DEF ClearedOf
<1>3. PICK ph : Goto(c, ph) /\ \/ ph \in {"done", "failed"}
                               \/ ph = "open" /\ cmd[c].phase = "record"
                               \/ ph = "ready" /\ cmd[c].phase = "windows"
  BY DEF RecordRun, NoSession, Opened, ScenarioReady, In
<1>4. OpenForward(c, ph)
  BY <1>3 DEF OpenForward, BeforeOpen, Ended
<1> QED BY <1>1, <1>2, <1>3, <1>4, ConsoleGotoSurvives

\* A console's step that opens a pane or lists the windows to open.
LEMMA OpensSurvive ==
    ASSUME ConsoleInv, Survives, NEW c \in Command, Steps(c), cmd'[c].opt.kind = Kind(c),
           Kind(c) \in {"scenario", "rig"}, OnceOf(c, cmd'[c], panes'),
           \A q \in panes' : q \in panes \/ q.inst = c,
           \A p : YetOf(c, cmd'[c], panes', p) => YetOf(c, cmd[c], panes, p),
           cmd[c].phase \in {"open", "tag", "windows"},
           cmd'[c].phase \in {"tag", "windows"}, cmd'[c].saw = cmd[c].saw,
           containers' = containers, networks' = networks
    PROVE  Survives'
<1>1. RunsEachOnce(cmd'[c])
  BY DEF RunsEachOnce
<1>2. ClearedOf(cmd'[c], containers')
  <2>1. cmd[c].saw \cap containers = {}
    BY SurvivesOf DEF ClearedOf
  <2> QED BY <2>1 DEF ClearedOf, Removing
<1>3. SweptOf(c, cmd'[c], containers', networks')
  BY DEF SweptOf
<1>4. /\ ~(Kind(c) # "start" /\ cmd'[c].opt.kind = "start")
      /\ cmd'[c].opt.kind # "smoke" /\ Kind(c) \notin {"start", "smoke"}
  OBVIOUS
<1> QED BY <1>1, <1>2, <1>3, <1>4, StepSurvives

\* The session opens with the console's first bridge.
LEMMA OpenSessionSurvives ==
    ASSUME ConsoleInv, Survives, NEW c \in Command, OpenSession(c)
    PROVE  Survives'
<1>1. /\ UNCHANGED <<containers, networks>> /\ cmd[c].phase = "open"
      /\ Kind(c) \in {"scenario", "rig"}
  BY KindOfPhase DEF OpenSession, In, Opens
<1>2. CASE Goto(c, "failed") /\ panes' = panes
  <2>1. OpenForward(c, "failed")
    BY DEF OpenForward, Ended
  <2> QED BY <1>1, <1>2, <2>1, ConsoleGotoSurvives
<1>3. CASE /\ Goto(c, "tag")
           /\ panes' = panes \cup {IF OfRig(c) THEN RigPane(c) ELSE ScenarioPane(c)}
  <2>1. PICK p : /\ panes' = panes \cup {p} /\ p.inst = c /\ ~p.app
                 /\ Kind(c) = "rig" => p.identity = FirstPeer
    <3>1. PICK p : /\ panes' = panes \cup {p}
                   /\ p = IF OfRig(c) THEN RigPane(c) ELSE ScenarioPane(c)
      BY <1>3
    <3>2. p.inst = c /\ ~p.app
      BY <3>1 DEF RigPane, ScenarioPane, Pane
    <3>3. Kind(c) = "rig" => p.identity = FirstPeer
      BY <3>1 DEF RigPane, Pane, OfRig
    <3> QED BY <3>1, <3>2, <3>3
  <2>2. /\ Steps(c) /\ cmd'[c].opt.kind = Kind(c) /\ cmd'[c].phase = "tag"
        /\ cmd'[c].saw = cmd[c].saw
    BY <1>3, GotoFieldsOf
  <2>3. Mine(c, panes) = {}
    BY <1>1, SurvivesOf DEF OnceOf, Ended
  <2>4. Mine(c, panes') = {p}
    BY <2>1, <2>3 DEF Mine
  <2>5. OnceOf(c, cmd'[c], panes')
    BY <1>1, <2>1, <2>2, <2>4 DEF OnceOf
  <2>6. \A i : YetOf(c, cmd[c], panes, i)
    BY <1>1 DEF YetOf, BeforeOpen
  <2> QED BY <1>1, <2>1, <2>2, <2>5, <2>6, OpensSurvive
<1> QED BY <1>2, <1>3 DEF OpenSession

\* The windows to open: a rig's bridge of the other peer, the applications.
LEMMA TagSurvives ==
    ASSUME ConsoleInv, Survives, NEW c \in Command, TagSession(c)
    PROVE  Survives'
<1> DEFINE td == IF OfRig(c) THEN RigWindows(c) ELSE ScenarioWindows(c)
<1>1. /\ UNCHANGED <<containers, networks, panes>> /\ cmd[c].phase = "tag"
      /\ Kind(c) \in {"scenario", "rig"}
      /\ cmd' = [cmd EXCEPT ![c].phase = "windows", ![c].todo = td]
  BY KindOfPhase DEF TagSession, In, Opens
<1>2. \A w \in td : /\ w.inst = c
                    /\ ~w.app => /\ Kind(c) = "rig" /\ w.identity # FirstPeer
                                 /\ w = Pane(c, w.identity, FALSE, "spec")
  <2> SUFFICES ASSUME NEW w \in td
               PROVE  /\ w.inst = c
                      /\ ~w.app => /\ Kind(c) = "rig" /\ w.identity # FirstPeer
                                   /\ w = Pane(c, w.identity, FALSE, "spec")
    OBVIOUS
  <2>1. \/ \E p : w = Pane(c, p, TRUE, "run") \/ w = Pane(c, p, TRUE, "spec")
        \/ OfRig(c) /\ \E p \in Identity \ {FirstPeer} : w = Pane(c, p, FALSE, "spec")
    BY DEF RigWindows, ScenarioWindows
  <2>2. CASE \E p : w = Pane(c, p, TRUE, "run") \/ w = Pane(c, p, TRUE, "spec")
    BY <2>2 DEF Pane
  <2>3. ASSUME OfRig(c), NEW p \in Identity \ {FirstPeer}, w = Pane(c, p, FALSE, "spec")
        PROVE  w.inst = c /\ Kind(c) = "rig" /\ w.identity = p
    BY <1>1, <2>3 DEF Pane, OfRig
  <2> QED BY <2>1, <2>2, <2>3
<1> HIDE DEF td
<1>3. Becoming(c, Rec("windows", cmd[c].opt, cmd[c].identity, cmd[c].inst, td, cmd[c].returned,
                      cmd[c].saw))
  BY <1>1, PhaseTodoRec DEF ConsoleInv
<1>4. /\ Steps(c) /\ cmd'[c].opt.kind = Kind(c) /\ cmd'[c].phase = "windows"
      /\ cmd'[c].todo = td /\ cmd'[c].saw = cmd[c].saw
  BY <1>3 DEF Becoming, Rec, Steps, Kind
<1>5. OnceOf(c, cmd[c], panes) /\ Kind(c) = cmd[c].opt.kind
  BY SurvivesOf DEF Kind
<1>6. OnceOf(c, cmd'[c], panes')
  <2>1. /\ Mine(c, panes') = Mine(c, panes)
        /\ \A q \in Mine(c, panes) : \A v \in Mine(c, panes) : q.identity = v.identity => q = v
        /\ Kind(c) = "rig" => \A q \in Mine(c, panes) : q.identity = FirstPeer
    BY <1>1, <1>5 DEF OnceOf
  <2>2. ASSUME NEW w \in td, NEW v \in td, ~w.app, ~v.app, v.identity = w.identity PROVE v = w
    BY <1>2, <2>2
  <2>3. \A w \in cmd'[c].todo :
            /\ w.inst = c
            /\ ~w.app => /\ \A q \in Mine(c, panes') : q.identity # w.identity
                         /\ \A v \in cmd'[c].todo : ~v.app /\ v.identity = w.identity => v = w
    BY <1>2, <1>4, <2>1, <2>2
  <2> QED BY <1>1, <1>4, <2>1, <2>3 DEF OnceOf
<1>7. \A p : YetOf(c, cmd'[c], panes', p) => YetOf(c, cmd[c], panes, p)
  BY <1>1, <1>2, <1>4, <1>5 DEF YetOf, BeforeOpen
<1> QED BY <1>1, <1>4, <1>6, <1>7, OpensSurvive

\* A window opens, and is no longer to open.
LEMMA WindowSurvives ==
    ASSUME ConsoleInv, Survives, NEW c \in Command, NewWindow(c)
    PROVE  Survives'
<1>1. PICK p \in cmd[c].todo : /\ panes' = panes \cup {p}
                               /\ cmd' = [cmd EXCEPT ![c].todo = @ \ {p}]
  BY DEF NewWindow
<1>2. /\ UNCHANGED <<containers, networks>> /\ cmd[c].phase = "windows"
      /\ Kind(c) \in {"scenario", "rig"}
  BY KindOfPhase DEF NewWindow, In, Opens
<1>3. Becoming(c, Rec("windows", cmd[c].opt, cmd[c].identity, cmd[c].inst, cmd[c].todo \ {p},
                      cmd[c].returned, cmd[c].saw))
  BY <1>1, <1>2, TodoRec DEF ConsoleInv
<1>4. /\ Steps(c) /\ cmd'[c].opt.kind = Kind(c) /\ cmd'[c].phase = "windows"
      /\ cmd'[c].todo = cmd[c].todo \ {p} /\ cmd'[c].saw = cmd[c].saw
  BY <1>3 DEF Becoming, Rec, Steps, Kind
<1>5. /\ \A q \in Mine(c, panes) : \A r \in Mine(c, panes) : q.identity = r.identity => q = r
      /\ \A w \in cmd[c].todo :
            /\ w.inst = c
            /\ ~w.app => /\ \A q \in Mine(c, panes) : q.identity # w.identity
                         /\ \A v \in cmd[c].todo : ~v.app /\ v.identity = w.identity => v = w
  BY <1>2, SurvivesOf DEF OnceOf
<1>6. Mine(c, panes') = Mine(c, panes) \cup {q \in {p} : ~p.app}
  BY <1>1, <1>5 DEF Mine
<1>7. OnceOf(c, cmd'[c], panes')
  <2>1. \A q \in Mine(c, panes') : \A r \in Mine(c, panes') : q.identity = r.identity => q = r
    BY <1>5, <1>6
  <2>2. \A w \in cmd'[c].todo :
            /\ w.inst = c
            /\ ~w.app => /\ \A q \in Mine(c, panes') : q.identity # w.identity
                         /\ \A v \in cmd'[c].todo : ~v.app /\ v.identity = w.identity => v = w
    BY <1>4, <1>5, <1>6
  <2> QED BY <1>2, <1>4, <2>1, <2>2 DEF OnceOf
<1>8. \A i : YetOf(c, cmd'[c], panes', i) => YetOf(c, cmd[c], panes, i)
  BY <1>2, <1>4, <1>6 DEF YetOf, BeforeOpen
<1>9. \A q \in panes' : q \in panes \/ q.inst = c
  BY <1>1, <1>5
<1> QED BY <1>2, <1>4, <1>7, <1>8, <1>9, OpensSurvive

\* A start joins the instance of a start; a smoke and a console open their own.
LEMMA IssueSurvives ==
    ASSUME ConsoleInv, Survives, NEW c \in Command, UNCHANGED <<containers, networks, panes>>,
           In(c, "idle"), NEW r, Becoming(c, r),
           r.phase \in {"list", "guard", "look"}, r.todo = {}, r.returned = {}, r.saw = {},
           r.opt.kind = "start" =>
               r.inst = c \/ \E d \in Command : Kind(d) = "start" /\ r.inst = cmd[d].inst,
           r.opt.kind = "smoke" => r.inst = c
    PROVE  Survives'
<1>1. Kind(c) = "stop" /\ cmd'[c] = r /\ Steps(c)
  BY KindOfPhase DEF Becoming, Steps, Makers
<1>2. r.opt.kind = "start" => cmd'[r.inst].opt.kind = "start"
  <2>1. CASE r.inst = c
    BY <1>1, <2>1
  <2>2. ASSUME NEW d \in Command, Kind(d) = "start", r.inst = cmd[d].inst
        PROVE  cmd'[r.inst].opt.kind = "start"
    <3>1. cmd[d].inst \in Command /\ Kind(cmd[d].inst) = "start"
      BY <2>2 DEF ConsoleInv, Sound, Kind, Survives, Owned
    <3>2. PICK i \in Command : i = cmd[d].inst
      BY <3>1
    <3>3. i # c /\ cmd'[i] = cmd[i]
      BY <1>1, <3>1, <3>2 DEF Steps
    <3> QED BY <2>2, <3>1, <3>2, <3>3 DEF Kind
  <2> QED BY <2>1, <2>2
<1>3. OnceOf(c, cmd'[c], panes')
  <2>1. Mine(c, panes) = {}
    BY <1>1, SurvivesOf DEF OnceOf, Kind
  <2> QED BY <1>1, <2>1 DEF OnceOf
<1>4. /\ RunsEachOnce(cmd'[c]) /\ ClearedOf(cmd'[c], containers')
      /\ SweptOf(c, cmd'[c], containers', networks')
  BY <1>1 DEF RunsEachOnce, ClearedOf, SweptOf, Beyond, Removing
<1> QED BY <1>1, <1>2, <1>3, <1>4, StepSurvives

\* The records commands and consoles are issued with.
LEMMA IssuesSurvive ==
    ASSUME ConsoleInv, Survives, NEW c \in Command,
           \/ \E o \in Options[c] : Issue(c, o) /\ UNCHANGED consoleVars
           \/ \E o \in ConsoleOptions[c] : IssueConsole(c, o)
    PROVE  Survives'
<1>1. ASSUME NEW o \in Options[c], Issue(c, o), UNCHANGED consoleVars PROVE Survives'
  <2>1. PICK inst : /\ o.join => \E d \in Command : Kind(d) = "start" /\ inst = cmd[d].inst
                    /\ ~o.join => inst = c
                    /\ cmd' = [cmd EXCEPT ![c] =
                          [phase |-> IF o.kind = "smoke" THEN "guard" ELSE "list", opt |-> o,
                           identity |-> o.identity, inst |-> inst,
                           todo |-> {}, returned |-> {}, saw |-> {}]]
    BY <1>1 DEF Issue, Kind
  <2>2. PICK ph : ph = IF o.kind = "smoke" THEN "guard" ELSE "list"
    OBVIOUS
  <2>3. PICK r : r = Rec(ph, o, o.identity, inst, {}, {}, {})
    OBVIOUS
  <2>4. Becoming(c, r)
    BY <2>1, <2>2, <2>3, Replaced DEF ConsoleInv, Rec
  <2>5. /\ r.phase = ph /\ r.opt = o /\ r.inst = inst
        /\ r.todo = {} /\ r.returned = {} /\ r.saw = {}
    BY <2>3 DEF Rec
  <2>6. o.join \in BOOLEAN /\ (o.join => o.kind = "start")
    <3>1. o \in Option /\ (o.join => o.kind = "start")
      BY DEF WorkspaceAssumption
    <3> QED BY <3>1 DEF Option
  <2>7. UNCHANGED <<containers, networks, panes>> /\ In(c, "idle")
    BY <1>1 DEF Issue, consoleVars
  <2>8. r.opt.kind = "start" =>
               r.inst = c \/ \E d \in Command : Kind(d) = "start" /\ r.inst = cmd[d].inst
    BY <2>1, <2>5, <2>6
  <2>9. r.opt.kind = "smoke" => r.inst = c
    BY <2>1, <2>5, <2>6
  <2> QED BY <2>2, <2>4, <2>5, <2>7, <2>8, <2>9, IssueSurvives
<1>2. ASSUME NEW o \in ConsoleOptions[c], IssueConsole(c, o) PROVE Survives'
  <2>1. PICK inst : inst = IF o.kind \in {"scenario", "rig"} THEN c ELSE None
    OBVIOUS
  <2>2. PICK r : r = [NotIssued EXCEPT !.phase = "look", !.opt = o, !.identity = o.identity,
                                       !.inst = inst]
    OBVIOUS
  <2>3. Becoming(c, r)
    BY <1>2, <2>1, <2>2, Replaced DEF ConsoleInv, IssueConsole
  <2>4. /\ r.phase = "look" /\ r.opt = o
        /\ r.todo = {} /\ r.returned = {} /\ r.saw = {}
    <3>1. PICK n : n = NotIssued /\ n.todo = {} /\ n.returned = {} /\ n.saw = {}
                   /\ n = Rec("idle", NoOption, None, None, {}, {}, {})
      BY DEF NotIssued, Rec
    <3>2. r = [n EXCEPT !.phase = "look", !.opt = o, !.identity = o.identity, !.inst = inst]
      BY <2>2, <3>1
    <3> QED BY <3>1, <3>2 DEF Rec
  <2>5. o.kind \notin {"start", "smoke"}
    BY DEF TmuxRunsAssumption, ConsoleOption
  <2>6. UNCHANGED <<containers, networks, panes>> /\ In(c, "idle")
    BY <1>2 DEF IssueConsole, consoleVars
  <2> QED BY <2>3, <2>4, <2>5, <2>6, IssueSurvives
<1> QED BY <1>1, <1>2

\* What a pane's step changes: the pane itself, and by docker run the bridge of
\* its peer, on a network of its console that exists.
SamePane(p, q) == q.inst = p.inst /\ q.identity = p.identity /\ q.app = p.app

RunOf(p, new) ==
    /\ new.inst = p.inst /\ new.identity = p.identity /\ new.by = p.inst
    /\ \/ new.net = Host
       \/ new.net = p.inst /\ \E n \in networks : n.inst = p.inst

LEMMA PaneMoves ==
    ASSUME ConsoleInv, NEW p \in panes, PaneStep(p)
    PROVE  /\ p.at # "up" /\ cmd' = cmd /\ networks' = networks
           /\ \E q : /\ SamePane(p, q) /\ panes' \subseteq (panes \ {p}) \cup {q}
                     /\ \/ containers' \subseteq containers
                        \/ ~p.app /\ q.at = "up"
                           /\ \E new : RunOf(p, new) /\ containers' = containers \cup {new}
<1> DEFINE Kept(q) == SamePane(p, q) /\ panes' \subseteq (panes \ {p}) \cup {q}
<1>1. cmd' = cmd /\ networks' = networks
  BY DEF PaneStep
<1>2. p = [session |-> p.session, inst |-> p.inst, target |-> p.target,
           identity |-> p.identity, app |-> p.app, at |-> p.at, todo |-> p.todo]
  BY DEF ConsoleInv, SoundPane, WholePane
<1>3. \A at, q : q = [p EXCEPT !.at = at] => SamePane(p, q) /\ q.at = at
  BY <1>2 DEF SamePane
<1>4. \A td, q : q = [p EXCEPT !.todo = td] => SamePane(p, q)
  BY <1>2 DEF SamePane
<1>5. \A td, q : q = [p EXCEPT !.at = "run", !.todo = td] => SamePane(p, q)
  BY <1>2 DEF SamePane
<1>6. \A q : SamePane(p, q) /\ Move(p, q) => Kept(q)
  BY DEF Move
<1>7. panes' = panes \ {p} => Kept(p)
  BY DEF SamePane
<1>8. CASE PaneList(p)
  <2>1. PICK td : panes' = panes \ {p} \/ Move(p, [p EXCEPT !.at = "run", !.todo = td])
    BY <1>8 DEF PaneList
  <2>2. \E q : Kept(q)
    BY <1>5, <1>6, <1>7, <2>1
  <2>3. p.at # "up" /\ containers' = containers
    BY <1>8 DEF PaneList
  <2> QED BY <1>1, <2>2, <2>3
<1>9. CASE PaneStopConflict(p)
  <2>1. PICK name \in p.todo : /\ containers' = Stop(name)
                               /\ Move(p, [p EXCEPT !.todo = p.todo \ {name}])
    BY <1>9, <1>2 DEF PaneStopConflict
  <2>2. \E q : Kept(q)
    BY <1>4, <1>6, <2>1
  <2>3. p.at # "up" /\ containers' \subseteq containers
    BY <1>9, <2>1 DEF PaneStopConflict, Stop
  <2> QED BY <1>1, <2>2, <2>3
<1>10. CASE PaneRun(p)
  <2> DEFINE rig == p.session[1] = "rig"
             new == [inst |-> p.inst, identity |-> p.identity,
                     net |-> IF rig THEN p.inst ELSE Host, by |-> p.inst]
  <2>1. p.at = "run" /\ ~p.app
    BY <1>10 DEF PaneRun
  <2>2. CASE panes' = panes \ {p} /\ containers' = containers
    BY <1>1, <1>7, <2>1, <2>2
  <2>3. CASE /\ ~(rig /\ \A n \in networks : n.inst # p.inst)
             /\ containers' = containers \cup {new} /\ Move(p, [p EXCEPT !.at = "up"])
    <3>1. RunOf(p, new)
      BY <2>3 DEF RunOf
    <3> HIDE DEF new
    <3>2. PICK q : q = [p EXCEPT !.at = "up"]
      OBVIOUS
    <3>3. Kept(q) /\ q.at = "up"
      BY <1>3, <1>6, <2>3, <3>2
    <3> QED BY <1>1, <2>1, <2>3, <3>1, <3>3
  <2> QED BY <1>10, <2>2, <2>3 DEF PaneRun
<1>11. CASE PaneWait(p) \/ PaneBridge(p) \/ PaneRunApp(p)
  <2>1. PICK at : panes' = panes \ {p} \/ Move(p, [p EXCEPT !.at = at])
    BY <1>11 DEF PaneWait, PaneBridge, PaneRunApp
  <2>2. \E q : Kept(q)
    BY <1>3, <1>6, <1>7, <2>1
  <2>3. p.at # "up" /\ containers' = containers
    BY <1>11 DEF PaneWait, PaneBridge, PaneRunApp
  <2> QED BY <1>1, <2>2, <2>3
<1> QED BY <1>8, <1>9, <1>10, <1>11 DEF PaneStep

\* A pane makes its bridge once: none of its peer is open beside it, or to open.
LEMMA PanesSurvive ==
    ASSUME ConsoleInv, Survives, NEW p \in panes, PaneStep(p)
    PROVE  Survives'
<1>1. PICK q : /\ SamePane(p, q) /\ panes' \subseteq (panes \ {p}) \cup {q}
               /\ \/ containers' \subseteq containers
                  \/ ~p.app /\ q.at = "up"
                     /\ \E new : RunOf(p, new) /\ containers' = containers \cup {new}
  BY PaneMoves
<1>2. p.at # "up" /\ cmd' = cmd /\ networks' = networks
  BY PaneMoves
<1>3. PICK c \in Command : c = p.inst
  BY DEF ConsoleInv, SoundPane
<1>4. ASSUME NEW d PROVE \A m \in Mine(d, panes') :
                            \/ m \in Mine(d, panes) /\ m # p
                            \/ m = q /\ p \in Mine(d, panes) /\ q.identity = p.identity
  BY <1>1 DEF Mine, SamePane
<1>5. ASSUME NEW d \in Command PROVE OnceOf(d, cmd[d], panes')
  <2>0. OnceOf(d, cmd[d], panes)
    BY SurvivesOf
  <2>1. \A m \in Mine(d, panes') : \E m0 \in Mine(d, panes) : m0.identity = m.identity
    BY <1>4
  <2>2. \A m \in Mine(d, panes') : \A k \in Mine(d, panes') : m.identity = k.identity => m = k
    BY <1>4, <2>0 DEF OnceOf
  <2>3. Mine(d, panes') # {} => Mine(d, panes) # {}
    BY <2>1
  <2> QED BY <2>0, <2>1, <2>2, <2>3 DEF OnceOf
<1>6. ASSUME NEW d, NEW i, YetOf(d, cmd[d], panes', i) PROVE YetOf(d, cmd[d], panes, i)
  BY <1>2, <1>4, <1>6 DEF YetOf
<1>7. ASSUME NEW x, Behind(x) PROVE x.by \in Command /\ BehindOf(cmd'[x.by], panes', x)
  BY <1>2, <1>6, <1>7 DEF Behind, BehindOf
<1>8. ASSUME NEW x \in containers' \ containers
      PROVE  /\ ~p.app /\ q.at = "up" /\ RunOf(p, x) /\ x.by = c
             /\ Kind(c) \in {"scenario", "rig"} /\ p \in Mine(c, panes)
  <2>1. ~p.app /\ q.at = "up" /\ RunOf(p, x)
    BY <1>1, <1>8
  <2>2. p \in Mine(c, panes)
    BY <1>3, <2>1 DEF Mine
  <2>3. Kind(c) \in {"scenario", "rig"}
    BY <2>2, SurvivesOf DEF OnceOf, Kind
  <2> QED BY <1>3, <2>1, <2>2, <2>3 DEF RunOf
<1>9. ASSUME NEW x \in containers' \ containers PROVE ~Behind(x) /\ BehindOf(cmd'[c], panes', x)
  <2>1. /\ ~p.app /\ q.at = "up" /\ x.by = c /\ x.identity = p.identity
        /\ Kind(c) \in {"scenario", "rig"} /\ p \in Mine(c, panes)
    BY <1>8, <1>9 DEF RunOf
  <2>2. YetOf(c, cmd[c], panes, x.identity)
    BY <1>2, <2>1 DEF YetOf
  <2>3. ~YetOf(c, cmd[c], panes', x.identity)
    <3>0. OnceOf(c, cmd[c], panes)
      BY SurvivesOf
    <3>1. cmd[c].phase \in {"tag", "windows", "ready"} \cup Ended
      BY <2>1, <3>0 DEF OnceOf
    <3>2. cmd[c].phase \notin BeforeOpen
      BY <3>1 DEF BeforeOpen, Ended
    <3>3. cmd[c].phase = "tag" /\ cmd[c].opt.kind = "rig" => x.identity = FirstPeer
      BY <2>1, <3>0 DEF OnceOf
    <3>4. cmd[c].phase = "windows" => \A w \in cmd[c].todo : w.app \/ w.identity # x.identity
      BY <2>1, <3>0 DEF OnceOf
    <3>5. \A m \in Mine(c, panes') : m.identity = x.identity => m.at = "up"
      BY <1>4, <2>1, <3>0 DEF OnceOf
    <3> QED BY <3>2, <3>3, <3>4, <3>5 DEF YetOf
  <2> QED BY <1>2, <2>1, <2>2, <2>3 DEF Behind, BehindOf, Kind
<1>10. EachOnce'
  <2>1. \A d \in Command : RunsEachOnce(cmd'[d]) /\ OnceOf(d, cmd'[d], panes')
    BY <1>2, <1>5, SurvivesOf
  <2>2. ASSUME NEW x \in containers' PROVE x.by \in Command /\ BehindOf(cmd'[x.by], panes', x)
    <3>1. CASE x \in containers
      BY <1>7, <3>1 DEF Survives, EachOnce
    <3>2. CASE x \notin containers
      BY <1>8, <1>9, <2>2, <3>2
    <3> QED BY <3>1, <3>2
  <2>3. ASSUME NEW d \in Command, NEW x \in cmd'[d].saw
        PROVE  x.by \in Command /\ BehindOf(cmd'[x.by], panes', x)
    BY <1>2, <1>7, <2>3 DEF Survives, EachOnce
  <2> QED BY <2>1, <2>2, <2>3 DEF EachOnce, Behind
<1>11. Owned'
  <2>1. \A x \in containers' : /\ x.by \in Command /\ Kind(x.by) \in Makers
                               /\ x.inst = InstanceOf(x.by)
    BY <1>3, <1>8 DEF Survives, Owned, RunOf, InstanceOf, Makers
  <2> QED BY <1>2, <2>1 DEF Survives, Owned, Kind, InstanceOf
<1>12. Linked'
  <2>1. \A n \in networks : Kind(n.inst) \in {"smoke", "rig"} /\ n = NetworkOf(n.inst)
    BY DEF Survives, Linked
  <2>2. ASSUME NEW x \in containers', x.net # Host
        PROVE  x.net = x.by /\ NetworkOf(x.by) \in networks
    <3>1. CASE x \in containers
      BY <2>2, <3>1 DEF Survives, Linked
    <3>2. CASE x \notin containers
      <4>1. RunOf(p, x) /\ x.by = c
        BY <1>8, <2>2, <3>2
      <4>2. PICK n \in networks : n.inst = c /\ x.net = c
        BY <1>3, <2>2, <4>1 DEF RunOf
      <4> QED BY <2>1, <4>1, <4>2
    <3> QED BY <3>1, <3>2
  <2> QED BY <1>2, <2>1, <2>2 DEF Linked, Kind, NetworkOf
<1>13. ASSUME NEW d \in Command
       PROVE  ClearedOf(cmd'[d], containers') /\ SweptOf(d, cmd'[d], containers', networks')
  <2>1. ClearedOf(cmd[d], containers) /\ SweptOf(d, cmd[d], containers, networks)
    BY SurvivesOf
  <2>2. ClearedOf(cmd[d], containers')
    BY <1>9, <2>1, OthersClear DEF Survives
  <2>3. SweptOf(d, cmd[d], containers', networks)
    <3>1. CASE containers' \subseteq containers
      BY <2>1, <3>1 DEF SweptOf
    <3>2. ASSUME NEW y \in containers' \ containers PROVE SweptOf(d, cmd[d], containers', networks)
      <4>1. Kind(c) \in {"scenario", "rig"}
        BY <1>8, <3>2
      <4>2. CASE d = c
        BY <4>1, <4>2 DEF SweptOf, Kind
      <4>3. CASE d # c
        <5>1. \A x \in containers' \ containers : Kind(c) \in Makers /\ x.inst = InstanceOf(c)
          BY <1>3, <1>8 DEF Makers, InstanceOf, RunOf
        <5> QED BY <1>2, <2>1, <4>3, <5>1, OthersSweep DEF Survives
      <4> QED BY <4>2, <4>3
    <3> QED BY <3>1, <3>2
  <2> QED BY <1>2, <2>2, <2>3
<1> QED BY <1>10, <1>11, <1>12, <1>13 DEF Survives

\* A step of a command or a console, action by action.
LEMMA StepsSurvive ==
    ASSUME ConsoleInv, Survives, NEW c \in Command, CommandStep(c)
    PROVE  Survives'
<1>1. CASE /\ Kind(c) \in {"start", "stop", "smoke"} /\ UNCHANGED consoleVars
           /\ IF NetworkGone(c) THEN RunRefused(c) ELSE Step(c)
  <2>1. panes' = panes
    BY <1>1 DEF consoleVars
  <2>2. CASE NetworkGone(c)
    BY <1>1, <2>1, <2>2, TroubleSurvives
  <2>3. CASE ~NetworkGone(c)
    <3>1. CASE ListConflicts(c) \/ StopConflict(c) \/ StopOwn(c)
      BY <2>1, <3>1, ConflictsSurvive
    <3>2. CASE Guard(c)
      BY <2>1, <3>2, GuardSurvives
    <3>3. CASE EnsureNetwork(c)
      <4>1. Kind(c) = "smoke"
        BY <1>1, <3>3, KindOfPhase DEF EnsureNetwork
      <4> QED BY <2>1, <3>3, <4>1, NetworkSurvives
    <3>4. CASE RunContainer(c)
      BY <2>1, <2>3, <3>4, RunSurvives
    <3>5. CASE Ready(c)
      BY <2>1, <3>5, ReadySurvives
    <3>6. CASE NeverReady(c) \/ Verified(c)
      <4>1. AfterRaise(c) /\ ~In(c, "idle") /\ containers' = containers /\ networks' = networks
        BY <3>6 DEF NeverReady, Verified, In
      <4> QED BY <2>1, <4>1, RaisedSurvives
    <3>7. CASE ListToStop(c) \/ Cleanup(c) \/ Cleaned(c)
      BY <2>1, <3>7, CleanupSurvives
    <3>8. CASE RemoveNetwork(c)
      BY <2>1, <3>8, RemoveSurvives
    <3> QED
      BY <1>1, <2>3, <3>1, <3>2, <3>3, <3>4, <3>5, <3>6, <3>7, <3>8 DEF Step
  <2> QED BY <2>2, <2>3
<1>2. CASE ConsoleStep(c)
  <2>1. CASE LookForScenario(c) \/ LookForRig(c) \/ FindScenario(c) \/ FindRig(c)
    BY <2>1, LooksSurvive
  <2>2. CASE RigGuard(c)
    <3>1. Guard(c) /\ panes' = panes
      BY <2>2 DEF RigGuard, consoleVars
    <3> QED BY <3>1, GuardSurvives
  <2>3. CASE RigNetwork(c)
    <3>1. panes' = panes
      BY <2>3 DEF RigNetwork, consoleVars
    <3> QED BY <2>3, <3>1, NetworkSurvives
  <2>4. CASE \/ StopApp(c) \/ ListComs(c) \/ StopCom(c) \/ KillSession(c)
             \/ RemoveNetworks(c) \/ MarkStopped(c)
    BY <2>4, TakingDownSurvives
  <2>5. CASE RecordRun(c) \/ NoSession(c) \/ Opened(c) \/ ScenarioReady(c)
    BY <2>5, OpensAround
  <2>6. CASE OpenSession(c) \/ TagSession(c) \/ NewWindow(c)
    BY <2>6, OpenSessionSurvives, TagSurvives, WindowSurvives
  <2> QED BY <1>2, <2>1, <2>2, <2>3, <2>4, <2>5, <2>6 DEF ConsoleStep
<1> QED BY <1>1, <1>2 DEF CommandStep

\* The inductive invariant of the workspace with its consoles.
LEMMA SurvivesInductive == TmuxSpec => [](ConsoleInv /\ Survives)
<1>1. TmuxInit => Survives
  <2> SUFFICES ASSUME TmuxInit PROVE Survives
    OBVIOUS
  <2>1. containers = {} /\ networks = {} /\ panes = {}
    BY DEF TmuxInit, Init
  <2>2. ASSUME NEW c \in Command
        PROVE  /\ cmd[c].phase = "idle" /\ Kind(c) = "stop"
               /\ cmd[c].todo = {} /\ cmd[c].returned = {} /\ cmd[c].saw = {}
    BY DEF TmuxInit, Init, NotIssued, NoOption, Kind
  <2>3. Owned /\ Linked
    BY <2>1, <2>2 DEF Owned, Linked
  <2>4. EachOnce
    BY <2>1, <2>2 DEF EachOnce, OnceOf, RunsEachOnce, Mine, Kind
  <2>5. \A c \in Command : /\ ClearedOf(cmd[c], containers)
                           /\ SweptOf(c, cmd[c], containers, networks)
    BY <2>1, <2>2 DEF ClearedOf, Beyond, Removing, SweptOf, Kind
  <2> QED BY <2>3, <2>4, <2>5 DEF Survives
<1>2. ConsoleInv /\ Survives /\ [TmuxNext]_tmuxVars => Survives'
  <2> SUFFICES ASSUME ConsoleInv, Survives, [TmuxNext]_tmuxVars PROVE Survives'
    OBVIOUS
  <2>1. CASE UNCHANGED tmuxVars
    <3>1. UNCHANGED <<containers, networks, cmd, panes>>
      BY <2>1 DEF tmuxVars, vars, consoleVars
    <3>2. Owned' /\ Linked'
      BY <3>1 DEF Survives, Owned, Linked, Kind, InstanceOf, NetworkOf
    <3>3. EachOnce'
      BY <3>1 DEF Survives, EachOnce, OnceOf, RunsEachOnce, Mine, Behind, BehindOf, YetOf
    <3> QED BY <3>1, <3>2, <3>3 DEF Survives
  <2>2. ASSUME NEW c \in Command,
               \/ \E o \in Options[c] :
                     Met(c, o) /\ Issue(c, o) /\ alone' = {} /\ UNCHANGED consoleVars
               \/ \E o \in ConsoleOptions[c] : Met(c, o) /\ IssueConsole(c, o)
               \/ CommandStep(c) \/ Trouble(c)
        PROVE  Survives'
    <3>1. CASE CommandStep(c)
      BY <3>1, StepsSurvive
    <3>2. CASE Trouble(c)
      <4>1. panes' = panes
        BY <3>2 DEF Trouble, consoleVars
      <4> QED BY <3>2, <4>1, TroubleSurvives
    <3> QED BY <2>2, <3>1, <3>2, IssuesSurvive
  <2>3. ASSUME NEW p \in panes, PaneStep(p) PROVE Survives'
    BY <2>3, PanesSurvive
  <2> QED BY <2>1, <2>2, <2>3 DEF TmuxNext
<1> QED BY <1>1, <1>2, ConsoleInvInductive, PTL DEF TmuxSpec

\* WhatWasSeenIsGone, whatever consoles and panes run beside the commands: a
\* console that takes down what it replaces, or is asked to stop, included.
THEOREM WhatWasSeenIsGoneAmongConsoles == TmuxSpec => []NothingSeenSurvives
<1>1. Survives => NothingSeenSurvives
  BY DEF Survives, ClearedOf, Beyond, NothingSeenSurvives
<1> QED BY <1>1, SurvivesInductive, PTL

\* ASmokeCleansUp, whatever consoles and panes run beside the commands.
THEOREM ASmokeCleansUpAmongConsoles == TmuxSpec => []SmokeCleansUp
<1>1. ConsoleInv /\ Survives => SmokeCleansUp
  <2> SUFFICES ASSUME ConsoleInv, Survives, NEW c \in Command,
                      In(c, "done"), cmd[c].opt.kind = "smoke", ~cmd[c].opt.keep
               PROVE  /\ \A x \in containers : NameOf(x) \notin cmd[c].returned
                      /\ cmd[c].returned = {c} \X Identity =>
                            /\ \A x \in containers : x.by # c
                            /\ \A n \in networks : n.inst # c
    BY DEF SmokeCleansUp
  <2>1. /\ \A x \in containers : NameOf(x) \notin cmd[c].returned
        /\ cmd[c].returned = {c} \X Identity => \A n \in networks : n.inst # c
    BY SurvivesOf DEF SweptOf, In
  <2>2. ASSUME cmd[c].returned = {c} \X Identity, NEW x \in containers, x.by = c PROVE FALSE
    <3>1. x.inst = InstanceOf(x.by) /\ cmd[c].inst = c
      BY SurvivesOf DEF Survives, Owned, Kind
    <3>2. x.inst = c
      BY <2>2, <3>1 DEF InstanceOf, Kind
    <3>3. x.identity \in Identity
      BY DEF ConsoleInv, SoundBridge
    <3> QED BY <2>1, <2>2, <3>2, <3>3 DEF NameOf
  <2> QED BY <2>1, <2>2
<1> QED BY <1>1, SurvivesInductive, PTL

\* "A parallel run's containers must never be stopped from here", whatever
\* consoles and panes run beside the smoke: they name their containers otherwise.
THEOREM ASmokeStopsItsOwnAmongConsoles == TmuxSpec => SmokeStopsOnlyItsOwn
<1>1. ConsoleInv /\ Survives /\ [TmuxNext]_tmuxVars =>
        [\A c \in Command :
            cmd'[c] # cmd[c] /\ cmd[c].opt.kind = "smoke"
               => \A x \in containers \ containers' : x.by = c]_vars
  <2> SUFFICES ASSUME ConsoleInv, Survives, [TmuxNext]_tmuxVars, NEW c \in Command,
                      cmd'[c] # cmd[c], Kind(c) = "smoke", NEW x \in containers \ containers'
               PROVE  x.by = c
    BY DEF Kind
  <2>1. TmuxNext
    BY DEF tmuxVars, vars
  <2>2. ASSUME NEW p \in panes, PaneStep(p) PROVE FALSE
    BY <2>2 DEF PaneStep
  <2>3. ASSUME NEW d \in Command,
               \/ \E o \in Options[d] :
                     Met(d, o) /\ Issue(d, o) /\ alone' = {} /\ UNCHANGED consoleVars
               \/ \E o \in ConsoleOptions[d] : Met(d, o) /\ IssueConsole(d, o)
               \/ CommandStep(d) \/ Trouble(d)
        PROVE  x.by = c
    <3>1. d = c
      BY <2>3, OthersStay
    <3>2. ~In(c, "idle")
      BY KindOfPhase
    <3>3. ~ConsoleStep(c)
      BY KindOfPhase DEF ConsoleStep, LookForScenario, LookForRig, RigGuard, RigNetwork,
         FindScenario, FindRig, StopApp, ListComs, StopCom, KillSession, RemoveNetworks,
         MarkStopped, RecordRun, OpenSession, TagSession, NewWindow, NoSession, Opened,
         ScenarioReady, OfRig, Opens
    <3>4. Cleanup(c)
      <4>1. ~StopConflict(c) /\ ~StopOwn(c)
        BY KindOfPhase DEF StopConflict, StopOwn
      <4>2. CASE Step(c)
        BY <4>1, <4>2 DEF Step, ListConflicts, Guard, EnsureNetwork, RunContainer, Ready,
           NeverReady, Verified, ListToStop, Cleaned, RemoveNetwork
      <4>3. ~RunRefused(c) /\ ~Trouble(c)
        BY DEF RunRefused, Trouble, Raise, Kill
      <4> QED BY <2>3, <3>1, <3>2, <3>3, <4>2, <4>3 DEF CommandStep, Issue, IssueConsole
    <3>5. PICK name \in cmd[c].todo : containers' = Stop(name)
      BY <3>4 DEF Cleanup
    <3>6. NameOf(x) = name /\ name[1] = c
      BY <3>5, SurvivesOf DEF Stop
    <3>7. /\ x.by \in Command /\ Kind(x.by) \in Makers /\ x.inst = InstanceOf(x.by)
          /\ x.inst = c
      BY <3>6 DEF Survives, Owned, NameOf
    <3>8. PICK e \in Command : e = x.by
      BY <3>7
    <3>9. /\ Kind(e) = "start" => Kind(InstanceOf(e)) = "start"
          /\ Kind(e) \in {"smoke", "scenario", "rig"} => InstanceOf(e) = e
      BY DEF Survives, Owned, InstanceOf
    <3> QED BY <3>7, <3>8, <3>9 DEF Makers
  <2> QED BY <2>1, <2>2, <2>3 DEF TmuxNext
<1> QED BY <1>1, SurvivesInductive, PTL DEF TmuxSpec, SmokeStopsOnlyItsOwn
================================================================================
