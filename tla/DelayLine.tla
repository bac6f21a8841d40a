------------------------------- MODULE DelayLine -------------------------------
(***************************************************************************)
(* What a playout pacer promises: a first-in first-out line that holds     *)
(* each message for a while it chooses itself, up to MaxHold, and neither  *)
(* drops nor reorders.                                                     *)
(***************************************************************************)
EXTENDS Integers, Sequences

CONSTANTS MaxHold, Stamp

VARIABLES
    now,     \* the clock of the peer
    line,    \* messages held, with the time each may go
    output   \* messages handed on

vars == <<now, line, output>>

Init ==
    /\ now = 0
    /\ line = <<>>
    /\ output = <<>>

\* A message arrives and is given a release time, behind everyone in the line.
Accept ==
    /\ \E stamp \in Stamp, release \in now..(now + MaxHold) :
          /\ \A i \in DOMAIN line : line[i].release <= release
          /\ line' = Append(line, [stamp |-> stamp, arrival |-> now, release |-> release])
    /\ UNCHANGED <<now, output>>

\* The front of the line leaves, once due.
Emit ==
    /\ \E n \in 1..Len(line) :
          /\ \A i \in 1..n : line[i].release <= now
          /\ output' = output \o SubSeq(line, 1, n)
          /\ line' = SubSeq(line, n + 1, Len(line))
    /\ UNCHANGED now

TimePasses ==
    /\ now' \in Int /\ now' > now
    /\ UNCHANGED <<line, output>>

Next == Accept \/ Emit \/ TimePasses

Spec == Init /\ [][Next]_vars
================================================================================
