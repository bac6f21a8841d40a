-------------------------------- MODULE Capacity --------------------------------
(***************************************************************************)
(* benchmark capacity: under one fixed profile the driver looks for the     *)
(* highest load that still passes, by binary search over the knob (payload  *)
(* size, rate or bandwidth).  A heavier load is a harder candidate.         *)
(***************************************************************************)
EXTENDS Probing

CONSTANT Load   \* the axis along which the load grows

ASSUME CapacityAssumption == Load \in Axis

VARIABLES
    lo, hi,     \* the values still to try
    best        \* the highest that passed

capacity == <<lo, hi, best>>

CapacityPhase == {"capacity_low", "capacity"}

Loaded(value) == At(Ideal, Load, value)

CapacityInit == lo = 0 /\ hi = Worst /\ best = None

\* Median vote: more than half of the runs pass.
Majority == 2 * sample.passed > Repeats

\* Mutant: the last value of the range is not tried.
NarrowExclusive(l, h, b) ==
    /\ lo' = l /\ hi' = h /\ best' = b
    /\ IF l < h
       THEN Probe("capacity", Loaded((l + h) \div 2))
       ELSE phase' = "capacity_found" /\ UNCHANGED <<link, probed, sample>>

\* The next middle, until the range is empty.
Narrow(l, h, b) ==
    /\ lo' = l /\ hi' = h /\ best' = b
    /\ IF l <= h
       THEN Probe("capacity", Loaded((l + h) \div 2))
       ELSE phase' = "capacity_found" /\ UNCHANGED <<link, probed, sample>>

LowestProbed ==
    /\ phase = "capacity_low" /\ Decided("all")
    /\ IF Majority
       THEN Narrow(1, hi, 0)
       ELSE phase' = "capacity_found" /\ UNCHANGED <<link, probed, sample, capacity>>

MiddleProbed ==
    /\ phase = "capacity" /\ Decided("all")
    /\ LET value == probed[Load]
       IN  IF Majority THEN Narrow(value + 1, hi, value) ELSE Narrow(lo, value - 1, best)

CapacityNext ==
    \/ phase \in CapacityPhase /\ Run("all") /\ UNCHANGED capacity
    \/ LowestProbed \/ MiddleProbed

(***************************************************************************)
(* Properties                                                              *)
(***************************************************************************)
CapacityTypeOK ==
    /\ lo \in 0..(Worst + 1) /\ hi \in -1..Worst
    /\ best \in Unit

\* The capacity reported can pass and the next higher load can fail, whatever
\* the noise; without noise it is therefore the highest load that passes, and
\* none is reported only if the lowest fails.
CapacityIsTheEdge ==
    phase = "capacity_found" =>
        /\ best # None => Loaded(best) \in link.usable
        /\ best # Worst => Loaded(best + 1) \notin link.clean
================================================================================
