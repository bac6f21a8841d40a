-------------------------------- MODULE Recovery --------------------------------
(***************************************************************************)
(* benchmark recovery: one live point under a timeline with an outage, and  *)
(* the measures of how the stream comes back (drive_recovery and            *)
(* recovery_metrics).  The outage is placed on the clock of the timeline,   *)
(* the records carry the clock of the host.                                 *)
(***************************************************************************)
EXTENDS LivePoint

CONSTANT Period     \* the nominal publish period

ASSUME RecoveryAssumption ==
    /\ Period \in Nat
    /\ \E k \in DOMAIN Timeline : Timeline[k].outage

\* The clock of the timeline as a step begins: the segments before it.
Clock[k \in Nat] == IF k <= 1 THEN 0 ELSE Clock[k - 1] + Timeline[k - 1].lasts

\* The last outage of the profile.
OutageStep ==
    CHOOSE k \in DOMAIN Timeline :
        Timeline[k].outage /\ \A j \in DOMAIN Timeline : Timeline[j].outage => j <= k

OutageWindow == [start |-> Clock[OutageStep],
                 end   |-> Clock[OutageStep] + Timeline[OutageStep].lasts]

\* The first record with a stamp.  A lost one that the sender did not record has
\* none, and its time of sending is reckoned from that of the anchor.
Anchor == CHOOSE i \in DOMAIN stream :
              Arrived(i) /\ \A j \in DOMAIN stream : j < i => ~Arrived(j)

SendTime(i, joined) ==
    IF joined \/ Arrived(i) THEN stream[i].at ELSE stream[Anchor].at + (i - Anchor) * Period

LostDuringOutage(joined) ==
    {i \in DOMAIN stream : Lost(i) /\ OutageWindow.start <= SendTime(i, joined)
                                  /\ SendTime(i, joined) <= OutageWindow.end}

\* RFC 0005: lost-during-outage, per topic, from the numbers.  What was published
\* in the outage of a timeline and lost is among the losses reported for it.
OutageLossesAreReported ==
    step = "summarized" /\ timeline =>
        \A i \in DOMAIN stream, joined \in BOOLEAN :
            Lost(i) /\ stream[i].legs["a"] = OutageStep => i \in LostDuringOutage(joined)
================================================================================
