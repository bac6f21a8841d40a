---------------------------- MODULE MCOtaAccounting ----------------------------
(***************************************************************************)
(* OtaAccounting for TLC.  The numbers of the field instance (tolerance    *)
(* 64, first arrivals 37 to 41, runs of thousands of frames) are scaled    *)
(* down with their order kept.                                             *)
(***************************************************************************)
EXTENDS OtaAccounting

ASSUME FieldOrderAssumption == FieldOrder /\ LogOrder
================================================================================
