------------------------------ MODULE MCBusGate ------------------------------
(***************************************************************************)
(* Three gates, the middle one an m4 gate; the first has two parameters to  *)
(* read.  The start sequence is two symbols long (1 plus the one that is    *)
(* sent when the counter has reached the limit), enough to take both        *)
(* branches of sendStartSequence.                                           *)
(***************************************************************************)
EXTENDS BusGateOrder

MCKind == <<"sps", "m4", "sps">>
MCNumItems == <<2, 2, 1>>
=============================================================================
