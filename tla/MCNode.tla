------------------------------- MODULE MCNode -------------------------------
(***************************************************************************)
(* Instances of Node: two ids, one of the update range, and drivers that   *)
(* claim overlapping ids, the update id included.                          *)
(***************************************************************************)
EXTENDS Node

MCCommandId == {"ota", "file"}
MCOtaIds == {"ota"}
MCClaims == [LittleFs |-> {"file"}, Telemetry |-> {"file", "ota"}]

=============================================================================
