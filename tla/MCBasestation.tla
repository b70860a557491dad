--------------------------- MODULE MCBasestation ---------------------------
(***************************************************************************)
(* Basestation with a node that is reset at most twice and a serial        *)
(* capability no driver stands behind.                                     *)
(***************************************************************************)
EXTENDS Basestation

MCCommandId == {"serial"}
MCOtaIds == {}
MCClaims == [LittleFs |-> {}, Telemetry |-> {}]

=============================================================================
