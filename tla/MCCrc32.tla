------------------------------ MODULE MCCrc32 ------------------------------
(***************************************************************************)
(* Crc32 on up to three bytes, single or in pairs: the bytes of one bit,   *)
(* nothing, everything, and mixtures that reach both halves of the table.  *)
(***************************************************************************)
EXTENDS Crc32

MCByte == {{i} : i \in 0..7} \cup {{}, 0..7, {0, 2, 4, 6}, {1, 5, 7}}

=============================================================================
