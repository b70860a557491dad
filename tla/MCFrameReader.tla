--------------------------- MODULE MCFrameReader ---------------------------
(***************************************************************************)
(* FrameReader with an empty message and one of one byte.  A damaged byte  *)
(* reads as a length that is too short, too long or beyond the maximum.    *)
(***************************************************************************)
EXTENDS FrameReader

MCPayloadLen == <<0, 1>>

=============================================================================
