------------------------------ MODULE MCEspOta ------------------------------
(***************************************************************************)
(* EspOta on a chip of eight one-bit bytes whose middle four are the OTA   *)
(* region, with words of two bytes: chunks of up to two bytes start and    *)
(* end inside words, in the first and in the last word of the region.      *)
(***************************************************************************)
EXTENDS EspOta, SequencesExt

MCByte == SUBSET Bits

\* Numbers the byte strings, so that no two have the same checksum.
MCCrc(s) == FoldLeft(LAMBDA acc, b : 2 * acc + Cardinality(b), 1, s)

\* In order and inside words; a chunk of two bytes at the last one leaves the
\* region.
MCOffsets == 0..3

\* Zeros and ones in the other partitions and in the old image.
MCInitialFlash == {[a \in Address |-> IF a % 2 = 0 THEN {} ELSE Bits]}

MCAnnouncements ==
    LET image == <<Bits, {}, Bits>> IN {<<Len(image), MCCrc(image)>>}

=============================================================================
