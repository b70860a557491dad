------------------------------ MODULE MCRamOta ------------------------------
(***************************************************************************)
(* RamOta on a buffer of three bytes, chunks of at most two bytes and bytes*)
(* of one bit.  The checksum numbers the byte strings in order of length   *)
(* and value: no two have the same one, the ideal the CRC approximates,    *)
(* and none has 0, the value the handler resets the announcement to.       *)
(***************************************************************************)
EXTENDS RamOta, SequencesExt

MCByte == {0, 1}

MCCrc(s) == FoldLeft(LAMBDA acc, b : 2 * acc + b, 1, s)

\* Every offset a buffer of three bytes can hold, the first one behind it and
\* the last value of the offset's width.
MCOffsets == {0, 1, 2, 3, 7}

\* A host announces the length and checksum of an image it has.
MCAnnouncements ==
    {<<Len(image), MCCrc(image)>> : image \in {<<1>>, <<0, 1>>, <<1, 1, 0>>}}

=============================================================================
