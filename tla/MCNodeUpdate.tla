---------------------------- MODULE MCNodeUpdate ----------------------------
(***************************************************************************)
(* NodeUpdate with a buffer of three bytes and chunks of two: images of no *)
(* byte, of one short chunk, of one that fills the buffer and of one byte  *)
(* more.  The checksum numbers the byte strings, as in MCRamOta.           *)
(***************************************************************************)
EXTENDS NodeUpdate, SequencesExt

MCCrc(s) == FoldLeft(LAMBDA acc, b : 2 * acc + b, 1, s)

MCImages == {<<>>, <<1>>, <<0, 1>>, <<1, 1, 0>>, <<0, 0, 1, 1>>}

MCAnnouncements == {<<Len(image), MCCrc(image)>> : image \in MCImages}

MCOffsets == 0..7

\* What run_once of tpt-node-mock registers.
MCBuilds == <<"Ota", "LittleFs", "Telemetry", "Serial">>

=============================================================================
