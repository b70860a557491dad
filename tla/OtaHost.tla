------------------------------ MODULE OtaHost ------------------------------
(***************************************************************************)
(* What the uploading host knows from the acknowledgements it gets: history*)
(* variables no guard of the node reads, used to state what an update      *)
(* means.  The host of the repository (the upload loop of the core tests)  *)
(* sends the chunks of an image in ascending order, each at the offset     *)
(* where the last one ended; a host that lost an acknowledgement sends the *)
(* same bytes again.                                                       *)
(***************************************************************************)
EXTENDS Naturals, Sequences

CONSTANTS
    Byte,     \* byte values
    MaxChunk  \* most data bytes of one OTA_CHUNK (28 in the code)

ASSUME HostAssumption == MaxChunk \in Nat

VARIABLES
    stream,    \* the bytes accepted in this session, as the host put them together
    faithful,  \* every chunk accepted in it continued the stream or repeated a part
    verdict    \* the answer to the last OTA_FINISH; "none" since the start

hostVars == <<stream, faithful, verdict>>

Chunks == UNION {[1..n -> Byte] : n \in 0..MaxChunk}

Verdict == {"none", "verified", "mismatch"}

HostTypeOK ==
    /\ stream \in Seq(Byte)
    /\ faithful \in BOOLEAN
    /\ verdict \in Verdict

HostInit ==
    /\ stream = <<>>
    /\ faithful = TRUE
    /\ verdict = "none"

\* The host's next bytes: they start where the accepted ones end.
Continues(offset) == offset = Len(stream)

\* The same bytes as before, at the same place: the retry after a lost ack.
Repeats(offset, data) ==
    /\ offset + Len(data) <= Len(stream)
    /\ \A i \in 1..Len(data) : stream[offset + i] = data[i]

HostBegins ==
    /\ stream' = <<>>
    /\ faithful' = TRUE
    /\ verdict' = "none"

HostSeesChunk(offset, data) ==
    /\ stream' = IF Continues(offset) THEN stream \o data ELSE stream
    /\ faithful' = (faithful /\ (Continues(offset) \/ Repeats(offset, data)))
    /\ UNCHANGED verdict

HostSeesVerdict(v) ==
    /\ verdict' = v
    /\ stream' = <<>>
    /\ UNCHANGED faithful

=============================================================================
