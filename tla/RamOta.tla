------------------------------- MODULE RamOta -------------------------------
(***************************************************************************)
(* The update handler over the writer every Node gets (RamFlashWriter in   *)
(* ota.rs): the image is assembled in one fixed-capacity buffer in RAM.    *)
(* The buffer is grown with zeros up to the end of the chunk being written *)
(* and the chunk copied over it; nothing ever shortens or clears it, so it *)
(* carries over from one session to the next.                              *)
(***************************************************************************)
EXTENDS OtaHandler, OtaHost

CONSTANTS
    Capacity,      \* MAX_OTA_BUFFER_SIZE
    Offsets,       \* the offsets a chunk can carry (u32)
    UsizeModulus,  \* 2^32 on the devices: `offset as usize + data.len()`
    Crc(_)         \* CRC-32/ISO-HDLC of a byte string

ASSUME RamAssumption ==
    /\ 0 \in Byte
    /\ Capacity \in Nat
    /\ MaxChunk <= Capacity
    /\ Offsets \subseteq 0..(UsizeModulus - 1)
    /\ UsizeModulus \in Nat \ {0}

VARIABLES
    buffer,   \* RamFlashWriter::buffer
    halted,   \* the node has panicked (the release profile aborts)
    longest   \* history: the furthest end of a chunk accepted since boot

ramVars == <<session, ack, hostVars, buffer, halted, longest>>

Larger(a, b) == IF a >= b THEN a ELSE b

RamTypeOK ==
    /\ HandlerTypeOK
    /\ HostTypeOK
    /\ buffer \in Seq(Byte) /\ Len(buffer) <= Capacity
    /\ halted \in BOOLEAN
    /\ longest \in Nat

RamInit ==
    /\ HandlerInit
    /\ HostInit
    /\ buffer = <<>>
    /\ halted = FALSE
    /\ longest = 0

-----------------------------------------------------------------------------
(* RamFlashWriter::write and ::verify                                      *)

End(offset, data) == offset + Len(data)

\* The sum leaves the machine word: an arithmetic panic in a debug build; in
\* a release build the wrapped end passes the capacity test and the slice
\* from start to end panics, because it ends before it starts.
Overflows(offset, data) == End(offset, data) >= UsizeModulus

\* Mutant of Fits: off by one at the end of the buffer.
FitsButForOne(offset, data) ==
    /\ ~Overflows(offset, data)
    /\ End(offset, data) <= Capacity + 1

Fits(offset, data) ==
    /\ ~Overflows(offset, data)
    /\ End(offset, data) <= Capacity

\* Mutant of Written: the chunk is appended wherever it belongs.
WrittenAtTheEnd(offset, data) == buffer \o data

\* Mutant of Written: the offset of the chunk is not looked at.
WrittenAtStart(offset, data) ==
    [i \in 1..Larger(Len(buffer), Len(data)) |-> IF i <= Len(data) THEN data[i] ELSE buffer[i]]

\* Mutant of Written: the buffer is resized to the end of the chunk, also when
\* that shortens it.
WrittenAndCut(offset, data) ==
    [i \in 1..End(offset, data) |->
        IF i > offset THEN data[i - offset] ELSE IF i <= Len(buffer) THEN buffer[i] ELSE 0]

Written(offset, data) ==
    [i \in 1..Larger(Len(buffer), End(offset, data)) |->
        IF i \in (offset + 1)..End(offset, data) THEN data[i - offset]
        ELSE IF i <= Len(buffer) THEN buffer[i] ELSE 0]

\* Mutant of Matches: the announced size is verified instead of the checksum.
MatchesInSize == received = expectedSize

Matches == Crc(buffer) = expectedCrc

-----------------------------------------------------------------------------
(* The commands                                                            *)

Start(size, crc) ==
    /\ ~halted
    /\ OtaStart(size, crc)
    /\ HostBegins
    /\ UNCHANGED <<buffer, halted, longest>>

ChunkStored(offset, data) ==
    /\ ~halted
    /\ Fits(offset, data)
    /\ ChunkWritten(Len(data))
    /\ buffer' = Written(offset, data)
    /\ longest' = Larger(longest, End(offset, data))
    /\ HostSeesChunk(offset, data)
    /\ UNCHANGED halted

ChunkTooFar(offset, data) ==
    /\ ~halted
    /\ ~Overflows(offset, data)
    /\ ~Fits(offset, data)
    /\ ChunkRefusedByWriter
    /\ UNCHANGED <<hostVars, buffer, halted, longest>>

ChunkPanics(offset, data) ==
    /\ ~halted
    /\ state = "Receiving"
    /\ Overflows(offset, data)
    /\ halted' = TRUE
    /\ UNCHANGED <<session, ack, hostVars, buffer, longest>>

Finish ==
    /\ ~halted
    /\ \/ /\ Matches
          /\ FinishVerified
          /\ HostSeesVerdict("verified")
       \/ /\ ~Matches
          /\ FinishMismatch
          /\ HostSeesVerdict("mismatch")
    /\ UNCHANGED <<buffer, halted, longest>>

Refused ==
    /\ ~halted
    /\ RefusedByHandler
    /\ UNCHANGED <<hostVars, buffer, halted, longest>>

\* The device restarts after the panic: everything here was in RAM.
Reboot ==
    /\ halted
    /\ state' = "Idle" /\ received' = 0
    /\ expectedSize' = 0 /\ expectedCrc' = 0
    /\ ack' = NoAck
    /\ HostBegins
    /\ buffer' = <<>>
    /\ halted' = FALSE
    /\ longest' = 0

RamNext ==
    \/ \E a \in Announcements : Start(a[1], a[2])
    \/ \E offset \in Offsets, data \in Chunks : ChunkStored(offset, data)
    \/ \E offset \in Offsets, data \in Chunks : ChunkTooFar(offset, data)
    \/ \E offset \in Offsets, data \in Chunks : ChunkPanics(offset, data)
    \/ Finish
    \/ Refused
    \/ Reboot

RamSpec == RamInit /\ [][RamNext]_ramVars

-----------------------------------------------------------------------------
(* Properties                                                              *)

\* The step that answers an OTA_FINISH with a verdict.
Concludes == state = "Receiving" /\ state' = "Idle" /\ ~halted

\* However the chunks were cut, retried after a lost acknowledgement or mixed
\* with refused ones, the buffer starts with the bytes the host has uploaded
\* in this session (RamFlashWriter::write).
StreamInBuffer ==
    faithful =>
        /\ Len(stream) <= Len(buffer)
        /\ \A i \in 1..Len(stream) : buffer[i] = stream[i]

\* The buffer ends where the furthest chunk accepted since boot ended, in
\* whichever session that was: a refused chunk never grows it and a new
\* session never shortens it.
BufferEndsAtLongest == Len(buffer) = longest

\* A faithful upload that reaches the furthest byte ever written is judged on
\* exactly its own bytes: OTA_FINISH succeeds if and only if they have the
\* announced checksum.
VerdictIsAboutUpload ==
    [][ Concludes /\ faithful /\ Len(stream) = longest =>
          (ack'.success <=> Crc(stream) = expectedCrc) ]_ramVars

\* The host VerdictIsAboutUpload speaks of, as a constraint on the steps.
Orderly == faithful' /\ (Concludes => Len(stream) = longest)

OrderlySpec == RamInit /\ [][RamNext /\ Orderly]_ramVars

\* With such a host the handler and the RAM writer implement OtaUpload: no
\* buffer, offset or earlier session shows through the answers.
Upload == INSTANCE OtaUpload WITH
    Checksums <- {a[2] : a \in Announcements},
    open <- state = "Receiving",
    upload <- stream,
    promised <- IF state = "Receiving" THEN expectedCrc ELSE 0

ImplementsUpload == Upload!UploadSpec

\* An upload of the announced size and checksum, every chunk of it accepted,
\* is verified: what ota.rs says the handler is for.  The code breaks it when
\* an earlier session wrote further than this one.
CompleteUploadVerifies ==
    [][ Concludes /\ faithful /\ Len(stream) = expectedSize
            /\ Crc(stream) = expectedCrc => ack'.success ]_ramVars

=============================================================================
