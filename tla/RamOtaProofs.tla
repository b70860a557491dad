---------------------------- MODULE RamOtaProofs ----------------------------
(***************************************************************************)
(* Theorems about RamOta for every buffer capacity, chunk size, byte set,  *)
(* set of announcements and checksum function.                             *)
(***************************************************************************)
EXTENDS RamOta, SequenceTheorems, TLAPS

USE HandlerAssumption, HostAssumption, RamAssumption

-----------------------------------------------------------------------------
(* Sequences the operations build                                          *)

\* A chunk's data is a byte string of bounded length.
LEMMA ChunkIsBytes ==
    ASSUME NEW data \in Chunks
    PROVE  data \in Seq(Byte) /\ Len(data) \in Nat /\ Len(data) <= MaxChunk
<1>1. PICK n \in 0..MaxChunk : data \in [1..n -> Byte]
  BY DEF Chunks
<1>2. n \in Nat /\ data \in Seq(Byte)
  BY <1>1
<1>3. Len(data) = n
  BY <1>1, <1>2
<1> QED BY <1>2, <1>3

\* What RamFlashWriter::write leaves: a byte string that ends where the longer
\* of the old buffer and the chunk ends, holding the chunk at its offset, the
\* old bytes around it and zeros in a gap.
LEMMA WrittenBytes ==
    ASSUME buffer \in Seq(Byte), NEW offset \in Nat, NEW data \in Seq(Byte)
    PROVE  /\ Written(offset, data) \in Seq(Byte)
           /\ Len(Written(offset, data)) = Larger(Len(buffer), End(offset, data))
           /\ \A i \in 1..Len(Written(offset, data)) :
                 Written(offset, data)[i] =
                    IF i \in (offset + 1)..End(offset, data) THEN data[i - offset]
                    ELSE IF i <= Len(buffer) THEN buffer[i] ELSE 0
<1> DEFINE n == Larger(Len(buffer), End(offset, data))
           byte(i) == IF i \in (offset + 1)..End(offset, data) THEN data[i - offset]
                      ELSE IF i <= Len(buffer) THEN buffer[i] ELSE 0
<1>1. n \in Nat
  BY LenProperties DEF Larger, End
<1>2. ASSUME NEW i \in 1..n PROVE byte(i) \in Byte
  <2>1. CASE i \in (offset + 1)..End(offset, data)
    <3>1. i - offset \in 1..Len(data)
      BY <2>1, LenProperties DEF End
    <3> QED BY <2>1, <3>1, ElementOfSeq
  <2>2. CASE i \notin (offset + 1)..End(offset, data) /\ i <= Len(buffer)
    BY <2>2, <1>1, ElementOfSeq, LenProperties
  <2>3. CASE i \notin (offset + 1)..End(offset, data) /\ ~(i <= Len(buffer))
    BY <2>3
  <2> QED BY <2>1, <2>2, <2>3
<1>3. Written(offset, data) = [i \in 1..n |-> byte(i)]
  BY DEF Written
<1> HIDE DEF n, byte
<1>4. Written(offset, data) \in [1..n -> Byte]
  BY <1>2, <1>3
<1>5. Written(offset, data) \in Seq(Byte) /\ Len(Written(offset, data)) = n
  BY <1>1, <1>4
<1> QED BY <1>1, <1>3, <1>5 DEF n, byte

\* The bytes a retry repeats are in the stream already, and a stream is
\* extended by a chunk that starts where it ends.
LEMMA StreamExtends ==
    ASSUME stream \in Seq(Byte), NEW offset \in Nat, NEW data \in Seq(Byte),
           Continues(offset)
    PROVE  /\ stream \o data \in Seq(Byte)
           /\ Len(stream \o data) = End(offset, data)
           /\ \A i \in 1..Len(stream \o data) :
                 (stream \o data)[i] =
                    IF i <= Len(stream) THEN stream[i] ELSE data[i - offset]
BY ConcatProperties, LenProperties DEF Continues, End

-----------------------------------------------------------------------------
(* The inductive invariant                                                 *)

\* The type invariant and the two facts about the buffer are inductive
\* together: the buffer's length is what a repeated chunk stays inside.
RamIInv == RamTypeOK /\ StreamInBuffer /\ BufferEndsAtLongest

LEMMA RamInitIInv == RamInit => RamIInv
<1> SUFFICES ASSUME RamInit PROVE RamIInv
  OBVIOUS
<1> USE DEF RamInit, HandlerInit, HostInit
<1>1. RamTypeOK
  <2>1. HandlerTypeOK
    BY DEF HandlerTypeOK, OtaState
  <2>2. HostTypeOK
    BY EmptySeq DEF HostTypeOK, Verdict
  <2>3. buffer \in Seq(Byte) /\ Len(buffer) <= Capacity
    BY EmptySeq
  <2> QED BY <2>1, <2>2, <2>3 DEF RamTypeOK
<1>2. StreamInBuffer /\ BufferEndsAtLongest
  BY EmptySeq DEF StreamInBuffer, BufferEndsAtLongest
<1> QED BY <1>1, <1>2 DEF RamIInv

\* A stored chunk keeps the types.
LEMMA ChunkStoredType ==
    ASSUME RamIInv, NEW offset \in Offsets, NEW data \in Chunks,
           ChunkStored(offset, data)
    PROVE  RamTypeOK'
<1> USE DEF ChunkStored, RamIInv, RamTypeOK, HandlerTypeOK, HostTypeOK
<1>1. offset \in Nat /\ data \in Seq(Byte) /\ Len(data) \in Nat
  BY ChunkIsBytes
<1>2. HandlerTypeOK'
  BY <1>1 DEF ChunkWritten, Accept, Ack, AckPayload, OtaCommand, OtaState
<1>3. buffer' \in Seq(Byte) /\ Len(buffer') <= Capacity
  BY <1>1, WrittenBytes DEF Fits, Larger, End
<1>4. stream' \in Seq(Byte)
  BY <1>1, ConcatProperties DEF HostSeesChunk
<1>5. faithful' \in BOOLEAN /\ verdict' \in Verdict
  BY DEF HostSeesChunk
<1>6. halted' \in BOOLEAN /\ longest' \in Nat
  BY <1>1 DEF Larger, End
<1> QED BY <1>2, <1>3, <1>4, <1>5, <1>6

\* A stored chunk leaves the host's bytes at the front of the buffer.
LEMMA ChunkStoredStream ==
    ASSUME RamIInv, NEW offset \in Offsets, NEW data \in Chunks,
           ChunkStored(offset, data), faithful'
    PROVE  /\ Len(stream') <= Len(buffer')
           /\ \A i \in 1..Len(stream') : buffer'[i] = stream'[i]
<1>1. offset \in Nat /\ data \in Seq(Byte) /\ Len(data) \in Nat
  BY ChunkIsBytes
<1>2. buffer \in Seq(Byte) /\ stream \in Seq(Byte) /\ faithful \in BOOLEAN
  BY DEF RamIInv, RamTypeOK, HostTypeOK
<1>3. faithful /\ (Continues(offset) \/ Repeats(offset, data))
  BY <1>2 DEF ChunkStored, HostSeesChunk
<1>4. /\ Len(stream) <= Len(buffer)
      /\ \A i \in 1..Len(stream) : buffer[i] = stream[i]
  BY <1>3 DEF RamIInv, StreamInBuffer
<1>5. /\ Len(buffer') = Larger(Len(buffer), End(offset, data))
      /\ \A i \in 1..Len(buffer') :
            buffer'[i] = IF i \in (offset + 1)..End(offset, data) THEN data[i - offset]
                         ELSE IF i <= Len(buffer) THEN buffer[i] ELSE 0
  BY <1>1, <1>2, WrittenBytes DEF ChunkStored
<1>6. Len(stream) \in Nat /\ Len(buffer) \in Nat
  BY <1>2, LenProperties
<1>7. CASE Continues(offset)
  <2>1. stream' = stream \o data
    BY <1>7 DEF ChunkStored, HostSeesChunk
  <2>2. Len(stream') = End(offset, data)
    BY <1>1, <1>2, <1>7, <2>1, StreamExtends
  <2>3. ASSUME NEW i \in 1..Len(stream') PROVE buffer'[i] = stream'[i]
    <3>1. stream'[i] = IF i <= Len(stream) THEN stream[i] ELSE data[i - offset]
      BY <1>1, <1>2, <1>7, <2>1, StreamExtends
    <3> QED BY <1>1, <1>4, <1>5, <1>6, <1>7, <2>2, <3>1 DEF Continues, Larger, End
  <2> QED BY <1>1, <1>5, <1>6, <2>2, <2>3 DEF Larger, End
<1>8. CASE ~Continues(offset) /\ Repeats(offset, data)
  <2>1. stream' = stream
    BY <1>8 DEF ChunkStored, HostSeesChunk
  <2>2. ASSUME NEW i \in 1..Len(stream) PROVE buffer'[i] = stream[i]
    <3>1. CASE i \in (offset + 1)..End(offset, data)
      <4>1. i - offset \in 1..Len(data) /\ offset + (i - offset) = i
        BY <1>1, <3>1 DEF End
      <4>2. stream[offset + (i - offset)] = data[i - offset]
        BY <1>8, <4>1 DEF Repeats
      <4> QED BY <1>1, <1>4, <1>5, <1>6, <3>1, <4>1, <4>2 DEF Larger, End
    <3>2. CASE i \notin (offset + 1)..End(offset, data)
      BY <1>1, <1>4, <1>5, <1>6, <3>2 DEF Larger, End
    <3> QED BY <3>1, <3>2
  <2> QED BY <1>1, <1>4, <1>5, <1>6, <2>1, <2>2 DEF Larger, End
<1> QED BY <1>3, <1>7, <1>8

\* A step that closes or opens a session empties the host's stream.
LEMMA EmptyStreamInBuffer ==
    ASSUME buffer' \in Seq(Byte), stream' = <<>>
    PROVE  StreamInBuffer'
BY EmptySeq, LenProperties DEF StreamInBuffer

LEMMA StartKeepsIInv ==
    ASSUME RamIInv, NEW a \in Announcements, Start(a[1], a[2])
    PROVE  RamIInv'
<1> USE DEF Start, RamIInv, RamTypeOK
<1>1. HandlerTypeOK'
  BY DEF HandlerTypeOK, OtaStart, Accept, Ack, AckPayload, OtaCommand, OtaState
<1>2. HostTypeOK'
  BY EmptySeq DEF HostTypeOK, HostBegins, Verdict
<1>3. StreamInBuffer'
  BY EmptyStreamInBuffer DEF HostBegins
<1>4. BufferEndsAtLongest'
  BY DEF BufferEndsAtLongest
<1> QED BY <1>1, <1>2, <1>3, <1>4

LEMMA ChunkStoredKeepsIInv ==
    ASSUME RamIInv, NEW offset \in Offsets, NEW data \in Chunks,
           ChunkStored(offset, data)
    PROVE  RamIInv'
<1>1. RamTypeOK'
  BY ChunkStoredType
<1>2. StreamInBuffer'
  BY ChunkStoredStream DEF StreamInBuffer
<1>3. BufferEndsAtLongest'
  <2>1. offset \in Nat /\ data \in Seq(Byte) /\ buffer \in Seq(Byte)
    BY ChunkIsBytes DEF RamIInv, RamTypeOK
  <2> QED BY <2>1, WrittenBytes DEF RamIInv, BufferEndsAtLongest, ChunkStored
<1> QED BY <1>1, <1>2, <1>3 DEF RamIInv

LEMMA FinishKeepsIInv ==
    ASSUME RamIInv, Finish
    PROVE  RamIInv'
<1> USE DEF Finish, RamIInv, RamTypeOK
<1>1. HandlerTypeOK'
  <2>1. CASE FinishVerified
    BY <2>1 DEF HandlerTypeOK, FinishVerified, Accept, Ack, AckPayload, OtaCommand, OtaState
  <2>2. CASE FinishMismatch
    BY <2>2 DEF HandlerTypeOK, FinishMismatch, Ack, AckPayload, OtaCommand, OtaState
  <2> QED BY <2>1, <2>2
<1>2. HostTypeOK'
  BY EmptySeq DEF HostTypeOK, HostSeesVerdict, Verdict
<1>3. StreamInBuffer'
  BY EmptyStreamInBuffer DEF HostSeesVerdict
<1>4. BufferEndsAtLongest'
  BY DEF BufferEndsAtLongest
<1> QED BY <1>1, <1>2, <1>3, <1>4

\* A refusal, whoever gives it, only changes the acknowledgement.
LEMMA RefusalKeepsIInv ==
    ASSUME RamIInv, NEW command \in OtaCommand, NEW code \in 0..4,
           Refuse(command, code), UNCHANGED <<hostVars, buffer, halted, longest>>
    PROVE  RamIInv'
<1> USE DEF RamIInv, RamTypeOK, hostVars, session
<1>1. HandlerTypeOK'
  BY DEF HandlerTypeOK, Refuse, Ack, AckPayload
<1>2. HostTypeOK'
  BY DEF HostTypeOK
<1>3. StreamInBuffer' /\ BufferEndsAtLongest'
  BY DEF StreamInBuffer, BufferEndsAtLongest
<1> QED BY <1>1, <1>2, <1>3

LEMMA RebootIInv ==
    ASSUME RamIInv, Reboot
    PROVE  RamIInv'
<1> USE DEF Reboot, HostBegins
<1>1. HandlerTypeOK'
  BY DEF HandlerTypeOK, OtaState
<1>2. HostTypeOK'
  BY EmptySeq DEF HostTypeOK, Verdict
<1>3. buffer' \in Seq(Byte) /\ Len(buffer') = 0
  BY EmptySeq
<1>4. RamTypeOK'
  <2>1. 0 <= Capacity /\ longest' \in Nat
    OBVIOUS
  <2>2. halted' \in BOOLEAN
    BY Zenon
  <2> HIDE DEF Reboot
  <2> QED BY <1>1, <1>2, <1>3, <2>1, <2>2 DEF RamTypeOK
<1>5. StreamInBuffer' /\ BufferEndsAtLongest'
  BY <1>3, EmptyStreamInBuffer DEF BufferEndsAtLongest
<1> QED BY <1>4, <1>5 DEF RamIInv

LEMMA RamNextIInv == RamIInv /\ [RamNext]_ramVars => RamIInv'
<1> SUFFICES ASSUME RamIInv, [RamNext]_ramVars PROVE RamIInv'
  OBVIOUS
<1>1. CASE \E a \in Announcements : Start(a[1], a[2])
  BY <1>1, StartKeepsIInv
<1>2. CASE \E offset \in Offsets, data \in Chunks : ChunkStored(offset, data)
  BY <1>2, ChunkStoredKeepsIInv
<1>3. CASE \E offset \in Offsets, data \in Chunks : ChunkTooFar(offset, data)
  BY <1>3, RefusalKeepsIInv DEF ChunkTooFar, ChunkRefusedByWriter, OtaCommand
<1>4. CASE \E offset \in Offsets, data \in Chunks : ChunkPanics(offset, data)
  BY <1>4 DEF ChunkPanics, session, hostVars, RamIInv, RamTypeOK, HandlerTypeOK,
              HostTypeOK, StreamInBuffer, BufferEndsAtLongest
<1>5. CASE Finish
  BY <1>5, FinishKeepsIInv
<1>6. CASE Refused
  BY <1>6, RefusalKeepsIInv DEF Refused, RefusedByHandler, ShortStart, ShortChunk,
     ChunkOutsideSession, FinishOutsideSession, UnknownOta, OtaCommand
<1>7. CASE Reboot
  BY <1>7, RebootIInv
<1>8. CASE UNCHANGED ramVars
  BY <1>8 DEF ramVars, session, hostVars, RamIInv, RamTypeOK, HandlerTypeOK,
              HostTypeOK, StreamInBuffer, BufferEndsAtLongest
<1> QED BY <1>1, <1>2, <1>3, <1>4, <1>5, <1>6, <1>7, <1>8 DEF RamNext

THEOREM RamInductive == RamSpec => []RamIInv
BY RamInitIInv, RamNextIInv, PTL DEF RamSpec

-----------------------------------------------------------------------------
(* What a reader should know                                               *)

\* Every variable keeps its type and the buffer its capacity.
THEOREM RamTypeCorrect == RamSpec => []RamTypeOK
BY RamInductive, PTL DEF RamIInv

\* The buffer starts with the bytes of the session's upload, whatever cut,
\* retried or refused chunks it came in (RamFlashWriter::write).
THEOREM UploadIsStored == RamSpec => []StreamInBuffer
BY RamInductive, PTL DEF RamIInv

\* The buffer ends at the furthest byte any accepted chunk has reached since
\* boot, the reason a shorter image after a longer one is judged wrongly.
THEOREM BufferIsNeverShortened == RamSpec => []BufferEndsAtLongest
BY RamInductive, PTL DEF RamIInv

\* The verdict on a faithful upload that reaches the furthest byte written
\* since boot is about the upload's own bytes (OtaHandler::handle).
THEOREM VerdictTheorem == RamSpec => VerdictIsAboutUpload
<1>1. ASSUME RamIInv, RamNext, Concludes, faithful, Len(stream) = longest
      PROVE  ack'.success <=> Crc(stream) = expectedCrc
  <2>1. buffer = stream
    BY <1>1, SeqEqual DEF RamIInv, RamTypeOK, HostTypeOK, StreamInBuffer,
                          BufferEndsAtLongest
  <2>2. Finish
    BY <1>1 DEF Concludes, RamNext, Start, OtaStart, ChunkStored, ChunkWritten,
       ChunkTooFar, ChunkRefusedByWriter, ChunkPanics, Refused, RefusedByHandler,
       ShortStart, ShortChunk, ChunkOutsideSession, FinishOutsideSession, UnknownOta,
       Refuse, session, Reboot
  <2> QED BY <2>1, <2>2 DEF Finish, Matches, FinishVerified, FinishMismatch, Accept, Ack
<1>2. RamIInv /\ [RamNext]_ramVars =>
        [ Concludes /\ faithful /\ Len(stream) = longest =>
            (ack'.success <=> Crc(stream) = expectedCrc) ]_ramVars
  BY <1>1
<1> QED BY <1>2, RamInductive, PTL DEF RamSpec, VerdictIsAboutUpload

-----------------------------------------------------------------------------
(* RamOta implements OtaUpload for an orderly host                         *)

LEMMA OrderlyInductive == OrderlySpec => []RamIInv
BY RamInitIInv, RamNextIInv, PTL DEF OrderlySpec

LEMMA UploadInit == RamInit => Upload!UploadInit
BY DEF RamInit, HandlerInit, HostInit, Upload!UploadInit

LEMMA UploadNext ==
    ASSUME RamIInv, RamNext /\ Orderly
    PROVE  Upload!UploadNext \/ UNCHANGED Upload!uploadVars
<1> USE DEF Orderly
<1>1. CASE \E a \in Announcements : Start(a[1], a[2])
  <2>1. PICK a \in Announcements : Start(a[1], a[2])
    BY <1>1
  <2>2. Upload!Begin(a[2])
    BY <2>1 DEF Upload!Begin, Start, OtaStart, HostBegins
  <2> QED BY <2>2 DEF Upload!UploadNext
<1>2. CASE \E offset \in Offsets, data \in Chunks : ChunkStored(offset, data)
  <2>1. PICK offset \in Offsets, data \in Chunks : ChunkStored(offset, data)
    BY <1>2
  <2>2. state = "Receiving" /\ UNCHANGED <<state, expectedCrc, verdict>>
    BY <2>1 DEF ChunkStored, ChunkWritten, HostSeesChunk
  <2>3. CASE Continues(offset)
    <3>1. Upload!Extend(data)
      BY <2>1, <2>2, <2>3 DEF Upload!Extend, ChunkStored, HostSeesChunk
    <3> QED BY <3>1 DEF Upload!UploadNext
  <2>4. CASE ~Continues(offset)
    BY <2>1, <2>2, <2>4 DEF Upload!uploadVars, ChunkStored, HostSeesChunk
  <2> QED BY <2>3, <2>4
<1>3. CASE \E offset \in Offsets, data \in Chunks : ChunkTooFar(offset, data)
  BY <1>3 DEF ChunkTooFar, ChunkRefusedByWriter, Refuse, session, hostVars,
              Upload!uploadVars
<1>4. CASE \E offset \in Offsets, data \in Chunks : ChunkPanics(offset, data)
  BY <1>4 DEF ChunkPanics, session, hostVars, Upload!uploadVars
<1>5. CASE Finish
  <2>1. ~halted /\ state = "Receiving" /\ state' = "Idle"
    BY <1>5 DEF Finish, FinishVerified, FinishMismatch
  <2>2. faithful /\ Len(stream) = longest
    BY <1>5, <2>1 DEF Concludes, Finish, HostSeesVerdict
  <2>3. buffer = stream
    BY <2>2, SeqEqual DEF RamIInv, RamTypeOK, HostTypeOK, StreamInBuffer,
                          BufferEndsAtLongest
  <2>4. Upload!Conclude
    BY <1>5, <2>1, <2>3 DEF Upload!Conclude, Finish, Matches, HostSeesVerdict
  <2> QED BY <2>4 DEF Upload!UploadNext
<1>6. CASE Refused
  BY <1>6 DEF Refused, RefusedByHandler, ShortStart, ShortChunk, Refuse, session,
              ChunkOutsideSession, FinishOutsideSession, UnknownOta, hostVars,
              Upload!uploadVars
<1>7. CASE Reboot
  BY <1>7 DEF Reboot, HostBegins, Upload!Lose, Upload!UploadNext
<1> QED BY <1>1, <1>2, <1>3, <1>4, <1>5, <1>6, <1>7 DEF RamNext

\* Seen through the answers alone, the handler over the RAM writer is OtaUpload
\* for a host that sends in order and never less than was sent before.
THEOREM RamImplementsUpload == OrderlySpec => ImplementsUpload
<1>1. ASSUME UNCHANGED ramVars
      PROVE  UNCHANGED Upload!uploadVars
  BY <1>1 DEF ramVars, session, hostVars, Upload!uploadVars
<1>2. RamIInv /\ [RamNext /\ Orderly]_ramVars => [Upload!UploadNext]_(Upload!uploadVars)
  BY <1>1, UploadNext
<1> QED BY <1>2, UploadInit, OrderlyInductive, PTL
        DEF OrderlySpec, ImplementsUpload, Upload!UploadSpec

=============================================================================
