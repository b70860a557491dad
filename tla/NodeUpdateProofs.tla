-------------------------- MODULE NodeUpdateProofs --------------------------
(***************************************************************************)
(* For any images, buffer capacity, chunk size and checksum function, and  *)
(* any number of failures of the link: host and node agree on what is in   *)
(* the buffer, an image is refused only for its size or for a larger one   *)
(* before it on the same connection, neither waits for the other in vain,  *)
(* and the uploads that go through the program implement OtaUpload.        *)
(***************************************************************************)
EXTENDS NodeUpdate, RamOtaProofs

-----------------------------------------------------------------------------
(* Images and chunks                                                       *)

LEMMA ImageFacts ==
    ASSUME NEW image \in Images
    PROVE  /\ image \in Seq(Byte) /\ Len(image) \in Nat
           /\ 0..Len(image) \subseteq Offsets
           /\ Len(image) + MaxChunk < UsizeModulus
           /\ <<Len(image), Crc(image)>> \in Announcements
  BY UpdateAssumption, LenProperties

\* A chunk of an image: some of its bytes, and at least one.
LEMMA ChunkFacts ==
    ASSUME NEW image \in Images, NEW n \in Nat, n < Len(image)
    PROVE  /\ ChunkAt(image, n).name = "OTA_CHUNK" /\ ChunkAt(image, n).offset = n
           /\ ChunkAt(image, n).data \in Chunks /\ ChunkAt(image, n).data \in Seq(Byte)
           /\ Len(ChunkAt(image, n).data) \in Nat \ {0}
           /\ n + Len(ChunkAt(image, n).data) <= Len(image)
           /\ \A i \in 1..Len(ChunkAt(image, n).data) : ChunkAt(image, n).data[i] = image[n + i]
<1> DEFINE last == IF n + MaxChunk <= Len(image) THEN n + MaxChunk ELSE Len(image)
           data == SubSeq(image, n + 1, last)
           m == last - n
<1>1. image \in Seq(Byte) /\ Len(image) \in Nat /\ MaxChunk \in Nat /\ MaxChunk > 0
  BY ImageFacts, UpdateAssumption, HostAssumption
<1>2. last \in Nat /\ n < last /\ last <= Len(image) /\ m \in 1..MaxChunk /\ m \in Nat
  BY <1>1
<1>3. ChunkAt(image, n) = [name |-> "OTA_CHUNK", offset |-> n, data |-> data]
  BY DEF ChunkAt
<1> HIDE DEF last
<1>4. /\ data \in Seq(Byte) /\ Len(data) = m
      /\ \A i \in 1..m : data[i] = image[n + i]
  <2>1. n + 1 \in 1..(Len(image) + 1) /\ last \in n..Len(image)
    BY <1>1, <1>2
  <2>. QED
    BY <1>1, <1>2, <2>1, SubSeqProperties
<1>5. data \in [1..m -> Byte]
  BY <1>4, LenProperties
<1>6. data \in Chunks
  <2> HIDE DEF data, m
  <2>1. m \in 0..MaxChunk
    BY <1>1, <1>2
  <2>. QED
    BY <1>5, <2>1 DEF Chunks
<1>. QED
  BY <1>2, <1>3, <1>4, <1>6

-----------------------------------------------------------------------------
(* The inductive invariant                                                 *)

\* The buffer starts with n bytes of the host's image.
InBuffer(n) ==
    /\ n <= Len(buffer)
    /\ \A i \in 1..n : buffer[i] = uploading[i]

\* What lies behind n bytes of it is left of a larger image.
NothingBeyond(n) == Len(buffer) <= Larger(n, largest)

\* The node is in the session of the host's image and has stored n bytes of it.
Stored(n) ==
    /\ state = "Receiving" /\ faithful
    /\ expectedCrc = Crc(uploading)
    /\ Len(stream) = n /\ n <= Len(uploading)
    /\ InBuffer(n) /\ NothingBeyond(n)

NextCommand ==
    IF step = "start" THEN StartOf(uploading)
    ELSE IF step = "chunk" THEN ChunkAt(uploading, next)
    ELSE FinishCommand

\* The node has carried out what the host knows of, and no more.
Agreed ==
    /\ step = "handshake" => buffer = <<>> /\ next = 0 /\ largest = 0
    /\ step = "start" => Len(buffer) <= largest /\ next = 0
    /\ step = "chunk" => Stored(next) /\ next < Len(uploading)
    /\ step = "finish" => Stored(Len(uploading)) /\ next = Len(uploading)
    /\ step = "verified" =>
           /\ InBuffer(Len(uploading)) /\ next = Len(uploading)
           /\ Crc(buffer) = Crc(uploading)
    /\ step = "refused" => Capacity < Len(uploading) \/ Len(uploading) < largest
    /\ step \in {"verified", "refused"} => NothingBeyond(Len(uploading))

\* The node has carried out the command the host is waiting for.
Ahead ==
    \/ step = "start" /\ ack.success = TRUE /\ Stored(0)
    \/ /\ step = "chunk" /\ ack.success = TRUE /\ next < Len(uploading)
       /\ Stored(next + Len(ChunkAt(uploading, next).data))
    \/ step = "chunk" /\ ack.success = FALSE /\ Stored(next) /\ Capacity < Len(uploading)
    \/ /\ step = "finish" /\ next = Len(uploading)
       /\ InBuffer(Len(uploading)) /\ NothingBeyond(Len(uploading))
       /\ \/ ack.success = TRUE /\ Crc(buffer) = Crc(uploading)
          \/ ack.success = FALSE /\ Len(uploading) < largest

Answered == Node!Ack(NextCommand, ack.success)

Pausing == phase \in {"read", "stopped"}

Greeting ==
    /\ step = "handshake" /\ ~awaiting
    /\ inbox = <<>>
    /\ outbox = <<>> \/ (Pausing /\ \E frame : outbox = <<frame>>)
    /\ Agreed

Quiet ==
    /\ step # "handshake" /\ ~awaiting
    /\ inbox = <<>> /\ outbox = <<>> /\ Pausing
    /\ Agreed

Asked ==
    /\ step \in {"start", "chunk", "finish"} /\ awaiting
    /\ inbox = <<Node!Command(NextCommand)>> /\ outbox = <<>> /\ Pausing
    /\ Agreed

\* The answer is being written, on its way or lost.
Carried ==
    /\ awaiting
    /\ inbox = <<>>
    /\ \/ phase = "write" /\ reply = Answered /\ outbox = <<>>
       \/ Pausing /\ outbox = <<Answered>>
       \/ Pausing /\ outbox = <<>>
    /\ Ahead

UpdateInv ==
    /\ RamIInv
    /\ uploading \in Images /\ next \in Nat /\ largest \in Nat
    /\ Greeting \/ Quiet \/ Asked \/ Carried

LEMMA RamEmpty ==
    ASSUME NewNode
    PROVE  RamIInv'
<1>1. /\ state' = "Idle" /\ received' = 0 /\ expectedSize' = 0 /\ expectedCrc' = 0
      /\ ack' = NoAck /\ stream' = <<>> /\ verdict' = "none"
      /\ buffer' = <<>> /\ longest' = 0
  BY DEF NewNode
<1>2. faithful' \in BOOLEAN /\ halted' \in BOOLEAN
  BY Zenon DEF NewNode
<1>3. HandlerTypeOK'
  BY <1>1, HandlerAssumption DEF HandlerTypeOK, OtaState
<1>4. HostTypeOK'
  BY <1>1, <1>2, EmptySeq DEF HostTypeOK, Verdict
<1>5. buffer' \in Seq(Byte) /\ Len(buffer') = 0 /\ 0 <= Capacity
  BY <1>1, EmptySeq, RamAssumption
<1>6. RamTypeOK'
  BY <1>1, <1>2, <1>3, <1>4, <1>5 DEF RamTypeOK
<1>7. StreamInBuffer' /\ BufferEndsAtLongest'
  BY <1>1, <1>5, EmptyStreamInBuffer DEF BufferEndsAtLongest
<1>. QED
  BY <1>6, <1>7 DEF RamIInv

LEMMA InitUpdateInv == UpdateInit => UpdateInv
<1> SUFFICES ASSUME UpdateInit PROVE UpdateInv
  OBVIOUS
<1>1. RamIInv
  BY RamInitIInv DEF UpdateInit
<1>2. Greeting
  <2>1. /\ step = "handshake" /\ ~awaiting /\ next = 0 /\ largest = 0
        /\ inbox = <<>> /\ outbox = <<>>
    BY DEF UpdateInit, Node!ReactorInit
  <2>2. buffer = <<>>
    BY DEF UpdateInit, RamInit
  <2>. QED
    BY <2>1, <2>2 DEF Greeting, Agreed
<1>. QED
  BY <1>1, <1>2 DEF UpdateInv, UpdateInit

-----------------------------------------------------------------------------
(* A command is carried out                                                *)

\* The command the node reads is the one the host waits for.
LEMMA CarriesTheNext ==
    ASSUME UpdateInv, NEW command \in Commands, Carry(command)
    PROVE  /\ command = NextCommand /\ Asked /\ Agreed
           /\ Handles(command)
           /\ phase' = "write" /\ inbox' = <<>> /\ outbox' = <<>>
           /\ reply' = Node!Ack(command, ack'.success)
           /\ UNCHANGED <<uploading, step, next, awaiting, largest>>
<1>1. /\ phase = "read" /\ inbox # <<>> /\ Node!Command(command) = Head(inbox)
      /\ inbox' = Tail(inbox) /\ outbox' = outbox
      /\ phase' = "write" /\ reply' = Node!Ack(command, ack'.success)
      /\ Handles(command) /\ UNCHANGED <<uploading, step, next, awaiting, largest>>
  BY DEF Carry, Node!Serve, Node!Reads, hostSide
<1>2. Asked
  BY <1>1 DEF UpdateInv, Greeting, Quiet, Carried
<1>3. inbox = <<Node!Command(NextCommand)>> /\ outbox = <<>>
  BY <1>2 DEF Asked
<1>4. Head(inbox) = Node!Command(NextCommand) /\ Tail(inbox) = <<>>
  BY <1>3
<1>5. command = NextCommand
  <2>1. Node!Command(command).id = command /\ Node!Command(NextCommand).id = NextCommand
    BY DEF Node!Command
  <2>. QED
    BY <1>1, <1>4, <2>1
<1>. QED
  BY <1>1, <1>2, <1>3, <1>4, <1>5 DEF Asked

\* The command has the shape its step of the host gives it.
LEMMA CommandOfStep ==
    ASSUME NEW command, command = NextCommand, step \in {"start", "chunk", "finish"},
           uploading \in Images, next \in Nat, step = "chunk" => next < Len(uploading)
    PROVE  /\ command.name = "OTA_START" <=> step = "start"
           /\ command.name = "OTA_CHUNK" <=> step = "chunk"
           /\ command.name = "OTA_FINISH" <=> step = "finish"
           /\ step = "start" => command.size = Len(uploading) /\ command.crc = Crc(uploading)
           /\ step = "chunk" => command = ChunkAt(uploading, next)
  BY ChunkFacts DEF NextCommand, StartOf, FinishCommand

LEMMA StartCarried ==
    ASSUME UpdateInv, step = "start", Agreed, UNCHANGED <<uploading, step, next, largest>>,
           Start(Len(uploading), Crc(uploading))
    PROVE  Ahead' /\ RamNext
<1>1. RamNext
  <2>1. <<Len(uploading), Crc(uploading)>> \in Announcements
    BY ImageFacts DEF UpdateInv
  <2> DEFINE a == <<Len(uploading), Crc(uploading)>>
  <2>2. Start(a[1], a[2]) /\ a \in Announcements
    BY <2>1
  <2> HIDE DEF a
  <2>. QED
    BY <2>2 DEF RamNext
<1>2. /\ state' = "Receiving" /\ faithful' = TRUE /\ expectedCrc' = Crc(uploading)
      /\ stream' = <<>> /\ buffer' = buffer /\ ack'.success = TRUE
  BY DEF Start, OtaStart, HostBegins, Accept, Ack
<1>3. /\ Len(buffer) <= largest /\ largest \in Nat /\ Len(buffer) \in Nat
      /\ Len(<<>>) = 0 /\ Len(uploading) \in Nat
  BY ImageFacts, LenProperties DEF Agreed, UpdateInv, RamIInv, RamTypeOK
<1>4. Stored(0)'
  BY <1>2, <1>3 DEF Stored, InBuffer, NothingBeyond, Larger
<1>. QED
  BY <1>1, <1>2, <1>4 DEF Ahead

LEMMA ChunkCarried ==
    ASSUME UpdateInv, step = "chunk", Agreed, UNCHANGED <<uploading, step, next, largest>>,
           NEW data, data = ChunkAt(uploading, next).data,
           ChunkStored(next, data)
    PROVE  Ahead' /\ RamNext
<1>1. /\ uploading \in Images /\ next \in Nat /\ next < Len(uploading) /\ Stored(next)
      /\ uploading \in Seq(Byte) /\ Len(uploading) \in Nat
  BY ImageFacts DEF UpdateInv, Agreed
<1>2. /\ data \in Chunks /\ data \in Seq(Byte) /\ Len(data) \in Nat \ {0}
      /\ next + Len(data) <= Len(uploading)
      /\ \A i \in 1..Len(data) : data[i] = uploading[next + i]
  BY <1>1, ChunkFacts
<1>3. next \in Offsets
  <2>1. next \in 0..Len(uploading)
    BY <1>1
  <2>. QED
    BY <1>1, <2>1, ImageFacts
<1>4. RamNext
  BY <1>2, <1>3 DEF RamNext
<1>5. /\ state' = "Receiving" /\ ack'.success = TRUE /\ expectedCrc' = expectedCrc
      /\ buffer' = Written(next, data)
  BY DEF ChunkStored, ChunkWritten, Accept, Ack
<1>6. /\ Len(stream) = next /\ faithful
      /\ expectedCrc = Crc(uploading)
      /\ next <= Len(buffer) /\ \A i \in 1..next : buffer[i] = uploading[i]
      /\ Len(buffer) <= Larger(next, largest)
  BY <1>1 DEF Stored, InBuffer, NothingBeyond
<1>7. /\ buffer \in Seq(Byte) /\ stream \in Seq(Byte) /\ Len(buffer) \in Nat
      /\ largest \in Nat
  BY LenProperties DEF UpdateInv, RamIInv, RamTypeOK, HostTypeOK
<1>8. faithful' /\ stream' = stream \o data
  BY <1>6 DEF ChunkStored, HostSeesChunk, Continues
<1>9. Len(stream') = next + Len(data)
  <2>1. Len(stream \o data) = Len(stream) + Len(data)
    BY <1>2, <1>7, ConcatProperties
  <2>. QED
    BY <1>6, <1>8, <2>1
<1>10. /\ Len(buffer') = Larger(Len(buffer), next + Len(data))
       /\ \A i \in 1..Len(buffer') :
              buffer'[i] = IF i \in (next + 1)..(next + Len(data)) THEN data[i - next]
                           ELSE IF i <= Len(buffer) THEN buffer[i] ELSE 0
  <2>1. End(next, data) = next + Len(data)
    BY DEF End
  <2>2. /\ Len(Written(next, data)) = Larger(Len(buffer), End(next, data))
        /\ \A i \in 1..Len(Written(next, data)) :
               Written(next, data)[i] =
                   IF i \in (next + 1)..End(next, data) THEN data[i - next]
                   ELSE IF i <= Len(buffer) THEN buffer[i] ELSE 0
    BY <1>1, <1>2, <1>7, WrittenBytes
  <2>. QED
    BY <1>5, <2>1, <2>2
<1>11. /\ next + Len(data) <= Len(buffer') /\ Len(buffer') \in Nat
       /\ Len(buffer') <= Larger(next + Len(data), largest)
  BY <1>1, <1>2, <1>6, <1>7, <1>10 DEF Larger
<1>12. ASSUME NEW i \in 1..(next + Len(data)) PROVE buffer'[i] = uploading[i]
  <2>1. i \in 1..Len(buffer')
    BY <1>1, <1>2, <1>11
  <2>2. CASE i \in (next + 1)..(next + Len(data))
    <3>1. i - next \in 1..Len(data) /\ next + (i - next) = i
      BY <1>1, <1>2, <2>2
    <3>. QED
      BY <1>2, <1>10, <2>1, <2>2, <3>1
  <2>3. CASE i \notin (next + 1)..(next + Len(data))
    <3>1. i \in 1..next /\ i <= Len(buffer)
      BY <1>1, <1>2, <1>6, <1>7, <2>3
    <3>. QED
      BY <1>6, <1>10, <2>1, <2>3, <3>1
  <2>. QED
    BY <2>2, <2>3
<1>13. Ahead'
  <2>1. (next + Len(ChunkAt(uploading, next).data))' = next + Len(data)
    BY DEF ChunkAt
  <2>2. Stored(next + Len(data))'
    BY <1>2, <1>5, <1>6, <1>8, <1>9, <1>11, <1>12 DEF Stored, InBuffer, NothingBeyond
  <2>. QED
    BY <1>1, <1>5, <2>1, <2>2 DEF Ahead, ChunkAt, Stored, InBuffer, NothingBeyond
<1>. QED
  BY <1>4, <1>13

LEMMA ChunkRefused ==
    ASSUME UpdateInv, step = "chunk", Agreed, UNCHANGED <<uploading, step, next, largest>>,
           NEW data, data = ChunkAt(uploading, next).data,
           ChunkTooFar(next, data)
    PROVE  Ahead' /\ RamNext
<1>1. /\ uploading \in Images /\ next \in Nat /\ next < Len(uploading) /\ Stored(next)
      /\ Len(uploading) \in Nat
  BY ImageFacts DEF UpdateInv, Agreed
<1>2. /\ data \in Chunks /\ Len(data) \in Nat /\ next + Len(data) <= Len(uploading)
  BY <1>1, ChunkFacts
<1>3. next \in Offsets
  <2>1. next \in 0..Len(uploading)
    BY <1>1
  <2>. QED
    BY <1>1, <2>1, ImageFacts
<1>4. RamNext
  BY <1>2, <1>3 DEF RamNext
<1>5. /\ UNCHANGED <<state, expectedCrc, stream, faithful, buffer>> /\ ack'.success = FALSE
  BY DEF ChunkTooFar, ChunkRefusedByWriter, Refuse, session, hostVars, Ack
<1>6. Stored(next)'
  BY <1>1, <1>5 DEF Stored, InBuffer, NothingBeyond
<1>7. Capacity < Len(uploading)
  <2>1. ~(next + Len(data) <= Capacity)
    BY DEF ChunkTooFar, Fits, End
  <2>. QED
    BY <1>1, <1>2, <2>1, RamAssumption
<1>8. Ahead'
  BY <1>5, <1>6, <1>7 DEF Ahead
<1>. QED
  BY <1>4, <1>8

\* The whole image is in the buffer: its checksum is the announced one, unless
\* something is left behind it.
LEMMA FinishCarried ==
    ASSUME UpdateInv, step = "finish", Agreed, UNCHANGED <<uploading, step, next, largest>>, Finish
    PROVE  Ahead' /\ RamNext
<1>1. /\ uploading \in Seq(Byte) /\ buffer \in Seq(Byte)
      /\ Len(uploading) \in Nat /\ Len(buffer) \in Nat /\ largest \in Nat
      /\ Stored(Len(uploading)) /\ next = Len(uploading)
  BY ImageFacts, LenProperties DEF UpdateInv, Agreed, RamIInv, RamTypeOK
<1>2. /\ Len(uploading) <= Len(buffer)
      /\ \A i \in 1..Len(uploading) : buffer[i] = uploading[i]
      /\ Len(buffer) <= Larger(Len(uploading), largest)
      /\ expectedCrc = Crc(uploading) /\ faithful /\ Len(stream) = Len(uploading)
  BY <1>1 DEF Stored, InBuffer, NothingBeyond
<1>3. ASSUME Matches PROVE Ahead'
  <2>1. ack'.success = TRUE /\ buffer' = buffer
    BY <1>3 DEF Finish, FinishVerified, Accept, Ack
  <2>2. Crc(buffer) = Crc(uploading)
    BY <1>2, <1>3 DEF Matches
  <2>3. InBuffer(Len(uploading))' /\ NothingBeyond(Len(uploading))'
    BY <1>2, <2>1 DEF InBuffer, NothingBeyond
  <2>4. Crc(buffer') = Crc(uploading')
    BY <2>1, <2>2
  <2>. QED
    BY <1>1, <2>1, <2>3, <2>4 DEF Ahead
<1>4. ASSUME ~Matches PROVE Ahead'
  <2>1. Len(uploading) < largest
    <3>1. Len(buffer) # Len(uploading)
      BY <1>1, <1>2, <1>4, SeqEqual DEF Matches
    <3>. QED
      BY <1>1, <1>2, <3>1 DEF Larger
  <2>2. ack'.success = FALSE /\ buffer' = buffer
    BY <1>4 DEF Finish, FinishMismatch, Ack
  <2>3. InBuffer(Len(uploading))' /\ NothingBeyond(Len(uploading))'
    BY <1>2, <2>2 DEF InBuffer, NothingBeyond
  <2>. QED
    BY <1>1, <2>1, <2>2, <2>3 DEF Ahead
<1>5. RamNext
  BY DEF RamNext
<1>. QED
  BY <1>3, <1>4, <1>5

LEMMA CarryGoesAhead ==
    ASSUME UpdateInv, NEW command \in Commands, Carry(command)
    PROVE  Ahead' /\ RamNext
<1>1. /\ command = NextCommand /\ Asked /\ Agreed /\ Handles(command)
      /\ UNCHANGED <<uploading, step, next, largest>>
  BY CarriesTheNext
<1>2. /\ step \in {"start", "chunk", "finish"} /\ uploading \in Images /\ next \in Nat
      /\ step = "chunk" => next < Len(uploading)
  BY <1>1 DEF Asked, Agreed, UpdateInv
<1>3. /\ command.name = "OTA_START" <=> step = "start"
      /\ command.name = "OTA_CHUNK" <=> step = "chunk"
      /\ command.name = "OTA_FINISH" <=> step = "finish"
      /\ step = "start" => command.size = Len(uploading) /\ command.crc = Crc(uploading)
      /\ step = "chunk" => command = ChunkAt(uploading, next)
  BY <1>1, <1>2, CommandOfStep
<1>4. CASE step = "start"
  BY <1>1, <1>3, <1>4, StartCarried DEF Handles
<1>5. CASE step = "chunk"
  <2>1. command.offset = next
    BY <1>2, <1>3, <1>5, ChunkFacts
  <2> DEFINE data == ChunkAt(uploading, next).data
  <2>2. ChunkStored(next, data) \/ ChunkTooFar(next, data)
    BY <1>1, <1>3, <1>5, <2>1 DEF Handles
  <2> HIDE DEF data
  <2>3. data = ChunkAt(uploading, next).data
    BY DEF data
  <2>. QED
    BY <1>1, <1>5, <2>2, <2>3, ChunkCarried, ChunkRefused
<1>6. CASE step = "finish"
  BY <1>1, <1>3, <1>6, FinishCarried DEF Handles
<1>. QED
  BY <1>2, <1>4, <1>5, <1>6

-----------------------------------------------------------------------------
(* The steps of the composed system                                        *)

LEMMA CarryKeepsInv ==
    ASSUME UpdateInv, NEW command \in Commands, Carry(command)
    PROVE  UpdateInv'
<1>1. Ahead' /\ RamNext
  BY CarryGoesAhead
<1>2. RamIInv'
  BY <1>1, RamNextIInv DEF UpdateInv
<1>3. /\ command = NextCommand /\ Asked
      /\ phase' = "write" /\ inbox' = <<>> /\ outbox' = <<>>
      /\ reply' = Node!Ack(command, ack'.success)
      /\ UNCHANGED <<uploading, step, next, awaiting, largest>>
  BY CarriesTheNext
<1>4. NextCommand' = NextCommand
  BY <1>3 DEF NextCommand, StartOf, ChunkAt, FinishCommand
<1>5. reply' = Answered'
  BY <1>3, <1>4 DEF Answered, Node!Ack
<1>6. Carried'
  BY <1>1, <1>3, <1>5 DEF Carried, Asked
<1>. QED
  BY <1>2, <1>3, <1>6 DEF UpdateInv

\* What is agreed does not depend on the link.
LEMMA AgreementStays ==
    ASSUME UNCHANGED <<ramVars, uploading, step, next, largest>>
    PROVE  /\ Agreed' = Agreed /\ Ahead' = Ahead
           /\ NextCommand' = NextCommand /\ Answered' = Answered
           /\ RamIInv' = RamIInv
<1>1. UNCHANGED <<state, received, expectedSize, expectedCrc, ack, stream, faithful, verdict,
                  buffer, halted, longest>>
  BY DEF ramVars, session, hostVars
<1>2. NextCommand' = NextCommand
  BY DEF NextCommand, StartOf, ChunkAt, FinishCommand
<1>3. Answered' = Answered
  BY <1>1, <1>2 DEF Answered, Node!Ack
<1>4. Agreed' = Agreed
  BY <1>1 DEF Agreed, Stored, InBuffer, NothingBeyond
<1>5. Ahead' = Ahead
  BY <1>1 DEF Ahead, Stored, InBuffer, NothingBeyond, ChunkAt
<1>6. RamIInv' = RamIInv
  BY <1>1 DEF RamIInv, RamTypeOK, HandlerTypeOK, HostTypeOK, StreamInBuffer, BufferEndsAtLongest
<1>. QED
  BY <1>2, <1>3, <1>4, <1>5, <1>6

\* The node builds itself, begins to run, or fails, while the host waits.
LEMMA NodeMovesOn ==
    ASSUME UpdateInv, UNCHANGED <<ramVars, hostSide, inbox, outbox>>,
           \/ UNCHANGED <<phase, reply>>
           \/ phase = "setup" /\ phase' = "write"
           \/ phase' = "stopped"
    PROVE  UpdateInv'
<1>1. UNCHANGED <<uploading, step, next, awaiting, largest>>
  BY DEF hostSide
<1>2. /\ Agreed' = Agreed /\ Ahead' = Ahead
      /\ NextCommand' = NextCommand /\ Answered' = Answered /\ RamIInv' = RamIInv
  BY <1>1, AgreementStays
<1>3. CASE Greeting
  <2>1. Greeting'
    BY <1>1, <1>2, <1>3 DEF Greeting, Pausing
  <2>. QED
    BY <1>1, <1>2, <2>1 DEF UpdateInv
<1>4. CASE Quiet
  <2>1. Quiet'
    BY <1>1, <1>2, <1>4 DEF Quiet, Pausing
  <2>. QED
    BY <1>1, <1>2, <2>1 DEF UpdateInv
<1>5. CASE Asked
  <2>1. Asked'
    BY <1>1, <1>2, <1>5 DEF Asked, Pausing, Node!Command
  <2>. QED
    BY <1>1, <1>2, <2>1 DEF UpdateInv
<1>6. CASE Carried
  <2>1. Carried'
    BY <1>1, <1>2, <1>6 DEF Carried, Pausing
  <2>. QED
    BY <1>1, <1>2, <2>1 DEF UpdateInv
<1>. QED
  BY <1>3, <1>4, <1>5, <1>6 DEF UpdateInv

LEMMA WriteKeepsInv == UpdateInv /\ Write => UpdateInv'
<1> SUFFICES ASSUME UpdateInv, Write PROVE UpdateInv'
  OBVIOUS
<1>1. /\ phase = "write" /\ phase' = "read" /\ inbox' = inbox
      /\ outbox' = Append(outbox, reply) /\ UNCHANGED <<ramVars, uploading, step, next, awaiting, largest>>
  BY DEF Write, Node!Send, hostSide
<1>2. /\ Agreed' = Agreed /\ Ahead' = Ahead
      /\ Answered' = Answered /\ RamIInv' = RamIInv
  BY <1>1, AgreementStays
<1>3. outbox = <<>> => outbox' = <<reply>>
  BY <1>1
<1>4. CASE Greeting
  <2>1. Greeting'
    BY <1>1, <1>2, <1>3, <1>4 DEF Greeting, Pausing
  <2>. QED
    BY <1>1, <1>2, <2>1 DEF UpdateInv
<1>5. CASE Carried
  <2>1. Carried'
    BY <1>1, <1>2, <1>3, <1>5 DEF Carried, Pausing
  <2>. QED
    BY <1>1, <1>2, <2>1 DEF UpdateInv
<1>. QED
  BY <1>1, <1>4, <1>5 DEF UpdateInv, Quiet, Asked, Pausing

LEMMA AskKeepsInv == UpdateInv /\ (AskStart \/ AskChunk \/ AskFinish) => UpdateInv'
<1> SUFFICES ASSUME UpdateInv, AskStart \/ AskChunk \/ AskFinish PROVE UpdateInv'
  OBVIOUS
<1>1. /\ step \in {"start", "chunk", "finish"} /\ Ask(Node!Command(NextCommand))
  BY DEF AskStart, AskChunk, AskFinish, NextCommand
<1>2. /\ ~awaiting /\ awaiting' = TRUE /\ inbox' = Append(inbox, Node!Command(NextCommand))
      /\ UNCHANGED <<phase, outbox, ramVars, uploading, step, next, largest>>
  BY <1>1 DEF Ask
<1>3. /\ Agreed' = Agreed /\ NextCommand' = NextCommand /\ RamIInv' = RamIInv
  BY <1>2, AgreementStays
<1>4. Quiet
  BY <1>1, <1>2 DEF UpdateInv, Greeting, Asked, Carried
<1>5. inbox' = <<Node!Command(NextCommand)>>
  BY <1>2, <1>4 DEF Quiet
<1>6. Asked'
  BY <1>1, <1>2, <1>3, <1>4, <1>5 DEF Asked, Quiet, Pausing, Node!Command
<1>. QED
  BY <1>2, <1>3, <1>6 DEF UpdateInv

LEMMA HearHandshakeKeepsInv == UpdateInv /\ HearHandshake => UpdateInv'
<1> SUFFICES ASSUME UpdateInv, HearHandshake PROVE UpdateInv'
  OBVIOUS
<1>1. /\ step = "handshake" /\ outbox # <<>> /\ outbox' = Tail(outbox) /\ step' = "start"
      /\ UNCHANGED <<phase, inbox, ramVars, uploading, next, awaiting, largest>>
  BY DEF HearHandshake, Hears
<1>2. Greeting
  BY <1>1 DEF UpdateInv, Quiet, Asked, Carried, Ahead
<1>3. outbox' = <<>> /\ Pausing
  <2>1. PICK frame : Pausing /\ outbox = <<frame>>
    BY <1>1, <1>2 DEF Greeting
  <2>2. Tail(<<frame>>) = <<>>
    OBVIOUS
  <2>. QED
    BY <1>1, <2>1, <2>2
<1>4. buffer' = buffer /\ RamIInv'
  BY <1>1 DEF UpdateInv, ramVars, session, hostVars, RamIInv, RamTypeOK, HandlerTypeOK, HostTypeOK,
     StreamInBuffer, BufferEndsAtLongest
<1>5. Agreed'
  BY <1>1, <1>2, <1>4, EmptySeq DEF Greeting, Agreed
<1>6. Quiet'
  BY <1>1, <1>2, <1>3, <1>5 DEF Quiet, Greeting, Pausing
<1>. QED
  BY <1>1, <1>4, <1>6 DEF UpdateInv

LEMMA HearAckKeepsInv == UpdateInv /\ HearAck => UpdateInv'
<1> SUFFICES ASSUME UpdateInv, HearAck PROVE UpdateInv'
  OBVIOUS
<1>1. /\ awaiting /\ ~awaiting' /\ outbox # <<>> /\ outbox' = Tail(outbox)
      /\ UNCHANGED <<phase, inbox, ramVars, uploading, largest>>
  BY DEF HearAck, Hears
<1>2. Carried
  BY <1>1 DEF UpdateInv, Greeting, Quiet, Asked
<1>3. Pausing /\ outbox = <<Answered>> /\ inbox = <<>> /\ Ahead
  BY <1>1, <1>2 DEF Carried
<1>4. Head(outbox) = Answered /\ outbox' = <<>>
  BY <1>1, <1>3
<1>5. Head(outbox).success = ack.success
  BY <1>4 DEF Answered, Node!Ack
<1>6. UNCHANGED <<state, received, expectedSize, expectedCrc, ack, stream, faithful, verdict,
                  buffer, halted, longest>>
  BY <1>1 DEF ramVars, session, hostVars
<1>7. RamIInv'
  BY <1>6 DEF UpdateInv, RamIInv, RamTypeOK, HandlerTypeOK, HostTypeOK,
              StreamInBuffer, BufferEndsAtLongest
<1>8. next' \in Nat /\ step' # "handshake" /\ Agreed'
  <2>0. /\ uploading \in Images /\ next \in Nat /\ uploading \in Seq(Byte)
        /\ Len(uploading) \in Nat /\ largest \in Nat
    BY ImageFacts DEF UpdateInv
  <2>1. CASE step = "start" /\ ack.success = TRUE /\ Stored(0)
    <3>1. next' = 0 /\ step' = IF uploading = <<>> THEN "finish" ELSE "chunk"
      BY <1>5, <2>1 DEF HearAck, AfterSuccess
    <3>2. Stored(0)'
      BY <1>1, <1>6, <2>1 DEF Stored, InBuffer, NothingBeyond
    <3>3. IF uploading = <<>> THEN Len(uploading) = 0 ELSE 0 < Len(uploading)
      BY <2>0, EmptySeq
    <3>. QED
      BY <1>1, <3>1, <3>2, <3>3 DEF Agreed
  <2>2. CASE /\ step = "chunk" /\ ack.success = TRUE /\ next < Len(uploading)
             /\ Stored(next + Len(ChunkAt(uploading, next).data))
    <3> DEFINE n == next + Len(ChunkAt(uploading, next).data)
    <3>1. next' = n /\ step' = IF next' < Len(uploading) THEN "chunk" ELSE "finish"
      BY <1>5, <2>2 DEF HearAck, AfterSuccess
    <3>2. n \in Nat /\ n <= Len(uploading)
      BY <2>0, <2>2, ChunkFacts
    <3> HIDE DEF n
    <3>3. Stored(n)
      BY <2>2 DEF n
    <3>4. Stored(next)'
      BY <1>1, <1>6, <3>1, <3>3 DEF Stored, InBuffer, NothingBeyond
    <3>5. CASE n < Len(uploading)
      BY <1>1, <3>1, <3>2, <3>4, <3>5 DEF Agreed
    <3>6. CASE n = Len(uploading)
      <4>1. step' = "finish" /\ next' = Len(uploading)
        BY <2>0, <3>1, <3>6
      <4>2. Stored(Len(uploading))'
        BY <1>1, <3>4, <4>1 DEF Stored, InBuffer, NothingBeyond
      <4>. QED
        BY <1>1, <2>0, <4>1, <4>2 DEF Agreed
    <3>. QED
      BY <2>0, <3>2, <3>5, <3>6
  <2>3. CASE step = "chunk" /\ ack.success = FALSE /\ Stored(next) /\ Capacity < Len(uploading)
    <3>1. next' = next /\ step' = "refused"
      BY <1>5, <2>3 DEF HearAck
    <3>2. Len(buffer) <= Larger(Len(uploading), largest)
      <4>1. Len(buffer) <= Larger(next, largest) /\ next <= Len(uploading) /\ Len(buffer) \in Nat
        BY <2>3, LenProperties DEF Stored, NothingBeyond, UpdateInv, RamIInv, RamTypeOK
      <4>. QED
        BY <2>0, <4>1 DEF Larger
    <3>. QED
      BY <1>1, <1>6, <2>0, <2>3, <3>1, <3>2 DEF Agreed, NothingBeyond
  <2>4. CASE /\ step = "finish" /\ next = Len(uploading) /\ ack.success = TRUE
             /\ InBuffer(Len(uploading)) /\ NothingBeyond(Len(uploading))
             /\ Crc(buffer) = Crc(uploading)
    <3>1. next' = next /\ step' = "verified"
      BY <1>5, <2>4 DEF HearAck, AfterSuccess
    <3>. QED
      BY <1>1, <1>6, <2>0, <2>4, <3>1 DEF Agreed, InBuffer, NothingBeyond
  <2>5. CASE /\ step = "finish" /\ ack.success = FALSE
             /\ NothingBeyond(Len(uploading)) /\ Len(uploading) < largest
    <3>1. next' = next /\ step' = "refused"
      BY <1>5, <2>5 DEF HearAck
    <3>. QED
      BY <1>1, <1>6, <2>0, <2>5, <3>1 DEF Agreed, NothingBeyond
  <2>. QED
    BY <1>3, <2>1, <2>2, <2>3, <2>4, <2>5 DEF Ahead
<1>9. Quiet'
  BY <1>1, <1>3, <1>4, <1>8 DEF Quiet, Pausing
<1>. QED
  BY <1>1, <1>7, <1>8, <1>9 DEF UpdateInv

\* The next image finds what is left of the ones before it.
LEMMA GoOnKeepsInv == UpdateInv /\ GoOn => UpdateInv'
<1> SUFFICES ASSUME UpdateInv, GoOn PROVE UpdateInv'
  OBVIOUS
<1>1. /\ step \in {"verified", "refused"} /\ step' = "start" /\ uploading' \in Images
      /\ next' = 0 /\ largest' = Larger(largest, Len(uploading))
      /\ UNCHANGED <<phase, inbox, outbox, ramVars, awaiting>>
  BY DEF GoOn
<1>2. Quiet
  BY <1>1 DEF UpdateInv, Greeting, Asked, Carried, Ahead
<1>3. buffer' = buffer /\ RamIInv'
  BY <1>1 DEF UpdateInv, ramVars, session, hostVars, RamIInv, RamTypeOK, HandlerTypeOK, HostTypeOK,
     StreamInBuffer, BufferEndsAtLongest
<1>4. largest' \in Nat /\ Len(buffer) <= largest'
  <2>1. /\ Len(buffer) <= Larger(Len(uploading), largest)
        /\ Len(uploading) \in Nat /\ largest \in Nat /\ Len(buffer) \in Nat
    BY <1>1, <1>2, ImageFacts, LenProperties
       DEF Quiet, Agreed, NothingBeyond, UpdateInv, RamIInv, RamTypeOK
  <2>. QED
    BY <1>1, <2>1 DEF Larger
<1>5. Quiet'
  BY <1>1, <1>2, <1>3, <1>4 DEF Quiet, Agreed, Pausing
<1>. QED
  BY <1>1, <1>3, <1>4, <1>5 DEF UpdateInv

\* Whatever was under way on the old connection, both sides begin again.
LEMMA ReconnectKeepsInv == UpdateInv /\ Reconnect => UpdateInv'
<1> SUFFICES ASSUME UpdateInv, Reconnect PROVE UpdateInv'
  OBVIOUS
<1>1. /\ inbox' = <<>> /\ outbox' = <<>> /\ buffer' = <<>>
      /\ step' = "handshake" /\ next' = 0 /\ largest' = 0 /\ ~awaiting'
  BY DEF Reconnect, NewNode
<1>2. uploading' \in Images
  BY DEF Reconnect, UpdateInv
<1>3. RamIInv'
  BY RamEmpty DEF Reconnect
<1>4. Greeting'
  BY <1>1 DEF Greeting, Agreed
<1>. QED
  BY <1>1, <1>2, <1>3, <1>4 DEF UpdateInv

LEMMA UpdateStutters == UpdateInv /\ UNCHANGED updateVars => UpdateInv'
<1> SUFFICES ASSUME UpdateInv, UNCHANGED updateVars PROVE UpdateInv'
  OBVIOUS
<1>. QED
  BY NodeMovesOn DEF updateVars

LEMMA NextUpdateInv == UpdateInv /\ [UpdateNext]_updateVars => UpdateInv'
<1> SUFFICES ASSUME UpdateInv, [UpdateNext]_updateVars PROVE UpdateInv'
  OBVIOUS
<1>1. CASE Build
  BY <1>1, NodeMovesOn DEF Build, Node!Register
<1>2. CASE Run
  BY <1>2, NodeMovesOn DEF Run, Node!Run
<1>3. CASE \E command \in Commands : Carry(command)
  BY <1>3, CarryKeepsInv
<1>4. CASE WriteFails
  BY <1>4, NodeMovesOn DEF WriteFails, Node!SendFails
<1>5. CASE ReadFails \/ HangUp
  BY <1>5, NodeMovesOn DEF ReadFails, HangUp, Node!ReadFails
<1>. QED
  BY <1>1, <1>2, <1>3, <1>4, <1>5, WriteKeepsInv, AskKeepsInv, HearHandshakeKeepsInv,
     HearAckKeepsInv, GoOnKeepsInv, ReconnectKeepsInv, UpdateStutters DEF UpdateNext, ProgramStep, HostStep

LEMMA UpdateInductive == UpdateSpec => []UpdateInv
BY InitUpdateInv, NextUpdateInv, PTL DEF UpdateSpec

-----------------------------------------------------------------------------
(* What the host may rely on                                               *)

\* However often the link fails between a command, its execution and its
\* acknowledgement, and however many images a connection carries, what the host
\* counts as delivered is in the buffer of the node it talks to.
THEOREM HostAndNodeAgree == UpdateSpec => []HostKnowsTheBuffer
<1>1. ASSUME UpdateInv PROVE HostKnowsTheBuffer
  <2>0. uploading \in Images /\ uploading \in Seq(Byte) /\ next \in Nat
    BY <1>1, ImageFacts DEF UpdateInv
  <2>1. Agreed \/ Ahead
    BY <1>1 DEF UpdateInv, Greeting, Quiet, Asked, Carried
  <2>2. CASE step = "chunk"
    <3>1. Stored(next) \/ (next < Len(uploading) /\ Stored(next + Len(ChunkAt(uploading, next).data)))
      BY <2>1, <2>2 DEF Agreed, Ahead
    <3>2. CASE Stored(next)
      BY <2>0, <2>2, <3>2 DEF HostKnowsTheBuffer, Stored, InBuffer
    <3>3. CASE next < Len(uploading) /\ Stored(next + Len(ChunkAt(uploading, next).data))
      <4> DEFINE m == Len(ChunkAt(uploading, next).data)
      <4>1. m \in Nat
        BY <2>0, <3>3, ChunkFacts
      <4> HIDE DEF m
      <4>2. next + m <= Len(buffer) /\ \A i \in 1..(next + m) : buffer[i] = uploading[i]
        BY <3>3 DEF m, Stored, InBuffer
      <4>3. Len(buffer) \in Nat
        BY <1>1, LenProperties DEF UpdateInv, RamIInv, RamTypeOK
      <4>. QED
        BY <2>0, <2>2, <4>1, <4>2, <4>3 DEF HostKnowsTheBuffer
    <3>. QED
      BY <3>1, <3>2, <3>3
  <2>3. CASE step \in {"finish", "verified"}
    <3>1. /\ next = Len(uploading) /\ InBuffer(Len(uploading))
          /\ step = "verified" => Crc(buffer) = Crc(uploading)
      BY <2>1, <2>3 DEF Agreed, Ahead, Stored
    <3>. QED
      BY <2>3, <3>1 DEF HostKnowsTheBuffer, InBuffer
  <2>. QED
    BY <2>2, <2>3 DEF HostKnowsTheBuffer
<1>. QED
  BY <1>1, UpdateInductive, PTL

\* On any connection, whatever came before on other ones, an image is refused
\* only if it is larger than the buffer or smaller than one before it on that
\* connection, and an image that is too large never gets as far as a verdict.
THEOREM RefusalHasACause == UpdateSpec => []RefusedOnlyForCause
<1>1. ASSUME UpdateInv PROVE RefusedOnlyForCause
  <2>0. uploading \in Images /\ Len(uploading) \in Nat /\ Capacity \in Nat /\ largest \in Nat
    BY <1>1, ImageFacts, RamAssumption DEF UpdateInv
  <2>1. Agreed \/ Ahead
    BY <1>1 DEF UpdateInv, Greeting, Quiet, Asked, Carried
  <2>2. Len(buffer) <= Capacity /\ Len(buffer) \in Nat
    BY <1>1, LenProperties DEF UpdateInv, RamIInv, RamTypeOK
  <2>3. step = "refused" => Len(uploading) > Capacity \/ Len(uploading) < largest
    BY <2>0, <2>1 DEF Agreed, Ahead
  <2>4. step \in {"finish", "verified"} => Len(uploading) <= Len(buffer)
    BY <2>1 DEF Agreed, Ahead, Stored, InBuffer
  <2>. QED
    BY <2>0, <2>2, <2>3, <2>4 DEF RefusedOnlyForCause
<1>. QED
  BY <1>1, UpdateInductive, PTL

\* What the program adds to the types of the writer: the registry and the
\* reactor of the node, the host's place in its image and the link's failures.
ProgramTypes ==
    /\ entries \in Seq({Builds[i] : i \in 1..Len(Builds)})
    /\ Len(entries) <= MaxCapabilities
    /\ ota \in BOOLEAN
    /\ phase \in Node!Phase
    /\ step \in Step
    /\ next <= Len(uploading)
    /\ failures \in 0..MaxFailures
    /\ largest \in {0} \cup {Len(image) : image \in Images}

LEMMA InitProgramTypes == UpdateInit => ProgramTypes
<1> SUFFICES ASSUME UpdateInit PROVE ProgramTypes
  OBVIOUS
<1>1. /\ entries = <<>> /\ ota = FALSE /\ phase = "setup" /\ step = "handshake"
      /\ next = 0 /\ failures = 0 /\ largest = 0 /\ uploading \in Images
  BY DEF UpdateInit, Node!ReactorInit, Node!RegistryInit
<1>2. entries \in Seq({Builds[i] : i \in 1..Len(Builds)}) /\ Len(entries) = 0
  BY <1>1, EmptySeq
<1>3. Len(uploading) \in Nat /\ MaxCapabilities \in Nat /\ MaxFailures \in Nat
  BY <1>1, ImageFacts, UpdateAssumption
<1>4. Len(entries) <= MaxCapabilities /\ next <= Len(uploading) /\ failures \in 0..MaxFailures
  BY <1>1, <1>2, <1>3
<1>5. ota \in BOOLEAN /\ phase \in Node!Phase /\ step \in Step
  BY <1>1 DEF Node!Phase, Step
<1>. QED
  BY <1>1, <1>2, <1>4, <1>5 DEF ProgramTypes

\* A node that is being built registers what the program names next.
LEMMA BuildKeepsTypes ==
    ASSUME ProgramTypes, Build
    PROVE  ProgramTypes'
<1> DEFINE Cap == {Builds[i] : i \in 1..Len(Builds)}
<1>1. PICK cap \in Cap : /\ ota' = (ota \/ cap = "Ota")
                         /\ entries' = IF Len(entries) < MaxCapabilities
                                       THEN Append(entries, cap) ELSE entries
  <2>1. Len(entries) \in Nat /\ Len(Builds) \in Nat /\ Len(entries) < Len(Builds)
    BY LenProperties, UpdateAssumption DEF ProgramTypes, Build
  <2>2. Len(entries) + 1 \in 1..Len(Builds)
    BY <2>1
  <2>3. Builds[Len(entries) + 1] \in Cap
    BY <2>2
  <2>. QED
    BY <2>3 DEF Build, Node!Register, Node!RegisterCapability
<1>2. ota' \in BOOLEAN
  BY <1>1, Zenon
<1>3. entries' \in Seq(Cap) /\ Len(entries') <= MaxCapabilities
  <2> HIDE DEF Cap
  <2>1. entries \in Seq(Cap) /\ Len(entries) <= MaxCapabilities /\ Len(entries) \in Nat
    BY LenProperties DEF ProgramTypes, Cap
  <2>2. CASE Len(entries) < MaxCapabilities
    <3>1. Append(entries, cap) \in Seq(Cap) /\ Len(Append(entries, cap)) = Len(entries) + 1
      BY <2>1, AppendProperties
    <3>. QED
      BY <1>1, <2>1, <2>2, <3>1, UpdateAssumption
  <2>3. CASE ~(Len(entries) < MaxCapabilities)
    BY <1>1, <2>1, <2>3
  <2>. QED
    BY <2>2, <2>3
<1>4. UNCHANGED <<phase, step, next, uploading, largest, failures>>
  BY DEF Build, Node!Register, hostSide
<1>. QED
  BY <1>2, <1>3, <1>4 DEF ProgramTypes

LEMMA HearAckKeepsTypes ==
    ASSUME UpdateInv, ProgramTypes, HearAck
    PROVE  ProgramTypes'
<1>1. UNCHANGED <<entries, ota, phase, uploading, largest, failures>>
  BY DEF HearAck, Hears
<1>2. /\ uploading \in Images /\ next \in Nat /\ Len(uploading) \in Nat
      /\ next <= Len(uploading)
  BY ImageFacts DEF UpdateInv, ProgramTypes
<1>3. step' \in Step /\ next' <= Len(uploading)
  <2>1. CASE ~Head(outbox).success
    BY <1>2, <2>1 DEF HearAck, Step
  <2>2. CASE step = "start" /\ AfterSuccess
    BY <1>2, <2>2 DEF AfterSuccess, Step
  <2>3. CASE step = "chunk" /\ Head(outbox).success /\ AfterSuccess
    <3>1. next < Len(uploading)
      <4>1. Ahead /\ outbox = <<Answered>>
        BY DEF HearAck, Hears, UpdateInv, Greeting, Quiet, Asked, Carried
      <4>2. ack.success
        <5>1. Head(outbox) = Answered
          BY <4>1
        <5>. QED
          BY <2>3, <5>1 DEF Answered, Node!Ack
      <4>. QED
        BY <2>3, <4>1, <4>2 DEF Ahead
    <3>2. next + Len(ChunkAt(uploading, next).data) <= Len(uploading)
      BY <1>2, <3>1, ChunkFacts
    <3>3. next' = next + Len(ChunkAt(uploading, next).data) /\ step' \in {"chunk", "finish"}
      BY <2>3 DEF AfterSuccess
    <3>. QED
      BY <3>2, <3>3 DEF Step
  <2>4. CASE step = "finish" /\ AfterSuccess
    BY <1>2, <2>4 DEF AfterSuccess, Step
  <2>. QED
    BY <2>1, <2>2, <2>3, <2>4 DEF HearAck, AfterSuccess
<1>. QED
  BY <1>1, <1>3 DEF ProgramTypes

\* A step that moves the node on and leaves the registry and the host alone.
LEMMA PhaseKeepsTypes ==
    ASSUME ProgramTypes, UNCHANGED <<entries, ota, step, next, uploading, largest>>,
           phase' \in Node!Phase, failures' \in 0..MaxFailures
    PROVE  ProgramTypes'
BY DEF ProgramTypes

LEMMA NextProgramTypes ==
    ASSUME UpdateInv, ProgramTypes, [UpdateNext]_updateVars
    PROVE  ProgramTypes'
<1>1. phase \in Node!Phase /\ failures \in 0..MaxFailures /\ MaxFailures \in Nat
  BY UpdateAssumption DEF ProgramTypes
<1>2. CASE Build
  BY <1>2, BuildKeepsTypes
<1>3. CASE Run \/ Write \/ HangUp
  <2>1. /\ UNCHANGED <<entries, ota, step, next, uploading, largest, failures>>
        /\ phase' \in Node!Phase
    BY <1>3 DEF Run, Write, HangUp, Node!Run, Node!Send, Node!ReadFails, Node!Phase,
       Node!registryVars, hostSide
  <2>. QED
    BY <1>1, <2>1, PhaseKeepsTypes
<1>4. CASE \E command \in Commands : Carry(command)
  <2>1. /\ UNCHANGED <<entries, ota, step, next, uploading, largest, failures>>
        /\ phase' = "write"
    BY <1>4 DEF Carry, Node!Serve, Node!Reads, Node!registryVars, hostSide
  <2>. QED
    BY <1>1, <2>1, PhaseKeepsTypes DEF Node!Phase
<1>5. CASE WriteFails \/ ReadFails
  <2>1. /\ UNCHANGED <<entries, ota, step, next, uploading, largest>>
        /\ phase' = "stopped" /\ failures < MaxFailures /\ failures' = failures + 1
    BY <1>5 DEF WriteFails, ReadFails, Node!SendFails, Node!ReadFails, Node!registryVars, hostSide
  <2>2. failures' \in 0..MaxFailures
    BY <1>1, <2>1
  <2>. QED
    BY <2>1, <2>2, PhaseKeepsTypes DEF Node!Phase
<1>6. CASE AskStart \/ AskChunk \/ AskFinish
  <2>1. UNCHANGED <<entries, ota, phase, step, next, uploading, largest, failures>>
    BY <1>6 DEF AskStart, AskChunk, AskFinish, Ask
  <2>. QED
    BY <1>1, <2>1, PhaseKeepsTypes
<1>7. CASE HearHandshake
  <2>1. /\ UNCHANGED <<entries, ota, phase, next, uploading, largest, failures>>
        /\ step' = "start"
    BY <1>7 DEF HearHandshake, Hears
  <2>. QED
    BY <2>1 DEF ProgramTypes, Step
<1>8. CASE HearAck
  BY <1>8, HearAckKeepsTypes
<1>9. CASE Reconnect
  <2>1. /\ entries' = <<>> /\ ota' = FALSE /\ phase' = "setup" /\ step' = "handshake"
        /\ next' = 0 /\ failures' = failures /\ largest' = 0 /\ uploading' \in Images
    BY <1>9 DEF Reconnect, NewNode, UpdateInv
  <2>2. entries' \in Seq({Builds[i] : i \in 1..Len(Builds)}) /\ Len(entries') = 0
    BY <2>1, EmptySeq
  <2>3. Len(uploading') \in Nat /\ MaxCapabilities \in Nat
    BY <2>1, ImageFacts, UpdateAssumption
  <2>4. Len(entries') <= MaxCapabilities /\ next' <= Len(uploading')
    BY <2>1, <2>2, <2>3
  <2>5. ota' \in BOOLEAN /\ phase' \in Node!Phase /\ step' \in Step
    BY <2>1 DEF Node!Phase, Step
  <2>. QED
    BY <1>1, <2>1, <2>2, <2>4, <2>5 DEF ProgramTypes
<1>10. CASE GoOn
  <2>1. /\ UNCHANGED <<entries, ota, phase, failures>>
        /\ next' = 0 /\ step' = "start" /\ uploading' \in Images
        /\ largest' = Larger(largest, Len(uploading)) /\ uploading \in Images
    BY <1>10 DEF GoOn, UpdateInv
  <2>2. next' <= Len(uploading')
    BY <2>1, ImageFacts
  <2>3. largest' \in {0} \cup {Len(image) : image \in Images}
    BY <2>1 DEF Larger, ProgramTypes
  <2>. QED
    BY <2>1, <2>2, <2>3 DEF ProgramTypes, Step
<1>11. CASE UNCHANGED updateVars
  <2>1. UNCHANGED <<entries, ota, phase, step, next, uploading, largest, failures>>
    BY <1>11 DEF updateVars, hostSide
  <2>. QED
    BY <1>1, <2>1, PhaseKeepsTypes
<1>. QED
  BY <1>2, <1>3, <1>4, <1>5, <1>6, <1>7, <1>8, <1>9, <1>10, <1>11
     DEF UpdateNext, ProgramStep, HostStep

\* The registry never outgrows its capacity, the host never counts more than its
\* image, and between host and node there is one frame at most, which is what
\* lets an acknowledgement go without a number.
THEOREM UpdateTyped == UpdateSpec => []UpdateTypeOK
<1>1. ASSUME UpdateInv, ProgramTypes PROVE UpdateTypeOK
  <2>1. next \in 0..Len(uploading) /\ uploading \in Images
    <3>1. uploading \in Images /\ next \in Nat /\ next <= Len(uploading) /\ Len(uploading) \in Nat
      BY <1>1, ImageFacts DEF UpdateInv, ProgramTypes
    <3>. QED
      BY <3>1
  <2>2. Len(inbox) + Len(outbox) <= 1
    <3>1. \/ inbox = <<>> /\ (outbox = <<>> \/ \E frame : outbox = <<frame>>)
          \/ outbox = <<>> /\ \E frame : inbox = <<frame>>
      BY <1>1 DEF UpdateInv, Greeting, Quiet, Asked, Carried
    <3>2. CASE inbox = <<>> /\ outbox = <<>>
      BY <3>2
    <3>3. ASSUME NEW frame, inbox = <<>>, outbox = <<frame>> PROVE Len(inbox) + Len(outbox) <= 1
      BY <3>3
    <3>4. ASSUME NEW frame, inbox = <<frame>>, outbox = <<>> PROVE Len(inbox) + Len(outbox) <= 1
      BY <3>4
    <3>. QED
      BY <3>1, <3>2, <3>3, <3>4
  <2>3. Node!RegistryTypeOK
    BY <1>1 DEF ProgramTypes, Node!RegistryTypeOK
  <2>4. RamTypeOK
    BY <1>1 DEF UpdateInv, RamIInv
  <2>. QED
    BY <1>1, <2>1, <2>2, <2>3, <2>4 DEF UpdateTypeOK, ProgramTypes
<1>. QED
  BY <1>1, InitProgramTypes, NextProgramTypes, UpdateInductive, PTL DEF UpdateSpec

-----------------------------------------------------------------------------
(* Nobody is waited for in vain                                            *)

\* A node that runs has registered all the program names, so it has an update
\* handler; it has not panicked; and it waits only for a host that is to speak.
RunningInv ==
    /\ ~halted
    /\ Len(entries) <= Len(Builds)
    /\ phase # "setup" => Len(entries) = Len(Builds)
    /\ (\E i \in 1..Len(entries) : Builds[i] = "Ota") => ota
    /\ NeverBothWait

LEMMA InitRunningInv == UpdateInit => RunningInv
<1> SUFFICES ASSUME UpdateInit PROVE RunningInv
  OBVIOUS
<1>1. entries = <<>> /\ phase = "setup" /\ ~halted
  BY DEF UpdateInit, Node!ReactorInit, Node!RegistryInit, RamInit
<1>2. Len(entries) = 0 /\ Len(Builds) \in Nat
  BY <1>1, UpdateAssumption, LenProperties
<1>. QED
  BY <1>1, <1>2 DEF RunningInv, NeverBothWait

\* The program registers no more than there is room for.
LEMMA BuildKeepsRunning == ProgramTypes /\ RunningInv /\ Build => RunningInv'
<1> SUFFICES ASSUME ProgramTypes, RunningInv, Build PROVE RunningInv'
  OBVIOUS
<1> DEFINE cap == Builds[Len(entries) + 1]
<1>1. /\ phase = "setup" /\ phase' = "setup" /\ Len(entries) < Len(Builds)
      /\ ota' = (ota \/ cap = "Ota")
      /\ entries' = IF Len(entries) < MaxCapabilities THEN Append(entries, cap) ELSE entries
      /\ halted' = halted
  BY DEF Build, Node!Register, Node!RegisterCapability, ramVars
<1>2. Len(entries) \in Nat /\ Len(Builds) \in Nat /\ Len(Builds) <= MaxCapabilities
      /\ MaxCapabilities \in Nat
  BY UpdateAssumption, LenProperties DEF ProgramTypes
<1>3. Len(entries') = Len(entries) + 1
  <2> HIDE DEF cap
  <2>1. Len(Append(entries, cap)) = Len(entries) + 1
    <3>1. entries \in Seq({Builds[i] : i \in 1..Len(Builds)})
      BY DEF ProgramTypes
    <3>2. entries \in Seq({Builds[i] : i \in 1..Len(Builds)} \cup {cap})
      BY <3>1
    <3>. QED
      BY <3>2, AppendProperties
  <2>. QED
    BY <1>1, <1>2, <2>1
<1>4. ASSUME NEW i \in 1..Len(entries'), Builds[i] = "Ota" PROVE ota'
  <2>1. CASE i = Len(entries) + 1
    BY <1>1, <1>4, <2>1
  <2>2. CASE i \in 1..Len(entries)
    <3>1. ota
      BY <1>4, <2>2 DEF RunningInv
    <3>. QED
      BY <1>1, <3>1
  <2>. QED
    BY <1>2, <1>3, <2>1, <2>2
<1>5. Len(entries') <= Len(Builds)
  BY <1>1, <1>2, <1>3
<1>. QED
  BY <1>1, <1>4, <1>5 DEF RunningInv, NeverBothWait

\* The node leaves its place only for a write, or to stop.
LEMMA PhaseKeepsRunning ==
    ASSUME RunningInv, UNCHANGED <<entries, ota, halted>>,
           Len(entries) = Len(Builds) \/ phase' = phase,
           phase' # "read"
    PROVE  RunningInv'
BY DEF RunningInv, NeverBothWait

\* A step of either side that leaves something on the link, or that leaves the
\* host with nothing to wait for.
LEMMA LinkKeepsRunning ==
    ASSUME RunningInv, UNCHANGED <<entries, ota, halted>>,
           phase # "setup" \/ phase' = phase,
           inbox' # <<>> \/ outbox' # <<>> \/ (~awaiting' /\ step' # "handshake")
    PROVE  RunningInv'
BY DEF RunningInv, NeverBothWait

LEMMA CarryKeepsRunning ==
    ASSUME UpdateInv, RunningInv, NEW command \in Commands, Carry(command)
    PROVE  RunningInv'
<1>1. UNCHANGED <<entries, ota>> /\ phase = "read" /\ phase' = "write"
  BY DEF Carry, Node!Serve, Node!Reads, Node!registryVars
<1>2. halted' = halted
  BY DEF Carry, Handles, Start, ChunkStored, ChunkTooFar, Finish
<1>. QED
  BY <1>1, <1>2, PhaseKeepsRunning DEF RunningInv

\* An answer the host has heard leaves it with something to ask, or done.
LEMMA HearKeepsRunning ==
    ASSUME UpdateInv, RunningInv, HearHandshake \/ HearAck
    PROVE  RunningInv'
<1>1. UNCHANGED <<entries, ota, phase, halted>>
  BY DEF HearHandshake, HearAck, Hears, ramVars
<1>2. ~awaiting' /\ step' # "handshake"
  <2>1. CASE HearHandshake
    BY <2>1 DEF HearHandshake, UpdateInv, Quiet, Greeting, Asked, Carried, Ahead
  <2>2. CASE HearAck
    <3>1. step # "handshake"
      BY <2>2 DEF HearAck, UpdateInv, Quiet, Greeting, Asked, Carried, Ahead
    <3>. QED
      BY <2>2, <3>1 DEF HearAck, AfterSuccess
  <2>. QED
    BY <2>1, <2>2
<1>. QED
  BY <1>1, <1>2, LinkKeepsRunning

LEMMA ReconnectKeepsRunning == Reconnect => RunningInv'
<1> SUFFICES ASSUME Reconnect PROVE RunningInv'
  OBVIOUS
<1>1. entries' = <<>> /\ phase' = "setup" /\ ~halted'
  BY DEF Reconnect, NewNode
<1>2. Len(entries') = 0 /\ Len(Builds) \in Nat
  BY <1>1, UpdateAssumption, LenProperties
<1>. QED
  BY <1>1, <1>2 DEF RunningInv, NeverBothWait

LEMMA NextRunningInv ==
    ASSUME UpdateInv, ProgramTypes, RunningInv, [UpdateNext]_updateVars
    PROVE  RunningInv'
<1>1. CASE Build
  BY <1>1, BuildKeepsRunning
<1>2. CASE Run
  <2>1. /\ UNCHANGED <<entries, ota, halted>> /\ phase' = "write" /\ Len(entries) = Len(Builds)
    BY <1>2 DEF Run, Node!Run, Node!registryVars, ramVars
  <2>. QED
    BY <2>1, PhaseKeepsRunning
<1>3. CASE WriteFails \/ ReadFails \/ HangUp
  <2>1. /\ UNCHANGED <<entries, ota, halted>> /\ phase' = "stopped" /\ phase \in {"write", "read"}
    BY <1>3 DEF WriteFails, ReadFails, HangUp, Node!SendFails, Node!ReadFails,
       Node!registryVars, ramVars
  <2>. QED
    BY <2>1, PhaseKeepsRunning DEF RunningInv
<1>4. CASE Write
  <2>1. /\ UNCHANGED <<entries, ota, halted>> /\ phase = "write"
        /\ outbox' = Append(outbox, reply)
    BY <1>4 DEF Write, Node!Send, Node!registryVars, ramVars
  <2>2. outbox = <<>>
    BY <2>1 DEF UpdateInv, Greeting, Quiet, Asked, Carried, Pausing
  <2>3. outbox' # <<>>
    BY <2>1, <2>2
  <2>. QED
    BY <2>1, <2>3, LinkKeepsRunning
<1>5. CASE AskStart \/ AskChunk \/ AskFinish
  <2>1. PICK frame : /\ ~awaiting /\ inbox' = Append(inbox, frame) /\ step # "handshake"
                     /\ UNCHANGED <<entries, ota, halted, phase>>
    BY <1>5 DEF AskStart, AskChunk, AskFinish, Ask, ramVars
  <2>2. inbox = <<>>
    BY <2>1 DEF UpdateInv, Greeting, Quiet, Asked, Carried
  <2>3. inbox' # <<>>
    BY <2>1, <2>2
  <2>. QED
    BY <2>1, <2>3, LinkKeepsRunning
<1>6. CASE GoOn
  <2>1. /\ UNCHANGED <<entries, ota, halted, phase, awaiting>>
        /\ step \in {"verified", "refused"} /\ step' = "start"
    BY <1>6 DEF GoOn, ramVars
  <2>2. ~awaiting
    BY <2>1 DEF UpdateInv, Greeting, Quiet, Asked, Carried, Ahead
  <2>. QED
    BY <2>1, <2>2, LinkKeepsRunning
<1>7. CASE UNCHANGED updateVars
  <2>1. UNCHANGED <<entries, ota, halted, phase, inbox, outbox, awaiting, step>>
    BY <1>7 DEF updateVars, hostSide, ramVars
  <2>. QED
    BY <2>1 DEF RunningInv, NeverBothWait
<1>. QED
  BY <1>1, <1>2, <1>3, <1>4, <1>5, <1>6, <1>7, CarryKeepsRunning, HearKeepsRunning,
     ReconnectKeepsRunning DEF UpdateNext, ProgramStep, HostStep

\* The next command of the host, sent to a node that knows what the host knows,
\* is one the node can carry out.
LEMMA NextCommandFits ==
    ASSUME UpdateInv, Asked
    PROVE  /\ NextCommand \in Commands
           /\ NextCommand.name \in {"OTA_CHUNK", "OTA_FINISH"} => state = "Receiving"
           /\ NextCommand.name = "OTA_CHUNK" =>
                  ~Overflows(NextCommand.offset, NextCommand.data)
<1>1. /\ step \in {"start", "chunk", "finish"} /\ Agreed
      /\ uploading \in Images /\ next \in Nat
      /\ Len(uploading) \in Nat /\ Len(uploading) + MaxChunk < UsizeModulus
      /\ MaxChunk \in Nat /\ UsizeModulus \in Nat
  BY ImageFacts, RamAssumption, HostAssumption DEF Asked, UpdateInv
<1>2. CASE step = "start"
  <2>1. NextCommand = StartOf(uploading)
    BY <1>2 DEF NextCommand
  <2>. QED
    BY <1>1, <2>1 DEF StartOf, Commands
<1>3. CASE step = "chunk"
  <2> DEFINE chunk == ChunkAt(uploading, next)
  <2>1. NextCommand = chunk /\ next < Len(uploading) /\ state = "Receiving"
    BY <1>1, <1>3 DEF NextCommand, Agreed, Stored
  <2>2. /\ chunk.offset = next /\ Len(chunk.data) \in Nat
        /\ next + Len(chunk.data) <= Len(uploading)
    BY <1>1, <2>1, ChunkFacts
  <2>3. chunk \in Commands
    <3>1. next \in 0..(Len(uploading) - 1)
      BY <1>1, <2>1
    <3>. QED
      BY <1>1, <3>1 DEF Commands
  <2> HIDE DEF chunk
  <2>4. ~Overflows(chunk.offset, chunk.data)
    BY <1>1, <2>2 DEF Overflows, End
  <2>. QED
    BY <2>1, <2>3, <2>4
<1>4. CASE step = "finish"
  <2>1. NextCommand = FinishCommand /\ state = "Receiving"
    BY <1>1, <1>4 DEF NextCommand, Agreed, Stored
  <2>. QED
    BY <2>1 DEF FinishCommand, Commands
<1>. QED
  BY <1>1, <1>2, <1>3, <1>4

LEMMA RunningInductive == UpdateSpec => [](UpdateInv /\ RunningInv)
BY InitUpdateInv, NextUpdateInv, InitProgramTypes, NextProgramTypes, InitRunningInv,
   NextRunningInv, PTL DEF UpdateSpec

\* No sequence of failures and reconnections leaves the host waiting for a node
\* that waits for the host.
THEOREM NobodyWaitsInVain == UpdateSpec => []NeverBothWait
<1>1. RunningInv => NeverBothWait
  BY DEF RunningInv
<1>. QED
  BY <1>1, RunningInductive, PTL

\* Whatever came before on this connection or an earlier one, a command the node
\* reads goes to its update handler, which is in the state the command asks for:
\* the program never answers its host that there is no update, and never panics.
THEOREM CommandsFindTheirSession == UpdateSpec => []CommandFindsItsSession
<1>1. ASSUME UpdateInv, RunningInv PROVE CommandFindsItsSession
  <2> SUFFICES ASSUME phase = "read", inbox # <<>>
      PROVE  /\ ~halted
             /\ Node!Server(Head(inbox).id) = Node!UpdateHandler
             /\ Head(inbox).id.name \in {"OTA_CHUNK", "OTA_FINISH"} => state = "Receiving"
             /\ Head(inbox).id.name = "OTA_CHUNK" =>
                    ~Overflows(Head(inbox).id.offset, Head(inbox).id.data)
    BY DEF CommandFindsItsSession
  <2>1. Asked
    BY <1>1 DEF UpdateInv, Greeting, Quiet, Carried
  <2>2. Head(inbox).id = NextCommand
    <3>1. Head(inbox) = Node!Command(NextCommand)
      BY <2>1 DEF Asked
    <3>. QED
      BY <3>1 DEF Node!Command
  <2>3. ota
    BY <1>1, UpdateAssumption DEF RunningInv
  <2>4. Node!Server(NextCommand) = Node!UpdateHandler
    BY <1>1, <2>1, <2>3, NextCommandFits DEF Node!Server
  <2>5. ~halted
    BY <1>1 DEF RunningInv
  <2>. QED
    BY <1>1, <2>1, <2>2, <2>4, <2>5, NextCommandFits
<1>. QED
  BY <1>1, RunningInductive, PTL

-----------------------------------------------------------------------------
(* The updates of all connections                                          *)

\* A session's verdict is still to come.
Undecided == state = "Receiving" => verdict = "none"

\* Only a command and a reconnection change the node's update.
LEMMA OthersLeaveTheNode ==
    ASSUME UpdateNext, ~Reconnect, ~(\E command \in Commands : Carry(command))
    PROVE  UNCHANGED ramVars
  BY DEF UpdateNext, ProgramStep, HostStep, Build, Run, Write, WriteFails, ReadFails,
     GoOn, HangUp, AskStart, AskChunk, AskFinish, Ask, HearHandshake, HearAck, Hears

LEMMA UndecidedInductive == UpdateSpec => []Undecided
<1>1. UpdateInit => Undecided
  BY DEF UpdateInit, RamInit, HandlerInit, Undecided
<1>2. ASSUME Undecided, [UpdateNext]_updateVars PROVE Undecided'
  <2>1. CASE \E command \in Commands : Carry(command)
    <3>1. PICK command \in Commands : Handles(command)
      BY <2>1 DEF Carry
    <3>2. CASE Start(command.size, command.crc)
      BY <3>2 DEF Start, HostBegins, Undecided
    <3>3. CASE ChunkStored(command.offset, command.data)
      BY <1>2, <3>3 DEF ChunkStored, ChunkWritten, HostSeesChunk, Undecided
    <3>4. CASE ChunkTooFar(command.offset, command.data)
      BY <1>2, <3>4 DEF ChunkTooFar, ChunkRefusedByWriter, Refuse, session, hostVars, Undecided
    <3>5. CASE Finish
      BY <3>5 DEF Finish, FinishVerified, FinishMismatch, Undecided
    <3>. QED
      BY <3>1, <3>2, <3>3, <3>4, <3>5 DEF Handles
  <2>2. CASE Reconnect
    BY <2>2 DEF Reconnect, NewNode, Undecided
  <2>3. CASE UpdateNext /\ ~Reconnect /\ ~(\E command \in Commands : Carry(command))
    BY <1>2, <2>3, OthersLeaveTheNode DEF ramVars, session, hostVars, Undecided
  <2>4. CASE UNCHANGED updateVars
    BY <1>2, <2>4 DEF updateVars, ramVars, session, hostVars, Undecided
  <2>. QED
    BY <1>2, <2>1, <2>2, <2>3, <2>4
<1>. QED
  BY <1>1, <1>2, PTL DEF UpdateSpec

\* No update is under way: OtaUpload is as it is at first.
LEMMA NothingUnderWay ==
    ASSUME ~UnderWay'
    PROVE  HostUpload!Lose
  BY DEF HostUpload!Lose

LEMMA StaysAway ==
    ASSUME ~UnderWay, ~UnderWay'
    PROVE  UNCHANGED HostUpload!uploadVars
  BY DEF HostUpload!uploadVars

\* What OtaUpload sees of an update does not depend on the link, nor on how far
\* the host has come.
LEMMA SeesTheSame ==
    ASSUME UNCHANGED ramVars, UnderWay' = UnderWay
    PROVE  UNCHANGED HostUpload!uploadVars
  BY DEF ramVars, session, hostVars, HostUpload!uploadVars

\* A command of an update that is under way is a step of it.
LEMMA CommandOfUpdate ==
    ASSUME UpdateInv, NEW command \in Commands, Carry(command), UnderWay
    PROVE  HostUpload!UploadNext \/ UNCHANGED HostUpload!uploadVars
<1>1. /\ command = NextCommand /\ Asked /\ Agreed /\ Handles(command)
      /\ UNCHANGED <<uploading, step, next, largest>>
  BY CarriesTheNext
<1>2. /\ step \in {"chunk", "finish"} /\ uploading \in Images /\ next \in Nat
      /\ step = "chunk" => next < Len(uploading)
  BY <1>1 DEF Asked, Agreed, UpdateInv, UnderWay
<1>3. /\ command.name = "OTA_START" <=> step = "start"
      /\ command.name = "OTA_CHUNK" <=> step = "chunk"
      /\ command.name = "OTA_FINISH" <=> step = "finish"
      /\ step = "chunk" => command = ChunkAt(uploading, next)
  BY <1>1, <1>2, CommandOfStep
<1>4. UnderWay'
  BY <1>1 DEF UnderWay
<1>5. CASE step = "chunk"
  <2> DEFINE data == ChunkAt(uploading, next).data
  <2>1. command.offset = next /\ data \in Chunks
    BY <1>2, <1>3, <1>5, ChunkFacts
  <2>2. ChunkStored(next, data) \/ ChunkTooFar(next, data)
    BY <1>1, <1>3, <1>5, <2>1 DEF Handles
  <2> HIDE DEF data
  <2>3. Len(stream) = next /\ state = "Receiving"
    BY <1>1, <1>5 DEF Agreed, Stored
  <2>4. CASE ChunkStored(next, data)
    <3>1. HostUpload!Extend(data)
      BY <1>4, <2>3, <2>4 DEF HostUpload!Extend, ChunkStored, ChunkWritten, HostSeesChunk,
         Continues
    <3>. QED
      BY <2>1, <3>1 DEF HostUpload!UploadNext
  <2>5. CASE ChunkTooFar(next, data)
    <3>1. UNCHANGED <<state, expectedCrc, stream, verdict>>
      BY <2>5 DEF ChunkTooFar, ChunkRefusedByWriter, Refuse, session, hostVars
    <3>. QED
      BY <1>4, <3>1 DEF HostUpload!uploadVars
  <2>. QED
    BY <2>2, <2>4, <2>5
<1>6. CASE step = "finish"
  <2>1. Finish
    BY <1>1, <1>3, <1>6 DEF Handles
  <2>2. state = "Receiving" /\ state' = "Idle"
    BY <2>1 DEF Finish, FinishVerified, FinishMismatch
  <2>3. faithful /\ Len(stream) = longest
    <3>1. Stored(Len(uploading)) /\ Len(uploading) \in Nat /\ largest \in Nat
      BY <1>1, <1>2, <1>6, ImageFacts DEF Agreed, UpdateInv
    <3>2. Len(buffer) = longest /\ Len(buffer) \in Nat
      BY LenProperties DEF UpdateInv, RamIInv, RamTypeOK, BufferEndsAtLongest
    <3>. QED
      BY <3>1, <3>2 DEF Stored, InBuffer, NothingBeyond, Larger, UnderWay
  <2>4. buffer = stream
    BY <2>3, SeqEqual DEF UpdateInv, RamIInv, RamTypeOK, HostTypeOK, StreamInBuffer,
                          BufferEndsAtLongest
  <2>5. HostUpload!Conclude
    BY <1>4, <2>1, <2>2, <2>4 DEF HostUpload!Conclude, Finish, Matches, HostSeesVerdict
  <2>. QED
    BY <2>5 DEF HostUpload!UploadNext
<1>. QED
  BY <1>2, <1>5, <1>6

\* The host hears that its update has begun.
LEMMA UpdateBegins ==
    ASSUME UpdateInv, Undecided, HearAck, step = "start", UnderWay'
    PROVE  HostUpload!UploadNext
<1>1. awaiting /\ outbox # <<>> /\ UNCHANGED <<ramVars, uploading>>
  BY DEF HearAck, Hears
<1>2. Carried
  BY <1>1 DEF UpdateInv, Greeting, Quiet, Asked
<1>3. Stored(0)
  BY <1>2 DEF Carried, Ahead
<1>4. /\ state' = "Receiving" /\ expectedCrc' = Crc(uploading) /\ stream' = <<>>
  <2>1. UNCHANGED <<state, expectedCrc, stream>>
    BY <1>1 DEF ramVars, session, hostVars
  <2>2. stream \in Seq(Byte)
    BY DEF UpdateInv, RamIInv, RamTypeOK, HostTypeOK
  <2>3. stream = <<>>
    BY <1>3, <2>2, EmptySeq DEF Stored
  <2>. QED
    BY <1>3, <2>1, <2>3 DEF Stored
<1>5. HostUpload!Begin(Crc(uploading))
  BY <1>4 DEF HostUpload!Begin
<1>6. Crc(uploading) \in {a[2] : a \in Announcements}
  <2> DEFINE a == <<Len(uploading), Crc(uploading)>>
  <2>1. a \in Announcements /\ a[2] = Crc(uploading)
    BY ImageFacts DEF UpdateInv
  <2> HIDE DEF a
  <2>. QED
    BY <2>1
<1>. QED
  BY <1>5, <1>6 DEF HostUpload!UploadNext

\* The uploads that go through the program, connection after connection and image
\* after image, are those of OtaUpload, but for an image that follows a larger one
\* on the same connection.
THEOREM ProgramImplementsUpload == UpdateSpec => ImplementsHostUpload
<1>1. UpdateInit => HostUpload!UploadInit
  BY DEF UpdateInit, HostUpload!UploadInit, UnderWay
<1>2. ASSUME UpdateInv, Undecided, [UpdateNext]_updateVars
      PROVE  [HostUpload!UploadNext]_(HostUpload!uploadVars)
  <2>1. CASE ~UnderWay /\ ~UnderWay'
    BY <2>1, StaysAway
  <2>2. CASE UnderWay /\ ~UnderWay'
    BY <2>2, NothingUnderWay DEF HostUpload!UploadNext
  <2>3. CASE UnderWay' /\ \E command \in Commands : Carry(command)
    <3>1. PICK command \in Commands : Carry(command)
      BY <2>3
    <3>2. UNCHANGED <<step, uploading, largest>>
      BY <3>1 DEF Carry, hostSide
    <3>3. UnderWay
      BY <2>3, <3>2 DEF UnderWay
    <3>. QED
      BY <1>2, <3>1, <3>3, CommandOfUpdate
  <2>4. CASE UnderWay' /\ HearAck
    <3>1. UNCHANGED <<ramVars, uploading, largest>>
      BY <2>4 DEF HearAck, Hears
    <3>2. CASE step = "start"
      BY <1>2, <2>4, <3>2, UpdateBegins
    <3>3. CASE step # "start"
      <4>1. step \in {"chunk", "finish"}
        BY <1>2, <2>4, <3>3 DEF HearAck, UpdateInv, Greeting, Quiet, Asked, Carried, Ahead
      <4>2. UnderWay
        BY <2>4, <3>1, <4>1 DEF UnderWay
      <4>. QED
        BY <2>4, <3>1, <4>2, SeesTheSame
    <3>. QED
      BY <3>2, <3>3
  <2>5. CASE /\ UpdateNext /\ UnderWay' /\ ~HearAck
             /\ ~(\E command \in Commands : Carry(command))
    <3>1. UNCHANGED <<ramVars, step, uploading, largest>>
      BY <2>5 DEF UpdateNext, ProgramStep, HostStep, Build, Run, Write, WriteFails, ReadFails,
         GoOn, HangUp, AskStart, AskChunk, AskFinish, Ask, HearHandshake, Hears, Reconnect,
         UnderWay, hostSide
    <3>2. UnderWay' = UnderWay
      BY <3>1 DEF UnderWay
    <3>. QED
      BY <3>1, <3>2, SeesTheSame
  <2>6. CASE UNCHANGED updateVars
    <3>1. UNCHANGED ramVars /\ UnderWay' = UnderWay
      BY <2>6 DEF updateVars, hostSide, UnderWay
    <3>. QED
      BY <3>1, SeesTheSame
  <2>. QED
    BY <1>2, <2>1, <2>2, <2>3, <2>4, <2>5, <2>6
<1>. QED
  BY <1>1, <1>2, UpdateInductive, UndecidedInductive, PTL
     DEF UpdateSpec, ImplementsHostUpload, HostUpload!UploadSpec

=============================================================================
