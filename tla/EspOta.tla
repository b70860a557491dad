------------------------------- MODULE EspOta -------------------------------
(***************************************************************************)
(* The update handler over the flash writer of tpt-node-esp32              *)
(* (OtaRegionFlashWriter over RegionStorage, flash.rs).  Chunks go straight*)
(* to a region of a NOR flash, rounded out to whole words, and a running   *)
(* CRC of the data handed to the writer takes the place of an image in RAM.*)
(*                                                                         *)
(* A byte is a set of bits.  NOR flash can only clear bits, so programming *)
(* is intersection and an erased byte is the full set (0xFF).  The CRC     *)
(* register is represented by the bytes it has been updated with; Crc32    *)
(* checks that the incremental register is a function of those bytes.      *)
(*                                                                         *)
(* The flash chip keeps its contents when the node restarts; everything    *)
(* else is lost.  A power failure in the middle of a write is a failed     *)
(* write followed by a restart.                                            *)
(***************************************************************************)
EXTENDS OtaHandler, OtaHost

CONSTANTS
    Bits,          \* the bits of a byte
    FlashSize,     \* bytes of the chip
    Base,          \* BASE: where the region starts on the chip
    RegionLen,     \* LEN: bytes of the region
    Word,          \* S::WRITE_SIZE
    ReadSize,      \* S::READ_SIZE
    Window,        \* MAX_FLASH_WINDOW
    Strict,        \* programming a cleared bit to 1 is reported (the tests'
                   \* MockFlash) and not silently without effect (a chip)
    Faults,        \* the chip may fail at any read, write or erase
    InitialFlash,  \* contents of the chip when the node first boots
    Offsets,       \* the offsets a chunk can carry
    MaxFed,        \* bound on the bytes the model feeds to one CRC
    Crc(_)         \* CRC-32/ISO-HDLC of a byte string

Address == 0..(FlashSize - 1)

ASSUME EspAssumption ==
    /\ Byte = SUBSET Bits
    /\ FlashSize \in Nat /\ Base \in Nat /\ RegionLen \in Nat
    /\ Base + RegionLen <= FlashSize
    /\ Word \in Nat \ {0} /\ Base % Word = 0 /\ RegionLen % Word = 0
    /\ ReadSize \in Nat \ {0}
    /\ Window \in Nat
    /\ Strict \in BOOLEAN /\ Faults \in BOOLEAN
    /\ InitialFlash \subseteq [Address -> Byte]
    /\ Offsets \subseteq Nat
    /\ MaxFed \in Nat

VARIABLES
    flash,    \* the contents of the chip
    written,  \* OtaRegionFlashWriter::written
    erased,   \* OtaRegionFlashWriter::erased
    fed,      \* the bytes ::crc has been updated with since its last reset
    clean     \* history: the chunks of the session, or of the last one, came in
              \* order from offset 0 on, and none of them failed

writerVars == <<flash, written, erased, fed>>

espVars == <<session, ack, hostVars, writerVars, clean>>

Larger(a, b) == IF a >= b THEN a ELSE b

Region == Base..(Base + RegionLen - 1)

EspTypeOK ==
    /\ HandlerTypeOK
    /\ HostTypeOK
    /\ flash \in [Address -> Byte]
    /\ written \in 0..RegionLen
    /\ erased \in BOOLEAN
    /\ fed \in Seq(Byte)
    /\ clean \in BOOLEAN

EspInit ==
    /\ HandlerInit
    /\ HostInit
    /\ flash \in InitialFlash
    /\ written = 0
    /\ erased = FALSE
    /\ fed = <<>>
    /\ clean = FALSE

-----------------------------------------------------------------------------
(* The chip (embedded-storage's NorFlash, as the writer uses it)           *)

\* Mutant of ErasedUpTo: addresses of the region passed to the chip as they are.
ErasedFromZero(n) ==
    [a \in Address |-> IF a < n THEN Bits ELSE flash[a]]

\* The chip after the first n bytes of the region have been erased.
ErasedUpTo(n) ==
    [a \in Address |-> IF a \in Base..(Base + n - 1) THEN Bits ELSE flash[a]]

\* The chip `mem` after the bytes `image` has for the region offsets from
\* `first` up to and excluding `last` have been programmed.
Programmed(mem, image, first, last) ==
    [a \in Address |-> IF a \in (Base + first)..(Base + last - 1)
                         THEN mem[a] \cap image[a - Base] ELSE mem[a]]

-----------------------------------------------------------------------------
(* OtaRegionFlashWriter::write and ::write_flash                           *)

End(offset, data) == offset + Len(data)

\* Mutant of InRegion: only the offset is compared with the region's length.
StartsInRegion(offset, data) == offset < RegionLen

InRegion(offset, data) == End(offset, data) <= RegionLen

\* The chunk's words: from the one its first byte is in to the end of the one
\* its last byte is in.
FirstWord(offset) == offset - (offset % Word)

LastWord(offset, data) ==
    LET rem == End(offset, data) % Word
    IN  End(offset, data) + (IF rem = 0 THEN 0 ELSE Word - rem)

\* A session's first bytes reset the writer; the region is erased before the
\* first bytes after a reset or a restart.
ResetsAt(offset) == offset = 0
Erases(offset) == ResetsAt(offset) \/ ~erased

\* The chip a chunk's words are programmed into.
Ground(offset) == IF Erases(offset) THEN ErasedUpTo(RegionLen) ELSE flash

\* Mutant of Image: the last word is padded with zeros.
ImagePaddedWithZeros(offset, data) ==
    [i \in FirstWord(offset)..(LastWord(offset, data) - 1) |->
        IF i < offset THEN Ground(offset)[Base + i]
        ELSE IF i < End(offset, data) THEN data[i - offset + 1] ELSE {}]

\* Mutant of Image: the first word is not read back before it is programmed.
ImageWithoutHead(offset, data) ==
    [i \in FirstWord(offset)..(LastWord(offset, data) - 1) |->
        IF offset <= i /\ i < End(offset, data) THEN data[i - offset + 1] ELSE Bits]

\* What is programmed: the old bytes of the first word, the chunk, and 0xFF in
\* the rest of the last word.
Image(offset, data) ==
    [i \in FirstWord(offset)..(LastWord(offset, data) - 1) |->
        IF i < offset THEN Ground(offset)[Base + i]
        ELSE IF i < End(offset, data) THEN data[i - offset + 1] ELSE Bits]

\* The read of the first word is rounded up to the chip's read size.
HeadReadable(offset) ==
    \/ offset % Word = 0
    \/ Base + FirstWord(offset) + ((Word + ReadSize - 1) \div ReadSize) * ReadSize <= FlashSize

\* The bytes before `last` program without a conflict the chip would report.
NoConflict(offset, data, last) ==
    Strict => \A i \in FirstWord(offset)..(last - 1) :
                 Image(offset, data)[i] \subseteq Ground(offset)[Base + i]

FitsWindow(offset, data) == LastWord(offset, data) - FirstWord(offset) <= Window

CanProgram(offset, data) ==
    /\ FitsWindow(offset, data)
    /\ HeadReadable(offset)
    /\ NoConflict(offset, data, LastWord(offset, data))

\* How far a failed write can have come.
Reached(offset, data) ==
    IF FitsWindow(offset, data) /\ HeadReadable(offset)
      THEN {last \in FirstWord(offset)..LastWord(offset, data) :
              NoConflict(offset, data, last)}
      ELSE {FirstWord(offset)}

\* Mutant of FedBefore: the CRC is not reset by a session's first bytes.
FedEver(offset) == fed

FedBefore(offset) == IF ResetsAt(offset) THEN <<>> ELSE fed
WrittenBefore(offset) == IF ResetsAt(offset) THEN 0 ELSE written

\* Mutant of Matches: the bytes written are counted, not checked.
MatchesInLength == written = expectedSize

Matches == Crc(fed) = expectedCrc

-----------------------------------------------------------------------------
(* The commands                                                            *)

Start(size, crc) ==
    /\ OtaStart(size, crc)
    /\ HostBegins
    /\ clean' = FALSE
    /\ UNCHANGED writerVars

\* No data: answered positively, and no session begins even at offset 0.
ChunkEmpty(offset) ==
    /\ ChunkWritten(0)
    /\ HostSeesChunk(offset, <<>>)
    /\ UNCHANGED <<writerVars, clean>>

ChunkStored(offset, data) ==
    /\ data # <<>>
    /\ InRegion(offset, data)
    /\ CanProgram(offset, data)
    /\ Len(FedBefore(offset)) + Len(data) <= MaxFed
    /\ ChunkWritten(Len(data))
    /\ flash' = Programmed(Ground(offset), Image(offset, data),
                           FirstWord(offset), LastWord(offset, data))
    /\ fed' = FedBefore(offset) \o data
    /\ written' = Larger(WrittenBefore(offset), End(offset, data))
    /\ erased' = TRUE
    /\ HostSeesChunk(offset, data)
    /\ clean' = IF ResetsAt(offset) THEN stream' = data
                ELSE clean /\ Continues(offset)

\* The sum of offset and length is checked, so no chunk wraps around.
ChunkTooFar(offset, data) ==
    /\ data # <<>>
    /\ ~InRegion(offset, data)
    /\ ChunkRefusedByWriter
    /\ UNCHANGED <<hostVars, writerVars, clean>>

EraseFails(offset, data) ==
    /\ Faults
    /\ data # <<>>
    /\ InRegion(offset, data)
    /\ Erases(offset)
    /\ ChunkRefusedByWriter
    /\ \E n \in 0..RegionLen : flash' = ErasedUpTo(n)
    /\ fed' = FedBefore(offset)
    /\ written' = WrittenBefore(offset)
    /\ erased' = FALSE
    /\ clean' = FALSE
    /\ UNCHANGED hostVars

\* The CRC is updated before the words are read and programmed, so it covers
\* the chunk although the host is told it failed.
ProgramFails(offset, data) ==
    /\ Faults \/ ~CanProgram(offset, data)
    /\ data # <<>>
    /\ InRegion(offset, data)
    /\ Len(FedBefore(offset)) + Len(data) <= MaxFed
    /\ ChunkRefusedByWriter
    /\ \E last \in Reached(offset, data) :
          flash' = Programmed(Ground(offset), Image(offset, data), FirstWord(offset), last)
    /\ fed' = FedBefore(offset) \o data
    /\ written' = WrittenBefore(offset)
    /\ erased' = TRUE
    /\ clean' = FALSE
    /\ UNCHANGED hostVars

Finish ==
    /\ \/ /\ Matches
          /\ FinishVerified
          /\ HostSeesVerdict("verified")
       \/ /\ ~Matches
          /\ FinishMismatch
          /\ HostSeesVerdict("mismatch")
    /\ UNCHANGED <<writerVars, clean>>

Refused ==
    /\ RefusedByHandler
    /\ UNCHANGED <<hostVars, writerVars, clean>>

\* Power loss or reset at any time: a new handler and a new writer over the
\* same chip.
Reboot ==
    /\ state' = "Idle" /\ received' = 0
    /\ expectedSize' = 0 /\ expectedCrc' = 0
    /\ ack' = NoAck
    /\ HostBegins
    /\ written' = 0
    /\ erased' = FALSE
    /\ fed' = <<>>
    /\ clean' = FALSE
    /\ UNCHANGED flash

EspNext ==
    \/ \E a \in Announcements : Start(a[1], a[2])
    \/ \E offset \in Offsets : ChunkEmpty(offset)
    \/ \E offset \in Offsets, data \in Chunks : ChunkStored(offset, data)
    \/ \E offset \in Offsets, data \in Chunks : ChunkTooFar(offset, data)
    \/ \E offset \in Offsets, data \in Chunks : EraseFails(offset, data)
    \/ \E offset \in Offsets, data \in Chunks : ProgramFails(offset, data)
    \/ Finish
    \/ Refused
    \/ Reboot

EspSpec == EspInit /\ [][EspNext]_espVars

-----------------------------------------------------------------------------
(* Properties                                                              *)

\* The step that answers an OTA_FINISH with a verdict.
Concludes == state = "Receiving" /\ state' = "Idle" /\ ack' # NoAck

\* The first n bytes of the region.
Stored(n) == [i \in 1..n |-> flash[Base + i - 1]]

\* Whatever a host sends and wherever the chip fails, not one byte outside the
\* OTA region changes: word rounding, padding and erasing stay off the other
\* partitions of the chip (write_flash, erase_region).
OtherPartitionsUntouched ==
    [][ \A a \in Address \ Region : flash'[a] = flash[a] ]_espVars

\* While a session's chunks come in order and none fails, the region holds
\* exactly the upload, cut into words as it may be, the CRC covers exactly it,
\* and everything behind it is still erased.
CleanUploadInFlash ==
    clean /\ state = "Receiving" =>
        /\ fed = stream
        /\ written = Len(stream)
        /\ Stored(written) = stream
        /\ \A a \in (Base + written)..(Base + RegionLen - 1) : flash[a] = Bits

\* The verdict on such a session, which is about the CRC of what was streamed,
\* is the verdict on what a boot loader will read back from the region.
VerdictIsAboutFlash ==
    [][ Concludes /\ clean =>
          (ack'.success <=> Crc(Stored(written)) = expectedCrc) ]_espVars

\* In such a session the next chunk in order can be programmed, also when it
\* starts inside a word that already holds bytes: even a chip that reports
\* conflicting writes has none to report (write_flash reads the first word back
\* and pads the last one with 0xFF).
ContinuationNeverConflicts ==
    clean /\ state = "Receiving" => \A data \in Chunks :
        LET next == Len(stream) IN
        data # <<>> /\ InRegion(next, data) /\ next > 0 =>
            \A i \in FirstWord(next)..(LastWord(next, data) - 1) :
                Image(next, data)[i] \subseteq flash[Base + i]

\* The handler and the flash writer implement OtaUpload through chip failures and
\* restarts: a verdict on a session that is clean is the one OtaUpload gives, of
\* the bytes accepted since the start.  A verdict on another session counts as
\* none, and the upload as lost.
Upload == INSTANCE OtaUpload WITH
    Checksums <- {a[2] : a \in Announcements},
    open <- state = "Receiving",
    upload <- stream,
    promised <- IF state = "Receiving" THEN expectedCrc ELSE 0,
    verdict <- IF clean /\ state = "Idle" THEN verdict ELSE "none"

ImplementsUpload == Upload!UploadSpec

\* The running CRC is that of what was written: a chunk the host is told has
\* failed (error code 3) is not in it, and can be sent again.  The code updates
\* the CRC before it programs the chunk.
FailedChunkLeavesCrc ==
    [][ ack'.error_code = 3 => fed' \in {fed, <<>>} ]_espVars

=============================================================================
