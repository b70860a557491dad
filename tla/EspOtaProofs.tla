---------------------------- MODULE EspOtaProofs ----------------------------
(***************************************************************************)
(* Theorems about EspOta for every chip, region, word size, chunk size and *)
(* checksum function, with and without chip failures.                      *)
(***************************************************************************)
EXTENDS EspOta, SequenceTheorems, TLAPS

-----------------------------------------------------------------------------
(* Word arithmetic                                                         *)

\* Division with remainder, and the step from one multiple to the next.
LEMMA DivMod ==
    ASSUME NEW a \in Nat, NEW w \in Nat \ {0}
    PROVE  /\ a \div w \in Nat
           /\ a % w \in 0..(w - 1)
           /\ a = w * (a \div w) + (a % w)
           /\ a % w <= a
<1>1. /\ a \div w \in Nat
      /\ a % w \in 0..(w - 1)
      /\ a = w * (a \div w) + (a % w)
  OBVIOUS
<1>2. w * (a \div w) \in Nat
  BY <1>1
<1> QED BY <1>1, <1>2

LEMMA NextMultiple ==
    ASSUME NEW w \in Nat \ {0}, NEW p \in Nat, NEW q \in Nat, w * p < w * q
    PROVE  w * p + w <= w * q
<1>1. p + 1 <= q
  OBVIOUS
<1>2. w * (p + 1) <= w * q
  BY <1>1
<1>3. w * (p + 1) = w * p + w
  OBVIOUS
<1> QED BY <1>2, <1>3

LEMMA RoundedDown ==
    ASSUME NEW a \in Nat, NEW w \in Nat \ {0}
    PROVE  a - (a % w) \in Nat /\ a - (a % w) <= a
BY DivMod

USE HandlerAssumption, HostAssumption, EspAssumption

\* A chunk in the region has its words in the region.
LEMMA WordsInRegion ==
    ASSUME NEW offset \in Nat, NEW data \in Seq(Byte), InRegion(offset, data)
    PROVE  /\ FirstWord(offset) \in Nat
           /\ FirstWord(offset) <= offset
           /\ LastWord(offset, data) \in Nat
           /\ End(offset, data) <= LastWord(offset, data)
           /\ LastWord(offset, data) <= RegionLen
<1> DEFINE e == End(offset, data)
<1>1. e \in Nat /\ e <= RegionLen /\ offset <= e
  BY LenProperties DEF InRegion, End
<1>2. FirstWord(offset) \in Nat /\ FirstWord(offset) <= offset
  <2>1. offset - (offset % Word) \in Nat /\ offset - (offset % Word) <= offset
    BY RoundedDown
  <2> QED BY <2>1 DEF FirstWord
<1>3. CASE e % Word = 0
  BY <1>1, <1>2, <1>3 DEF LastWord
<1>4. CASE e % Word # 0
  <2> DEFINE p == e \div Word
             q == RegionLen \div Word
  <2>1. p \in Nat /\ e % Word \in 1..(Word - 1) /\ e = Word * p + (e % Word)
    <3> HIDE DEF e
    <3>1. e \div Word \in Nat /\ e % Word \in 0..(Word - 1)
             /\ e = Word * (e \div Word) + (e % Word)
      BY <1>1, DivMod
    <3> QED BY <1>4, <3>1
  <2>2. q \in Nat /\ RegionLen = Word * q
    BY DivMod
  <2>3. LastWord(offset, data) = Word * p + Word
    BY <1>4, <2>1 DEF LastWord
  <2> HIDE DEF p, q, e
  <2>4. Word * p < Word * q
    BY <1>1, <2>1, <2>2
  <2>5. Word * p + Word <= Word * q
    BY <2>1, <2>2, <2>4, NextMultiple
  <2>6. Word * p \in Nat
    BY <2>1
  <2> QED BY <1>1, <1>2, <2>1, <2>2, <2>3, <2>5, <2>6 DEF e
<1> QED BY <1>3, <1>4

-----------------------------------------------------------------------------
(* The chip                                                                *)

LEMMA ChunkIsBytes ==
    ASSUME NEW data \in Chunks
    PROVE  data \in Seq(Byte) /\ Len(data) \in Nat
<1>1. PICK n \in 0..MaxChunk : data \in [1..n -> Byte]
  BY DEF Chunks
<1> QED BY <1>1

LEMMA GroundType ==
    ASSUME flash \in [Address -> Byte], NEW offset \in Nat
    PROVE  /\ Ground(offset) \in [Address -> Byte]
           /\ \A a \in Address \ Region : Ground(offset)[a] = flash[a]
           /\ Erases(offset) => \A a \in Region : Ground(offset)[a] = Bits
           /\ ~Erases(offset) => Ground(offset) = flash
<1>1. Bits \in Byte
  OBVIOUS
<1>2. Region \subseteq Address
  BY DEF Region, Address
<1> QED BY <1>1, <1>2 DEF Ground, ErasedUpTo, Region

\* A partial erase stays in the region.
LEMMA ErasedUpToType ==
    ASSUME flash \in [Address -> Byte], NEW n \in 0..RegionLen
    PROVE  /\ ErasedUpTo(n) \in [Address -> Byte]
           /\ \A a \in Address \ Region : ErasedUpTo(n)[a] = flash[a]
<1>1. Bits \in Byte
  OBVIOUS
<1> QED BY <1>1 DEF ErasedUpTo, Region

\* Programming a chunk's words, or the first part of them, stays in the region.
LEMMA ProgrammedType ==
    ASSUME flash \in [Address -> Byte], NEW offset \in Nat, NEW data \in Seq(Byte),
           InRegion(offset, data),
           NEW last \in FirstWord(offset)..LastWord(offset, data)
    PROVE  LET mem == Programmed(Ground(offset), Image(offset, data), FirstWord(offset), last)
           IN  /\ mem \in [Address -> Byte]
               /\ \A a \in Address \ Region : mem[a] = flash[a]
<1> DEFINE mem == Programmed(Ground(offset), Image(offset, data), FirstWord(offset), last)
<1>1. /\ Ground(offset) \in [Address -> Byte]
      /\ \A a \in Address \ Region : Ground(offset)[a] = flash[a]
  BY GroundType
<1>2. ASSUME NEW a \in Address
      PROVE  /\ mem[a] \in Byte
             /\ a \notin Region => mem[a] = Ground(offset)[a]
  <2>1. mem[a] \subseteq Ground(offset)[a]
    BY DEF Programmed
  <2>2. mem[a] \in Byte
    BY <1>1, <2>1
  <2>3. a \notin Region => a \notin (Base + FirstWord(offset))..(Base + last - 1)
    BY WordsInRegion DEF Region, Address
  <2> QED BY <2>2, <2>3 DEF Programmed
<1>3. mem = [a \in Address |-> mem[a]]
  BY DEF Programmed
<1> HIDE DEF mem
<1>4. mem \in [Address -> Byte]
  BY <1>2, <1>3
<1> QED BY <1>1, <1>2, <1>4 DEF mem

\* What a chunk programs: only its own bytes are cut down to what it carries;
\* the old bytes of the first word and the padding of the last leave the chip
\* as it was.
LEMMA ProgrammedByte ==
    ASSUME flash \in [Address -> Byte], NEW offset \in Nat, NEW data \in Seq(Byte),
           InRegion(offset, data), NEW i \in 0..(RegionLen - 1)
    PROVE  Programmed(Ground(offset), Image(offset, data),
                      FirstWord(offset), LastWord(offset, data))[Base + i] =
             IF i \in offset..(End(offset, data) - 1)
               THEN Ground(offset)[Base + i] \cap data[i - offset + 1]
               ELSE Ground(offset)[Base + i]
<1>1. /\ Base + i \in Address
      /\ (Base + i) - Base = i
  BY DEF Address
<1>2. Ground(offset)[Base + i] \subseteq Bits
  BY <1>1, GroundType
<1>3. CASE i \notin FirstWord(offset)..(LastWord(offset, data) - 1)
  <2>1. Base + i \notin (Base + FirstWord(offset))..(Base + LastWord(offset, data) - 1)
    BY <1>3, WordsInRegion
  <2>2. i \notin offset..(End(offset, data) - 1)
    BY <1>3, WordsInRegion, LenProperties DEF End
  <2> QED BY <1>1, <2>1, <2>2 DEF Programmed
<1>4. CASE i \in FirstWord(offset)..(LastWord(offset, data) - 1)
  <2>1. Base + i \in (Base + FirstWord(offset))..(Base + LastWord(offset, data) - 1)
    BY <1>4, WordsInRegion
  <2>2. Programmed(Ground(offset), Image(offset, data),
                   FirstWord(offset), LastWord(offset, data))[Base + i]
          = Ground(offset)[Base + i] \cap Image(offset, data)[i]
    BY <1>1, <2>1 DEF Programmed
  <2>3. Image(offset, data)[i] =
          IF i < offset THEN Ground(offset)[Base + i]
          ELSE IF i < End(offset, data) THEN data[i - offset + 1] ELSE Bits
    BY <1>4 DEF Image
  <2>4. End(offset, data) \in Nat
    BY LenProperties DEF End
  <2>5. CASE i < offset
    BY <2>2, <2>3, <2>5
  <2>6. CASE ~(i < offset) /\ i < End(offset, data)
    BY <2>2, <2>3, <2>4, <2>6
  <2>7. CASE ~(i < offset) /\ ~(i < End(offset, data))
    <3>1. i \notin offset..(End(offset, data) - 1)
      BY <2>4, <2>7
    <3>2. Ground(offset)[Base + i] \cap Bits = Ground(offset)[Base + i]
      BY <1>2
    <3> QED BY <2>2, <2>3, <2>7, <3>1, <3>2
  <2> QED BY <2>5, <2>6, <2>7
<1> QED BY <1>3, <1>4

-----------------------------------------------------------------------------
(* The inductive invariant                                                 *)

\* A clean session has erased its region: without this the next chunk would
\* erase the bytes already stored.
EspIInv == EspTypeOK /\ CleanUploadInFlash /\ (clean => erased)

LEMMA EspInitIInv == EspInit => EspIInv
<1> SUFFICES ASSUME EspInit PROVE EspIInv
  OBVIOUS
<1> USE DEF EspInit, HandlerInit, HostInit
<1>1. HandlerTypeOK
  BY DEF HandlerTypeOK, OtaState
<1>2. HostTypeOK
  BY EmptySeq DEF HostTypeOK, Verdict
<1>3. flash \in [Address -> Byte] /\ fed \in Seq(Byte) /\ written \in 0..RegionLen
  BY EmptySeq
<1>4. erased \in BOOLEAN /\ clean \in BOOLEAN /\ ~clean
  BY Zenon
<1> HIDE DEF EspInit
<1> QED BY <1>1, <1>2, <1>3, <1>4 DEF EspIInv, EspTypeOK, CleanUploadInFlash

\* A stored chunk keeps a clean session's upload, CRC and chip in step.
LEMMA ChunkStoredClean ==
    ASSUME EspIInv, NEW offset \in Offsets, NEW data \in Chunks,
           ChunkStored(offset, data), clean'
    PROVE  /\ fed' = stream'
           /\ written' = Len(stream')
           /\ \A i \in 1..Len(stream') : flash'[Base + i - 1] = stream'[i]
           /\ \A i \in Len(stream')..(RegionLen - 1) : flash'[Base + i] = Bits
<1>1. /\ offset \in Nat /\ data \in Seq(Byte) /\ Len(data) \in Nat
      /\ InRegion(offset, data)
      /\ flash \in [Address -> Byte] /\ stream \in Seq(Byte) /\ clean \in BOOLEAN
      /\ state = "Receiving"
  BY ChunkIsBytes DEF EspIInv, EspTypeOK, HostTypeOK, ChunkStored, ChunkWritten
<1>2. End(offset, data) = offset + Len(data) /\ End(offset, data) <= RegionLen
  BY <1>1 DEF End, InRegion
<1>3. ASSUME NEW i \in 0..(RegionLen - 1)
      PROVE  flash'[Base + i] =
               IF i \in offset..(End(offset, data) - 1)
                 THEN Ground(offset)[Base + i] \cap data[i - offset + 1]
                 ELSE Ground(offset)[Base + i]
  BY <1>1, ProgrammedByte DEF ChunkStored
<1>4. ASSUME NEW i \in 1..Len(data) PROVE Bits \cap data[i] = data[i]
  BY <1>1, ElementOfSeq
<1>5. CASE offset = 0
  <2>1. stream' = data /\ fed' = <<>> \o data /\ written' = Larger(0, Len(data))
    <3>1. ResetsAt(offset) /\ End(offset, data) = Len(data)
      BY <1>1, <1>2, <1>5 DEF ResetsAt
    <3>2. stream' = data
      BY <3>1, Zenon DEF ChunkStored
    <3>3. fed' = <<>> \o data /\ written' = Larger(0, Len(data))
      BY <3>1 DEF ChunkStored, FedBefore, WrittenBefore
    <3> QED BY <3>2, <3>3
  <2>2. fed' = stream' /\ written' = Len(stream')
    BY <1>1, <2>1, ConcatEmptySeq DEF Larger
  <2>3. ASSUME NEW i \in 0..(RegionLen - 1) PROVE Ground(offset)[Base + i] = Bits
    BY <1>1, <1>5, GroundType DEF Erases, ResetsAt, Region
  <2>4. ASSUME NEW i \in 1..Len(stream') PROVE flash'[Base + i - 1] = stream'[i]
    <3>1. /\ i - 1 \in 0..(RegionLen - 1) /\ i - 1 \in offset..(End(offset, data) - 1)
          /\ (i - 1) - offset + 1 = i /\ Base + i - 1 = Base + (i - 1)
      BY <1>1, <1>2, <1>5, <2>1
    <3> QED BY <1>3, <1>4, <2>1, <2>3, <3>1
  <2>5. ASSUME NEW i \in Len(stream')..(RegionLen - 1) PROVE flash'[Base + i] = Bits
    <3>1. i \in 0..(RegionLen - 1) /\ i \notin offset..(End(offset, data) - 1)
      BY <1>1, <1>2, <1>5, <2>1
    <3> QED BY <1>3, <2>3, <3>1
  <2> QED BY <2>2, <2>4, <2>5
<1>6. CASE offset # 0
  <2>1. clean /\ Continues(offset)
    BY <1>1, <1>6 DEF ChunkStored, ResetsAt
  <2>2. /\ stream' = stream \o data /\ fed' = fed \o data
        /\ written' = Larger(written, End(offset, data))
    BY <1>6, <2>1 DEF ChunkStored, HostSeesChunk, ResetsAt, FedBefore, WrittenBefore
  <2>3. /\ fed = stream /\ written = Len(stream) /\ offset = Len(stream)
        /\ Stored(written) = stream
        /\ \A a \in (Base + written)..(Base + RegionLen - 1) : flash[a] = Bits
    BY <1>1, <2>1 DEF EspIInv, CleanUploadInFlash, Continues
  <2>4. Ground(offset) = flash
    BY <1>1, <1>6, <2>1, GroundType DEF EspIInv, Erases, ResetsAt
  <2>5. /\ Len(stream') = End(offset, data)
        /\ \A i \in 1..Len(stream') :
              stream'[i] = IF i <= offset THEN stream[i] ELSE data[i - offset]
    BY <1>1, <1>2, <2>2, <2>3, ConcatProperties
  <2>6. fed' = stream' /\ written' = Len(stream')
    BY <1>1, <1>2, <2>2, <2>3, <2>5 DEF Larger
  <2>7. ASSUME NEW i \in 1..Len(stream') PROVE flash'[Base + i - 1] = stream'[i]
    <3>1. i - 1 \in 0..(RegionLen - 1) /\ Base + i - 1 = Base + (i - 1)
      BY <1>1, <1>2, <2>5
    <3>2. CASE i <= offset
      <4>1. i - 1 \notin offset..(End(offset, data) - 1) /\ i \in 1..written
        BY <1>1, <2>3, <3>2
      <4>2. flash[Base + i - 1] = stream[i]
        BY <2>3, <4>1 DEF Stored
      <4> QED BY <1>3, <2>4, <2>5, <3>1, <3>2, <4>1, <4>2
    <3>3. CASE ~(i <= offset)
      <4>1. /\ i - 1 \in offset..(End(offset, data) - 1)
            /\ (i - 1) - offset + 1 = i - offset /\ i - offset \in 1..Len(data)
            /\ Base + (i - 1) \in (Base + written)..(Base + RegionLen - 1)
        BY <1>1, <1>2, <2>3, <2>5, <3>1, <3>3
      <4>2. flash'[Base + (i - 1)] = Bits \cap data[i - offset]
        BY <1>3, <2>3, <2>4, <3>1, <4>1
      <4> QED BY <1>4, <2>5, <3>1, <3>3, <4>1, <4>2
    <3> QED BY <3>2, <3>3
  <2>8. ASSUME NEW i \in Len(stream')..(RegionLen - 1) PROVE flash'[Base + i] = Bits
    <3>1. /\ i \in 0..(RegionLen - 1) /\ i \notin offset..(End(offset, data) - 1)
          /\ Base + i \in (Base + written)..(Base + RegionLen - 1)
      BY <1>1, <1>2, <2>3, <2>5
    <3> QED BY <1>3, <2>3, <2>4, <3>1
  <2> QED BY <2>6, <2>7, <2>8
<1> QED BY <1>5, <1>6

LEMMA ChunkStoredKeepsIInv ==
    ASSUME EspIInv, NEW offset \in Offsets, NEW data \in Chunks,
           ChunkStored(offset, data)
    PROVE  EspIInv'
<1> USE DEF ChunkStored, EspIInv, EspTypeOK
<1>1. /\ offset \in Nat /\ data \in Seq(Byte) /\ Len(data) \in Nat
      /\ InRegion(offset, data)
  BY ChunkIsBytes
<1>2. HandlerTypeOK'
  BY <1>1 DEF HandlerTypeOK, ChunkWritten, Accept, Ack, AckPayload, OtaCommand, OtaState
<1>3. HostTypeOK'
  <2>1. stream' \in Seq(Byte)
    BY <1>1, ConcatProperties DEF HostTypeOK, HostSeesChunk
  <2> QED BY <2>1 DEF HostTypeOK, HostSeesChunk
<1>4. flash' \in [Address -> Byte]
  <2>1. LastWord(offset, data) \in FirstWord(offset)..LastWord(offset, data)
    BY <1>1, WordsInRegion, LenProperties DEF End
  <2> QED BY <1>1, <2>1, ProgrammedType
<1>5. fed' \in Seq(Byte)
  BY <1>1, EmptySeq, ConcatProperties DEF FedBefore
<1>6. written' \in 0..RegionLen
  BY <1>1 DEF WrittenBefore, Larger, End, InRegion
<1>7. erased' \in BOOLEAN /\ erased'
  BY Zenon
<1>8. clean' \in BOOLEAN
  <2>1. (stream' = data) \in BOOLEAN /\ (clean /\ Continues(offset)) \in BOOLEAN
    BY Zenon
  <2> QED BY <2>1
<1>9. CleanUploadInFlash'
  <2> SUFFICES ASSUME clean' PROVE /\ fed' = stream' /\ written' = Len(stream')
                                  /\ Stored(written)' = stream'
                                  /\ \A a \in (Base + written')..(Base + RegionLen - 1) :
                                        flash'[a] = Bits
    BY DEF CleanUploadInFlash
  <2>1. /\ fed' = stream' /\ written' = Len(stream')
        /\ \A i \in 1..Len(stream') : flash'[Base + i - 1] = stream'[i]
        /\ \A i \in Len(stream')..(RegionLen - 1) : flash'[Base + i] = Bits
    BY ChunkStoredClean
  <2>2. Stored(written)' = stream'
    <3>1. stream' \in Seq(Byte)
      BY <1>3 DEF HostTypeOK
    <3>2. stream' = [i \in 1..Len(stream') |-> stream'[i]]
      BY <3>1, LenProperties
    <3>3. Stored(written)' = [i \in 1..Len(stream') |-> stream'[i]]
      BY <2>1 DEF Stored
    <3> QED BY <3>2, <3>3
  <2>3. ASSUME NEW a \in (Base + written')..(Base + RegionLen - 1)
        PROVE  flash'[a] = Bits
    <3>1. a - Base \in Len(stream')..(RegionLen - 1) /\ Base + (a - Base) = a
      BY <1>6, <2>1
    <3> QED BY <2>1, <3>1
  <2> QED BY <2>1, <2>2, <2>3
<1> HIDE DEF ChunkStored
<1> QED BY <1>2, <1>3, <1>4, <1>5, <1>6, <1>7, <1>8, <1>9

\* A step that leaves no clean session need only keep the types.
LEMMA UncleanKeepsIInv ==
    ASSUME EspTypeOK', clean' = FALSE
    PROVE  EspIInv'
BY DEF EspIInv, CleanUploadInFlash

LEMMA StartKeepsIInv ==
    ASSUME EspIInv, NEW a \in Announcements, Start(a[1], a[2])
    PROVE  EspIInv'
<1> USE DEF Start, EspIInv, EspTypeOK, writerVars
<1>1. HandlerTypeOK'
  BY DEF HandlerTypeOK, OtaStart, Accept, Ack, AckPayload, OtaCommand, OtaState
<1>2. HostTypeOK'
  BY EmptySeq DEF HostTypeOK, HostBegins, Verdict
<1> QED BY <1>1, <1>2, UncleanKeepsIInv

LEMMA FinishKeepsIInv ==
    ASSUME EspIInv, Finish
    PROVE  EspIInv'
<1> USE DEF Finish, EspIInv, EspTypeOK, writerVars
<1>1. HandlerTypeOK'
  <2>1. CASE FinishVerified
    BY <2>1 DEF HandlerTypeOK, FinishVerified, Accept, Ack, AckPayload, OtaCommand, OtaState
  <2>2. CASE FinishMismatch
    BY <2>2 DEF HandlerTypeOK, FinishMismatch, Ack, AckPayload, OtaCommand, OtaState
  <2> QED BY <2>1, <2>2
<1>2. HostTypeOK'
  BY EmptySeq DEF HostTypeOK, HostSeesVerdict, Verdict
<1>3. state' = "Idle"
  BY DEF FinishVerified, FinishMismatch
<1> QED BY <1>1, <1>2, <1>3 DEF CleanUploadInFlash

\* A refusal that reaches no writer only changes the acknowledgement.
LEMMA RefusalType ==
    ASSUME HandlerTypeOK, NEW command \in OtaCommand, NEW code \in 0..4,
           Refuse(command, code)
    PROVE  HandlerTypeOK'
BY DEF HandlerTypeOK, Refuse, Ack, AckPayload, session

LEMMA RefusalKeepsIInv ==
    ASSUME EspIInv, NEW command \in OtaCommand, NEW code \in 0..4,
           Refuse(command, code), UNCHANGED <<hostVars, writerVars, clean>>
    PROVE  EspIInv'
<1> USE DEF EspIInv, EspTypeOK, hostVars, writerVars
<1>1. HandlerTypeOK'
  BY RefusalType
<1>2. HostTypeOK' /\ CleanUploadInFlash'
  BY DEF HostTypeOK, CleanUploadInFlash, Stored, Refuse, session
<1> QED BY <1>1, <1>2

LEMMA ChunkEmptyKeepsIInv ==
    ASSUME EspIInv, NEW offset \in Offsets, ChunkEmpty(offset)
    PROVE  EspIInv'
<1> USE DEF ChunkEmpty, EspIInv, EspTypeOK, writerVars
<1>1. HandlerTypeOK'
  BY DEF HandlerTypeOK, ChunkWritten, Accept, Ack, AckPayload, OtaCommand, OtaState
<1>2. stream' = stream
  BY ConcatEmptySeq DEF HostTypeOK, HostSeesChunk
<1>3. HostTypeOK'
  BY <1>2 DEF HostTypeOK, HostSeesChunk
<1>4. CleanUploadInFlash'
  BY <1>2 DEF CleanUploadInFlash, Stored, ChunkWritten
<1> QED BY <1>1, <1>3, <1>4

LEMMA EraseFailsKeepsIInv ==
    ASSUME EspIInv, NEW offset \in Offsets, NEW data \in Chunks, EraseFails(offset, data)
    PROVE  EspIInv'
<1> USE DEF EraseFails, EspIInv, EspTypeOK
<1>1. HandlerTypeOK'
  BY RefusalType DEF ChunkRefusedByWriter, OtaCommand
<1>2. HostTypeOK'
  BY DEF HostTypeOK, hostVars
<1>3. flash' \in [Address -> Byte]
  BY ErasedUpToType
<1>4. fed' \in Seq(Byte) /\ written' \in 0..RegionLen
  BY EmptySeq DEF FedBefore, WrittenBefore
<1> QED BY <1>1, <1>2, <1>3, <1>4, UncleanKeepsIInv

\* A failed write has come no further than the chunk's last word.
LEMMA ReachedWords ==
    ASSUME NEW offset \in Nat, NEW data \in Seq(Byte), InRegion(offset, data)
    PROVE  Reached(offset, data) \subseteq FirstWord(offset)..LastWord(offset, data)
<1>1. /\ FirstWord(offset) \in Nat /\ LastWord(offset, data) \in Nat
      /\ FirstWord(offset) <= LastWord(offset, data)
  BY WordsInRegion, LenProperties DEF End
<1>2. FirstWord(offset) \in FirstWord(offset)..LastWord(offset, data)
  BY <1>1
<1> QED BY <1>2 DEF Reached

LEMMA ProgramFailsKeepsIInv ==
    ASSUME EspIInv, NEW offset \in Offsets, NEW data \in Chunks, ProgramFails(offset, data)
    PROVE  EspIInv'
<1> USE DEF ProgramFails, EspIInv, EspTypeOK
<1>1. offset \in Nat /\ data \in Seq(Byte) /\ InRegion(offset, data)
  BY ChunkIsBytes
<1>2. HandlerTypeOK'
  BY RefusalType DEF ChunkRefusedByWriter, OtaCommand
<1>3. HostTypeOK'
  BY DEF HostTypeOK, hostVars
<1>4. flash' \in [Address -> Byte]
  <2>1. PICK last \in Reached(offset, data) :
          flash' = Programmed(Ground(offset), Image(offset, data), FirstWord(offset), last)
    OBVIOUS
  <2>2. last \in FirstWord(offset)..LastWord(offset, data)
    BY <1>1, <2>1, ReachedWords
  <2> QED BY <1>1, <2>1, <2>2, ProgrammedType
<1>5. fed' \in Seq(Byte) /\ written' \in 0..RegionLen
  BY <1>1, EmptySeq, ConcatProperties DEF FedBefore, WrittenBefore
<1> QED BY <1>2, <1>3, <1>4, <1>5, UncleanKeepsIInv

LEMMA RebootIInv ==
    ASSUME EspIInv, Reboot
    PROVE  EspIInv'
<1> USE DEF Reboot, HostBegins
<1>1. HandlerTypeOK'
  BY DEF HandlerTypeOK, OtaState
<1>2. HostTypeOK'
  BY EmptySeq DEF HostTypeOK, Verdict
<1>3. flash' \in [Address -> Byte] /\ fed' \in Seq(Byte) /\ written' \in 0..RegionLen
  BY EmptySeq DEF EspIInv, EspTypeOK
<1>4. erased' \in BOOLEAN /\ clean' = FALSE
  BY Zenon
<1> HIDE DEF Reboot
<1> QED BY <1>1, <1>2, <1>3, <1>4, UncleanKeepsIInv DEF EspTypeOK

LEMMA EspNextIInv == EspIInv /\ [EspNext]_espVars => EspIInv'
<1> SUFFICES ASSUME EspIInv, [EspNext]_espVars PROVE EspIInv'
  OBVIOUS
<1>1. CASE \E a \in Announcements : Start(a[1], a[2])
  BY <1>1, StartKeepsIInv
<1>2. CASE \E offset \in Offsets : ChunkEmpty(offset)
  BY <1>2, ChunkEmptyKeepsIInv
<1>3. CASE \E offset \in Offsets, data \in Chunks : ChunkStored(offset, data)
  BY <1>3, ChunkStoredKeepsIInv
<1>4. CASE \E offset \in Offsets, data \in Chunks : ChunkTooFar(offset, data)
  BY <1>4, RefusalKeepsIInv DEF ChunkTooFar, ChunkRefusedByWriter, OtaCommand
<1>5. CASE \E offset \in Offsets, data \in Chunks : EraseFails(offset, data)
  BY <1>5, EraseFailsKeepsIInv
<1>6. CASE \E offset \in Offsets, data \in Chunks : ProgramFails(offset, data)
  BY <1>6, ProgramFailsKeepsIInv
<1>7. CASE Finish
  BY <1>7, FinishKeepsIInv
<1>8. CASE Refused
  BY <1>8, RefusalKeepsIInv DEF Refused, RefusedByHandler, ShortStart, ShortChunk,
     ChunkOutsideSession, FinishOutsideSession, UnknownOta, OtaCommand
<1>9. CASE Reboot
  BY <1>9, RebootIInv
<1>10. CASE UNCHANGED espVars
  BY <1>10 DEF espVars, session, hostVars, writerVars, EspIInv, EspTypeOK, HandlerTypeOK,
               HostTypeOK, CleanUploadInFlash, Stored
<1> QED BY <1>1, <1>2, <1>3, <1>4, <1>5, <1>6, <1>7, <1>8, <1>9, <1>10 DEF EspNext

THEOREM EspInductive == EspSpec => []EspIInv
BY EspInitIInv, EspNextIInv, PTL DEF EspSpec

-----------------------------------------------------------------------------
(* What a reader should know                                               *)

\* Every variable keeps its type, the chip its size.
THEOREM EspTypeCorrect == EspSpec => []EspTypeOK
BY EspInductive, PTL DEF EspIInv

\* Uploaded in order and without a failure, an image is in the region byte for
\* byte, whatever the word size and however the chunks straddle the words
\* (write_flash).
THEOREM UploadIsInFlash == EspSpec => []CleanUploadInFlash
BY EspInductive, PTL DEF EspIInv

\* After a clean session's bytes the next chunk programs without a conflict,
\* also where it starts inside a word that holds bytes already: what is read
\* back is programmed over itself, and everything behind it is still erased
\* (write_flash).
THEOREM ContinuationSafe == EspSpec => []ContinuationNeverConflicts
<1>1. ASSUME EspIInv, clean, NEW data \in Chunks,
             state = "Receiving", InRegion(Len(stream), data), Len(stream) > 0,
             NEW i \in FirstWord(Len(stream))..(LastWord(Len(stream), data) - 1)
      PROVE  Image(Len(stream), data)[i] \subseteq flash[Base + i]
  <2> DEFINE next == Len(stream)
  <2>1. /\ next \in Nat /\ data \in Seq(Byte) /\ Len(data) \in Nat
        /\ flash \in [Address -> Byte]
    BY <1>1, ChunkIsBytes, LenProperties DEF EspIInv, EspTypeOK, HostTypeOK
  <2>2. Ground(next) = flash
    <3>1. ~Erases(next)
      BY <1>1 DEF EspIInv, Erases, ResetsAt
    <3> QED BY <2>1, <3>1, GroundType
  <2>3. i \in 0..(RegionLen - 1)
    BY <1>1, <2>1, WordsInRegion
  <2>4. Image(next, data)[i] =
          IF i < next THEN flash[Base + i]
          ELSE IF i < End(next, data) THEN data[i - next + 1] ELSE Bits
    BY <1>1, <2>2 DEF Image
  <2>5. CASE i < next
    BY <2>4, <2>5
  <2>6. CASE ~(i < next)
    <3>1. Base + i \in (Base + next)..(Base + RegionLen - 1)
      BY <2>1, <2>3, <2>6
    <3>2. flash[Base + i] = Bits
      BY <1>1, <3>1 DEF EspIInv, CleanUploadInFlash
    <3>3. CASE i < End(next, data)
      <4>1. i - next + 1 \in 1..Len(data)
        BY <2>1, <2>3, <2>6, <3>3 DEF End
      <4>2. data[i - next + 1] \subseteq Bits
        BY <2>1, <4>1, ElementOfSeq
      <4> QED BY <2>4, <2>6, <3>2, <3>3, <4>2
    <3>4. CASE ~(i < End(next, data))
      BY <2>4, <2>6, <3>2, <3>4
    <3> QED BY <3>3, <3>4
  <2> QED BY <2>5, <2>6
<1>2. EspIInv => ContinuationNeverConflicts
  BY <1>1 DEF ContinuationNeverConflicts
<1> QED BY <1>2, EspInductive, PTL

\* The CRC of the stream, which OTA_FINISH compares, is the CRC of the region's
\* contents (OtaRegionFlashWriter::verify).
THEOREM VerdictTheorem == EspSpec => VerdictIsAboutFlash
<1>1. ASSUME EspIInv, EspNext, Concludes, clean
      PROVE  ack'.success <=> Crc(Stored(written)) = expectedCrc
  <2>1. Stored(written) = fed
    BY <1>1 DEF EspIInv, CleanUploadInFlash, Concludes
  <2>2. Finish
    BY <1>1 DEF Concludes, EspNext, Start, OtaStart, ChunkEmpty, ChunkStored, ChunkWritten,
       ChunkTooFar, EraseFails, ProgramFails, ChunkRefusedByWriter, Refused,
       RefusedByHandler, ShortStart, ShortChunk, ChunkOutsideSession,
       FinishOutsideSession, UnknownOta, Refuse, session, Reboot
  <2> QED BY <2>1, <2>2 DEF Finish, Matches, FinishVerified, FinishMismatch, Accept, Ack
<1>2. EspIInv /\ [EspNext]_espVars =>
        [ Concludes /\ clean => (ack'.success <=> Crc(Stored(written)) = expectedCrc) ]_espVars
  BY <1>1
<1> QED BY <1>2, EspInductive, PTL DEF EspSpec, VerdictIsAboutFlash

\* No byte outside the OTA region ever changes, for any host, any failures of
\* the chip and restarts at any time (write_flash, erase_region).
THEOREM RegionIsolation == EspSpec => OtherPartitionsUntouched
<1> DEFINE Untouched == \A a \in Address \ Region : flash'[a] = flash[a]
<1>1. ASSUME EspIInv, EspNext PROVE Untouched
  <2> USE DEF writerVars
  <2>1. flash \in [Address -> Byte]
    BY <1>1 DEF EspIInv, EspTypeOK
  <2>2. CASE \E offset \in Offsets, data \in Chunks : ChunkStored(offset, data)
    <3>1. PICK offset \in Offsets, data \in Chunks : ChunkStored(offset, data)
      BY <2>2
    <3>2. offset \in Nat /\ data \in Seq(Byte) /\ InRegion(offset, data)
      BY <3>1, ChunkIsBytes DEF ChunkStored
    <3>3. LastWord(offset, data) \in FirstWord(offset)..LastWord(offset, data)
      BY <3>2, WordsInRegion, LenProperties DEF End
    <3>4. \A a \in Address \ Region :
             Programmed(Ground(offset), Image(offset, data),
                        FirstWord(offset), LastWord(offset, data))[a] = flash[a]
      BY <2>1, <3>2, <3>3, ProgrammedType
    <3> QED BY <3>1, <3>4 DEF ChunkStored
  <2>3. CASE \E offset \in Offsets, data \in Chunks : EraseFails(offset, data)
    BY <2>1, <2>3, ErasedUpToType DEF EraseFails
  <2>4. CASE \E offset \in Offsets, data \in Chunks : ProgramFails(offset, data)
    <3>1. PICK offset \in Offsets, data \in Chunks : ProgramFails(offset, data)
      BY <2>4
    <3>2. offset \in Nat /\ data \in Seq(Byte) /\ InRegion(offset, data)
      BY <3>1, ChunkIsBytes DEF ProgramFails
    <3>3. PICK last \in FirstWord(offset)..LastWord(offset, data) :
            flash' = Programmed(Ground(offset), Image(offset, data), FirstWord(offset), last)
      BY <3>1, <3>2, ReachedWords DEF ProgramFails
    <3>4. \A a \in Address \ Region :
             Programmed(Ground(offset), Image(offset, data), FirstWord(offset), last)[a] = flash[a]
      BY <2>1, <3>2, ProgrammedType
    <3> QED BY <3>3, <3>4
  <2>5. CASE flash' = flash
    BY <2>5
  <2> QED BY <1>1, <2>2, <2>3, <2>4, <2>5
          DEF EspNext, Start, ChunkEmpty, ChunkTooFar, Finish, Refused, Reboot
<1>2. EspIInv /\ [EspNext]_espVars => [Untouched]_espVars
  BY <1>1
<1> QED BY <1>2, EspInductive, PTL DEF EspSpec, OtherPartitionsUntouched

-----------------------------------------------------------------------------
(* EspOta implements OtaUpload for an orderly host                         *)

LEMMA UploadInit == EspInit => Upload!UploadInit
BY DEF EspInit, HandlerInit, HostInit, Upload!UploadInit

\* A chunk the writer accepted extends the upload or repeats a part of it.
LEMMA AcceptedChunk ==
    ASSUME NEW offset, NEW data \in Chunks, ChunkWritten(Len(data)),
           HostSeesChunk(offset, data)
    PROVE  Upload!Extend(data) \/ UNCHANGED Upload!uploadVars
<1>1. state = "Receiving" /\ UNCHANGED <<state, expectedCrc>>
  BY DEF ChunkWritten, HostSeesChunk
<1>2. CASE Continues(offset)
  BY <1>1, <1>2 DEF Upload!Extend, HostSeesChunk
<1>3. CASE ~Continues(offset)
  BY <1>1, <1>3 DEF Upload!uploadVars, HostSeesChunk
<1> QED BY <1>2, <1>3

LEMMA UploadNext ==
    ASSUME EspIInv, EspNext
    PROVE  Upload!UploadNext \/ UNCHANGED Upload!uploadVars
<1>1. CASE \E a \in Announcements : Start(a[1], a[2])
  <2>1. PICK a \in Announcements : Start(a[1], a[2])
    BY <1>1
  <2>2. Upload!Begin(a[2])
    BY <2>1 DEF Upload!Begin, Start, OtaStart, HostBegins
  <2> QED BY <2>2 DEF Upload!UploadNext
<1>2. CASE \E offset \in Offsets : ChunkEmpty(offset)
  <2>1. ASSUME NEW offset, HostSeesChunk(offset, <<>>), stream \in Seq(Byte)
        PROVE  stream' = stream /\ verdict' = verdict
    BY <2>1, ConcatEmptySeq DEF HostSeesChunk
  <2> QED BY <1>2, <2>1 DEF ChunkEmpty, ChunkWritten, EspIInv, EspTypeOK, HostTypeOK,
                            Upload!uploadVars
<1>3. CASE \E offset \in Offsets, data \in Chunks : ChunkStored(offset, data)
  BY <1>3, AcceptedChunk DEF ChunkStored, Upload!UploadNext
<1>4. CASE \E offset \in Offsets, data \in Chunks :
             \/ ChunkTooFar(offset, data)
             \/ EraseFails(offset, data)
             \/ ProgramFails(offset, data)
  BY <1>4 DEF ChunkTooFar, EraseFails, ProgramFails, ChunkRefusedByWriter, Refuse,
              session, hostVars, Upload!uploadVars
<1>5. CASE Finish
  <2>1. state = "Receiving" /\ state' = "Idle" /\ ack' # NoAck
    BY <1>5 DEF Finish, FinishVerified, FinishMismatch, Accept, Ack, NoAck
  <2>2. CASE clean
    <3>1. fed = stream
      BY <2>1, <2>2 DEF EspIInv, CleanUploadInFlash
    <3>2. Upload!Conclude
      BY <1>5, <2>1, <2>2, <3>1 DEF Upload!Conclude, Finish, Matches, HostSeesVerdict
    <3> QED BY <3>2 DEF Upload!UploadNext
  <2>3. CASE ~clean
    BY <1>5, <2>1, <2>3 DEF Upload!Lose, Upload!UploadNext, Finish, HostSeesVerdict
  <2> QED BY <2>2, <2>3
<1>6. CASE Refused
  BY <1>6 DEF Refused, RefusedByHandler, ShortStart, ShortChunk, Refuse, session,
              ChunkOutsideSession, FinishOutsideSession, UnknownOta, hostVars,
              Upload!uploadVars
<1>7. CASE Reboot
  BY <1>7 DEF Reboot, HostBegins, Upload!Lose, Upload!UploadNext
<1> QED BY <1>1, <1>2, <1>3, <1>4, <1>5, <1>6, <1>7 DEF EspNext

\* Seen through its answers, the handler over the flash writer is OtaUpload for any
\* host, any failures of the chip and restarts at any time: what another session
\* has left behind never shows in the verdict on a clean one.
THEOREM EspImplementsUpload == EspSpec => ImplementsUpload
<1>1. ASSUME UNCHANGED espVars
      PROVE  UNCHANGED Upload!uploadVars
  BY <1>1 DEF espVars, session, hostVars, Upload!uploadVars
<1>2. EspIInv /\ [EspNext]_espVars => [Upload!UploadNext]_(Upload!uploadVars)
  BY <1>1, UploadNext
<1> QED BY <1>2, UploadInit, EspInductive, PTL
        DEF EspSpec, ImplementsUpload, Upload!UploadSpec

=============================================================================
