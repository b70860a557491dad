----------------------------- MODULE FilesProofs ----------------------------
(***************************************************************************)
(* For any tree of paths, any bytes, offsets and data: the LittleFS driver *)
(* keeps what it acknowledged and shows nothing that was not sent; the     *)
(* host driver makes no directory but those of the paths it accepted, and  *)
(* puts the data of a write in its place.  That it drops what an earlier   *)
(* write put into the file is what the run host_files_pieces shows.        *)
(***************************************************************************)
EXTENDS EspFiles, HostFiles, TLAPS

\* What a write leaves in a file: the data in its place, the rest as it was,
\* zeros in the gap.
LEMMA WriteAtFacts ==
    ASSUME NEW old \in Seq(Byte), NEW offset \in Nat, NEW data \in Seq(Byte)
    PROVE  /\ WriteAt(old, offset, data) \in Seq(Byte)
           /\ Len(WriteAt(old, offset, data)) =
                  IF data = <<>> THEN Len(old) ELSE Furthest(Len(old), offset + Len(data))
           /\ \A i \in 1..Len(data) :
                  /\ offset + i \in 1..Len(WriteAt(old, offset, data))
                  /\ WriteAt(old, offset, data)[offset + i] = data[i]
           /\ \A i \in 1..Len(WriteAt(old, offset, data)) :
                  i \notin (offset + 1)..(offset + Len(data)) =>
                      WriteAt(old, offset, data)[i] = IF i <= Len(old) THEN old[i] ELSE Zero
<1> DEFINE n == IF data = <<>> THEN Len(old) ELSE Furthest(Len(old), offset + Len(data))
           byte(i) == IF i \in (offset + 1)..(offset + Len(data)) THEN data[i - offset]
                      ELSE IF i <= Len(old) THEN old[i]
                      ELSE Zero
<1>1. Zero \in Byte
  BY FileAssumption
<1>2. Len(old) \in Nat /\ Len(data) \in Nat /\ n \in Nat
  BY <1>1 DEF Furthest
<1>3. \A i \in 1..n : byte(i) \in Byte
  BY <1>1, <1>2
<1>4. WriteAt(old, offset, data) = [i \in 1..n |-> byte(i)]
  BY DEF WriteAt
<1>5. \A i \in 1..Len(data) : offset + i \in 1..n /\ byte(offset + i) = data[i]
  <2>1. data = <<>> => Len(data) = 0
    OBVIOUS
  <2>. QED
    BY <1>1, <1>2, <2>1 DEF Furthest
<1> HIDE DEF n, byte
<1>6. WriteAt(old, offset, data) \in Seq(Byte) /\ Len(WriteAt(old, offset, data)) = n
  BY <1>2, <1>3, <1>4
<1>7. \A i \in 1..n : WriteAt(old, offset, data)[i] = byte(i)
  BY <1>4
<1>8. \A i \in 1..n : i \notin (offset + 1)..(offset + Len(data)) =>
          byte(i) = IF i <= Len(old) THEN old[i] ELSE Zero
  BY DEF byte
<1>. QED
  BY <1>5, <1>6, <1>7, <1>8 DEF n

-----------------------------------------------------------------------------
\* The three properties are inductive together.
FilesInv ==
    /\ EspTypeOK
    /\ AcknowledgedBytesAreKept
    /\ NoStrayBytes

LEMMA InitFilesInv == EspInit => FilesInv
  BY FileAssumption DEF EspInit, FilesInit, FilesInv, EspTypeOK, FilesTypeOK, Answer, Empty,
     AcknowledgedBytesAreKept, NoStrayBytes

\* A write that is carried out, whether or not the client learns of it.
LEMMA Written ==
    ASSUME FilesInv,
           NEW path \in InRoot, NEW offset \in Offset, NEW data \in Data,
           formatted, formatted' = formatted,
           names' = names \cup {path},
           content' = [content EXCEPT ![path] = WriteAt(@, offset, data)],
           NEW result \in Answer,
           ClientWrote(path, offset, data, result)
    PROVE  FilesInv'
<1> DEFINE new == WriteAt(content[path], offset, data)
<1>1. path \in Path /\ content[path] \in Seq(Byte)
  BY DEF FilesInv, EspTypeOK, FilesTypeOK, InRoot
<1>2. offset \in Nat /\ data \in Seq(Byte) /\ Len(data) \in Nat /\ Len(content[path]) \in Nat
  BY <1>1, FileAssumption
<1>3. /\ new \in Seq(Byte)
      /\ Len(new) = IF data = <<>> THEN Len(content[path])
                    ELSE Furthest(Len(content[path]), offset + Len(data))
      /\ \A i \in 1..Len(data) : offset + i \in 1..Len(new) /\ new[offset + i] = data[i]
      /\ \A i \in 1..Len(new) : i \notin (offset + 1)..(offset + Len(data)) =>
             new[i] = IF i <= Len(content[path]) THEN content[path][i] ELSE Zero
  BY <1>1, <1>2, WriteAtFacts
<1>4. /\ content' \in [Path -> Seq(Byte)]
      /\ content'[path] = new
      /\ \A other \in Path \ {path} : content'[other] = content[other]
  BY <1>1, <1>3 DEF FilesInv, EspTypeOK, FilesTypeOK
<1> HIDE DEF new
<1>5. Len(content[path]) <= Len(new)
  BY <1>2, <1>3 DEF Furthest
<1>6. EspTypeOK'
  <2>1. \A i \in 1..Len(data) : offset + i \in Nat \ {0} /\ data[i] \in Byte
    BY <1>2
  <2>2. kept' \subseteq Path \X (Nat \ {0}) \X Byte
    BY <2>1, <1>1 DEF ClientWrote, Undisturbed, FilesInv, EspTypeOK, FilesTypeOK
  <2>3. sent' \subseteq Path \X (Nat \ {0})
    BY <2>1, <1>1 DEF ClientWrote, Covers, FilesInv, EspTypeOK, FilesTypeOK
  <2>4. answer' \in Answer
    BY DEF ClientWrote
  <2>5. \A other \in Path \ names' : content'[other] = <<>>
    BY <1>4 DEF FilesInv, EspTypeOK, FilesTypeOK
  <2>. QED
    BY <1>1, <1>4, <2>2, <2>3, <2>4, <2>5 DEF FilesInv, EspTypeOK, FilesTypeOK
<1>7. AcknowledgedBytesAreKept'
  <2>1. SUFFICES ASSUME NEW k \in kept'
                 PROVE  k[1] \in names' /\ k[2] <= Len(content'[k[1]]) /\ content'[k[1]][k[2]] = k[3]
    BY DEF AcknowledgedBytesAreKept
  <2>2. CASE k \in Undisturbed(path, offset, data)
    <3>1. /\ k \in kept
          /\ k[1] \in names /\ k[2] <= Len(content[k[1]]) /\ content[k[1]][k[2]] = k[3]
          /\ k[1] \in Path /\ k[2] \in Nat \ {0}
      BY <2>2 DEF Undisturbed, FilesInv, AcknowledgedBytesAreKept, EspTypeOK, FilesTypeOK
    <3>2. CASE k[1] = path
      <4>1. <<path, k[2]>> \notin Covers(path, offset, data)
        BY <2>2, <3>2 DEF Undisturbed
      <4>2. k[2] \notin (offset + 1)..(offset + Len(data))
        <5>1. SUFFICES ASSUME k[2] \in (offset + 1)..(offset + Len(data)) PROVE FALSE
          OBVIOUS
        <5>2. k[2] - offset \in 1..Len(data) /\ k[2] = offset + (k[2] - offset)
          BY <5>1, <3>1, <1>2
        <5>. QED
          BY <5>2, <4>1 DEF Covers
      <4>3. k[2] \in 1..Len(new)
        BY <3>1, <3>2, <1>5, <1>2, <1>3
      <4>. QED
        BY <4>2, <4>3, <3>1, <3>2, <1>3, <1>4, <1>5, <1>2
    <3>3. CASE k[1] # path
      BY <3>1, <3>3, <1>4
    <3>. QED
      BY <3>2, <3>3
  <2>3. CASE k \in {<<path, offset + i, data[i]>> : i \in 1..Len(data)}
    BY <2>3, <1>1, <1>2, <1>3, <1>4
  <2>. QED
    BY <2>1, <2>2, <2>3 DEF ClientWrote
<1>8. NoStrayBytes'
  <2>1. SUFFICES ASSUME NEW p \in Path, NEW i \in 1..Len(content'[p])
                 PROVE  /\ <<p, i>> \in sent' \/ content'[p][i] = Zero
                        /\ \E j \in i..Len(content'[p]) : <<p, j>> \in sent'
    BY DEF NoStrayBytes
  <2>2. sent \subseteq sent'
    BY DEF ClientWrote
  <2>3. CASE p # path
    BY <2>2, <2>3, <1>4 DEF FilesInv, NoStrayBytes
  <2>4. CASE p = path
    <3>1. i \in 1..Len(new) /\ i \in Nat
      BY <2>1, <2>4, <1>4
    <3>2. \A m \in 1..Len(data) : <<path, offset + m>> \in sent'
      BY DEF ClientWrote, Covers
    <3>3. CASE i \in (offset + 1)..(offset + Len(data))
      <4>1. i - offset \in 1..Len(data) /\ offset + (i - offset) = i
        BY <3>3, <1>2
      <4>2. <<path, i>> \in sent'
        BY <4>1, <3>2
      <4>3. i \in i..Len(new)
        BY <3>1, <1>3
      <4>. QED
        BY <4>2, <4>3, <2>4, <1>4
    <3>4. CASE i \notin (offset + 1)..(offset + Len(data)) /\ i <= Len(content[path])
      <4>1. new[i] = content[path][i]
        BY <3>1, <3>4, <1>3
      <4>2. i \in 1..Len(content[path])
        BY <3>1, <3>4, <1>2
      <4>3. /\ <<path, i>> \in sent \/ content[path][i] = Zero
            /\ \E j \in i..Len(content[path]) : <<path, j>> \in sent
        BY <4>2, <1>1 DEF FilesInv, NoStrayBytes
      <4>4. i..Len(content[path]) \subseteq i..Len(new)
        BY <1>5, <1>2, <1>3, <3>1
      <4>. QED
        BY <4>1, <4>3, <4>4, <2>2, <2>4, <1>4
    <3>5. CASE i \notin (offset + 1)..(offset + Len(data)) /\ ~(i <= Len(content[path]))
      <4>1. new[i] = Zero
        BY <3>1, <3>5, <1>3
      <4>2. data # <<>> /\ Len(new) = offset + Len(data) /\ Len(data) \in 1..Len(data)
        BY <3>1, <3>5, <1>2, <1>3 DEF Furthest
      <4>3. <<path, Len(new)>> \in sent' /\ Len(new) \in i..Len(new)
        BY <4>2, <3>1, <3>2, <1>2
      <4>. QED
        BY <4>1, <4>3, <2>4, <1>4
    <3>. QED
      BY <3>3, <3>4, <3>5
  <2>. QED
    BY <2>3, <2>4
<1>. QED
  BY <1>6, <1>7, <1>8 DEF FilesInv

\* A write that did not reach the file; it may have been created.
LEMMA Unwritten ==
    ASSUME FilesInv,
           NEW path \in InRoot, NEW offset \in Offset, NEW data \in Data,
           formatted, formatted' = formatted,
           names' \in {names, names \cup {path}},
           content' = content,
           NEW result \in {"failed", "none"},
           ClientWrote(path, offset, data, result)
    PROVE  FilesInv'
<1>1. kept' \subseteq kept /\ sent \subseteq sent' /\ names \subseteq names' /\ path \in Path
  BY DEF ClientWrote, Undisturbed, InRoot
<1>2. EspTypeOK'
  <2>1. offset \in Nat /\ Len(data) \in Nat
    BY FileAssumption
  <2>2. sent' \subseteq Path \X (Nat \ {0})
    BY <2>1, <1>1 DEF ClientWrote, Covers, FilesInv, EspTypeOK, FilesTypeOK
  <2>3. answer' \in Answer
    BY DEF ClientWrote, Answer
  <2>. QED
    BY <1>1, <2>2, <2>3 DEF FilesInv, EspTypeOK, FilesTypeOK
<1>3. AcknowledgedBytesAreKept'
  BY <1>1 DEF FilesInv, AcknowledgedBytesAreKept
<1>4. NoStrayBytes'
  BY <1>1 DEF FilesInv, NoStrayBytes
<1>. QED
  BY <1>2, <1>3, <1>4 DEF FilesInv

LEMMA NextFilesInv == FilesInv /\ [EspNext]_espVars => FilesInv'
<1> SUFFICES ASSUME FilesInv, [EspNext]_espVars PROVE FilesInv'
  OBVIOUS
<1> USE DEF FilesInv
<1>1. ASSUME UNCHANGED <<store, formatted, kept, sent>>, answer' \in Answer
      PROVE  FilesInv'
  BY <1>1 DEF EspTypeOK, FilesTypeOK, store, AcknowledgedBytesAreKept, NoStrayBytes
<1>2. ASSUME names' = {}, content' = Empty, kept' = {}, sent' \in {{}, sent},
             formatted' \in BOOLEAN, answer' \in Answer
      PROVE  FilesInv'
  BY <1>2 DEF EspTypeOK, FilesTypeOK, Empty, AcknowledgedBytesAreKept, NoStrayBytes
<1>3. CASE EspRefuse
  BY <1>1, <1>3 DEF EspRefuse, ClientTold, Answer
<1>4. CASE Restart
  BY <1>1, <1>4 DEF Restart, ClientTold, Answer
<1>5. ASSUME NEW path \in Path, EspListDir(path) PROVE FilesInv'
  BY <1>1, <1>5 DEF EspListDir, ClientTold, Answer
<1>6. ASSUME NEW path \in Path, EspReadFile(path) PROVE FilesInv'
  BY <1>1, <1>6 DEF EspReadFile, ClientTold, Answer
<1>7. ASSUME NEW path \in Path, NEW offset \in Offset, NEW data \in Data,
             EspWriteFile(path, offset, data)
      PROVE  FilesInv'
  <2>1. "ok" \in Answer
    BY DEF Answer
  <2>. QED
    BY <1>7, <2>1, Written DEF EspWriteFile
<1>8. ASSUME NEW path \in Path, NEW offset \in Offset, NEW data \in Data,
             EspWriteBreaksOff(path, offset, data)
      PROVE  FilesInv'
  <2>1. PICK result \in {"failed", "none"} : ClientWrote(path, offset, data, result)
    BY <1>8 DEF EspWriteBreaksOff
  <2>2. CASE content' = content
    BY <1>8, <2>1, <2>2, Unwritten DEF EspWriteBreaksOff
  <2>3. CASE path \in names' /\ content' = [content EXCEPT ![path] = WriteAt(@, offset, data)]
    <3>1. names' = names \cup {path} /\ result \in Answer
      BY <1>8, <2>3 DEF EspWriteBreaksOff, Answer
    <3>. QED
      BY <1>8, <2>1, <2>3, <3>1, Written DEF EspWriteBreaksOff
  <2>. QED
    BY <1>8, <2>2, <2>3 DEF EspWriteBreaksOff
<1>9. CASE EspFormat
  BY <1>2, <1>9 DEF EspFormat, ClientFormatted, Answer
<1>10. CASE EspFormatBreaksOff
  <2>1. kept' = {} /\ sent' = sent /\ answer' \in Answer
    BY <1>10 DEF EspFormatBreaksOff, ClientFormatted, Answer
  <2>2. CASE UNCHANGED <<store, formatted>>
    BY <2>1, <2>2 DEF EspTypeOK, FilesTypeOK, store, AcknowledgedBytesAreKept, NoStrayBytes
  <2>3. CASE formatted' \in BOOLEAN /\ names' = {} /\ content' = Empty
    BY <1>2, <2>1, <2>3
  <2>. QED
    BY <1>10, <2>2, <2>3 DEF EspFormatBreaksOff
<1>11. CASE UNCHANGED espVars
  BY <1>1, <1>11 DEF espVars, client, EspTypeOK, FilesTypeOK
<1>. QED
  BY <1>3, <1>4, <1>5, <1>6, <1>7, <1>8, <1>9, <1>10, <1>11 DEF EspNext

\* The driver's state has its type, and every file is in the root of a file
\* system that mounts.
THEOREM EspFilesTypeCorrect == EspSpec => []EspTypeOK
<1>1. FilesInv => EspTypeOK
  BY DEF FilesInv
<1>. QED
  BY InitFilesInv, NextFilesInv, <1>1, PTL DEF EspSpec

\* An acknowledged byte stays in its place until it is written again or the
\* store is formatted: littlefs.rs opens with create and without truncate, and
\* a write that breaks off touches no byte outside its own range.
THEOREM AcknowledgedBytesKept == EspSpec => []AcknowledgedBytesAreKept
<1>1. FilesInv => AcknowledgedBytesAreKept
  BY DEF FilesInv
<1>. QED
  BY InitFilesInv, NextFilesInv, <1>1, PTL DEF EspSpec

\* Gaps read as zeros and nothing outlives a FORMAT.
THEOREM StrayBytesNever == EspSpec => []NoStrayBytes
<1>1. FilesInv => NoStrayBytes
  BY DEF FilesInv
<1>. QED
  BY InitFilesInv, NextFilesInv, <1>1, PTL DEF EspSpec

-----------------------------------------------------------------------------
\* What a write leaves in a truncated file.
LEMMA WrittenAfresh ==
    ASSUME NEW offset \in Nat, NEW data \in Seq(Byte)
    PROVE  /\ WriteAt(<<>>, offset, data) \in Seq(Byte)
           /\ Len(WriteAt(<<>>, offset, data)) = IF Len(data) = 0 THEN 0 ELSE offset + Len(data)
           /\ \A i \in 1..Len(data) :
                  /\ offset + i \in 1..Len(WriteAt(<<>>, offset, data))
                  /\ WriteAt(<<>>, offset, data)[offset + i] = data[i]
           /\ \A i \in 1..Len(WriteAt(<<>>, offset, data)) :
                  i \notin (offset + 1)..(offset + Len(data)) =>
                      WriteAt(<<>>, offset, data)[i] = Zero
<1>1. ASSUME NEW old \in Seq(Byte), old = <<>>
      PROVE  /\ WriteAt(old, offset, data) \in Seq(Byte)
             /\ Len(WriteAt(old, offset, data)) = IF Len(data) = 0 THEN 0 ELSE offset + Len(data)
             /\ \A i \in 1..Len(data) :
                    /\ offset + i \in 1..Len(WriteAt(old, offset, data))
                    /\ WriteAt(old, offset, data)[offset + i] = data[i]
             /\ \A i \in 1..Len(WriteAt(old, offset, data)) :
                    i \notin (offset + 1)..(offset + Len(data)) =>
                        WriteAt(old, offset, data)[i] = Zero
  <2> DEFINE new == WriteAt(old, offset, data)
  <2>1. Len(old) = 0 /\ Len(data) \in Nat /\ (data = <<>> <=> Len(data) = 0)
    BY <1>1
  <2>2. /\ new \in Seq(Byte)
        /\ Len(new) = IF data = <<>> THEN Len(old) ELSE Furthest(Len(old), offset + Len(data))
        /\ \A i \in 1..Len(data) : offset + i \in 1..Len(new) /\ new[offset + i] = data[i]
        /\ \A i \in 1..Len(new) : i \notin (offset + 1)..(offset + Len(data)) =>
               new[i] = IF i <= Len(old) THEN old[i] ELSE Zero
    BY WriteAtFacts
  <2> HIDE DEF new
  <2>3. Len(new) = IF Len(data) = 0 THEN 0 ELSE offset + Len(data)
    BY <2>1, <2>2 DEF Furthest
  <2>4. \A i \in 1..Len(new) : i \notin (offset + 1)..(offset + Len(data)) => new[i] = Zero
    BY <2>1, <2>2
  <2>. QED
    BY <2>2, <2>3, <2>4 DEF new
<1>2. <<>> \in Seq(Byte)
  OBVIOUS
<1>. QED
  BY <1>1, <1>2, Zenon

-----------------------------------------------------------------------------
\* The two properties are inductive together.
HostInv ==
    /\ HostTypeOK
    /\ OnlyWantedDirectories
    /\ DataIsInPlace

LEMMA InitHostInv == HostInit => HostInv
<1> SUFFICES ASSUME HostInit PROVE HostInv
  OBVIOUS
<1> USE FileAssumption, HostAssumption DEF HostInit, FilesInit
<1>1. HostTypeOK
  BY DEF HostTypeOK, FilesTypeOK, Empty, Answer, NoWrite
<1>2. OnlyWantedDirectories
  BY DEF OnlyWantedDirectories
<1>3. DataIsInPlace
  BY DEF DataIsInPlace, NoStrayBytes, Empty, NoWrite
<1>. QED
  BY <1>1, <1>2, <1>3 DEF HostInv

\* A command that touches no file.
LEMMA Untouched ==
    ASSUME HostInv, UNCHANGED <<store, dirs, latest, kept, sent>>, answer' \in Answer
    PROVE  HostInv'
<1>1. HostTypeOK'
  BY DEF HostInv, HostTypeOK, FilesTypeOK, store
<1>2. OnlyWantedDirectories'
  BY DEF HostInv, OnlyWantedDirectories, store
<1>3. DataIsInPlace'
  BY DEF HostInv, DataIsInPlace, NoStrayBytes, store
<1>. QED
  BY <1>1, <1>2, <1>3 DEF HostInv

\* What a write tells the client, and what it leaves in the history, keeps its
\* type.
LEMMA WroteTypes ==
    ASSUME HostTypeOK, NEW path \in Path, NEW offset \in Offset, NEW data \in Data,
           NEW result \in Answer, Wrote(path, offset, data, result)
    PROVE  /\ answer' \in Answer
           /\ kept' \subseteq Path \X (Nat \ {0}) \X Byte
           /\ sent' \subseteq Path \X (Nat \ {0})
           /\ sent \subseteq sent'
           /\ \A i \in 1..Len(data) : <<path, offset + i>> \in sent'
           /\ latest' \in [Path -> [offset : Nat, data : Seq(Byte), answer : Answer]]
           /\ latest'[path] = [offset |-> offset, data |-> data, answer |-> result]
           /\ \A other \in Path \ {path} : latest'[other] = latest[other]
<1>1. offset \in Nat /\ data \in Seq(Byte)
  BY FileAssumption
<1>2. \A i \in 1..Len(data) : offset + i \in Nat \ {0} /\ data[i] \in Byte
  BY <1>1
<1>3. /\ latest \in [Path -> [offset : Nat, data : Seq(Byte), answer : Answer]]
      /\ latest' = [latest EXCEPT ![path] =
                        [offset |-> offset, data |-> data, answer |-> result]]
  BY DEF HostTypeOK, Wrote
<1>4. /\ kept' \subseteq Path \X (Nat \ {0}) \X Byte
      /\ sent' \subseteq Path \X (Nat \ {0})
  BY <1>2 DEF Wrote, ClientWrote, Undisturbed, Covers, HostTypeOK, FilesTypeOK
<1>5. /\ answer' \in Answer
      /\ sent \subseteq sent'
      /\ \A i \in 1..Len(data) : <<path, offset + i>> \in sent'
  BY DEF Wrote, ClientWrote, Covers
<1>. QED
  BY <1>1, <1>3, <1>4, <1>5

\* However far a write gets, the directories and the file it leaves are those of
\* a path the driver accepted.
LEMMA NothingUnwanted ==
    ASSUME HostInv, NEW path \in Path, NEW offset \in Offset, NEW data \in Data,
           NEW result \in {"ok", "failed"}, Wrote(path, offset, data, result),
           Resolves(path),
           dirs' \subseteq dirs \cup Ancestors[path],
           names' \subseteq names \cup {path}
    PROVE  OnlyWantedDirectories'
<1>1. /\ path \notin Outside
      /\ Ancestors[path] \cap Outside = {}
  BY HostAssumption DEF Resolves
<1>2. /\ latest'[path] # NoWrite
      /\ \A other \in Path \ {path} : latest'[other] = latest[other]
  <2>1. result \in Answer
    BY DEF Answer
  <2>2. /\ latest'[path] = [offset |-> offset, data |-> data, answer |-> result]
        /\ \A other \in Path \ {path} : latest'[other] = latest[other]
    BY <2>1, WroteTypes DEF HostInv
  <2>3. latest'[path].answer = result /\ NoWrite.answer = "none"
    BY <2>2 DEF NoWrite
  <2>. QED
    BY <2>2, <2>3
<1>3. (names' \cup dirs') \cap Outside = {}
  BY <1>1 DEF HostInv, OnlyWantedDirectories
<1>4. ASSUME NEW dir \in dirs' \ {Root}
      PROVE  \E wanted \in Path \ Outside : latest'[wanted] # NoWrite /\ dir \in Ancestors[wanted]
  <2>1. CASE dir \in Ancestors[path]
    BY <2>1, <1>1, <1>2
  <2>2. CASE dir \in dirs
    <3>1. PICK wanted \in Path \ Outside : latest[wanted] # NoWrite /\ dir \in Ancestors[wanted]
      BY <2>2, <1>4 DEF HostInv, OnlyWantedDirectories
    <3>2. latest'[wanted] # NoWrite
      BY <3>1, <1>2
    <3>. QED
      BY <3>1, <3>2
  <2>. QED
    BY <2>1, <2>2
<1>. QED
  BY <1>3, <1>4 DEF OnlyWantedDirectories

\* The write breaks off before it has opened the file.
LEMMA FileNotOpened ==
    ASSUME HostInv, NEW path \in Path, NEW offset \in Offset, NEW data \in Data,
           Wrote(path, offset, data, "failed"), UNCHANGED store, dirs' \subseteq Path
    PROVE  HostTypeOK' /\ DataIsInPlace'
<1>1. /\ answer' \in Answer
      /\ kept' \subseteq Path \X (Nat \ {0}) \X Byte
      /\ sent' \subseteq Path \X (Nat \ {0})
      /\ sent \subseteq sent'
      /\ latest' \in [Path -> [offset : Nat, data : Seq(Byte), answer : Answer]]
      /\ latest'[path] = [offset |-> offset, data |-> data, answer |-> "failed"]
      /\ \A other \in Path \ {path} : latest'[other] = latest[other]
  <2>1. "failed" \in Answer
    BY DEF Answer
  <2>. QED
    BY <2>1, WroteTypes DEF HostInv
<1>2. HostTypeOK'
  BY <1>1 DEF HostInv, HostTypeOK, FilesTypeOK, store
<1>3. NoStrayBytes'
  BY <1>1 DEF HostInv, DataIsInPlace, NoStrayBytes, store
<1>4. ASSUME NEW p \in Path, latest'[p].answer = "ok", NEW i \in 1..Len(latest'[p].data)
      PROVE  /\ latest'[p].offset + i <= Len(content'[p])
             /\ content'[p][latest'[p].offset + i] = latest'[p].data[i]
  <2>1. p # path
    BY <1>1, <1>4
  <2>2. latest'[p] = latest[p] /\ content' = content
    BY <2>1, <1>1 DEF store
  <2>. QED
    BY <2>2, <1>4 DEF HostInv, DataIsInPlace
<1>. QED
  BY <1>2, <1>3, <1>4 DEF DataIsInPlace

\* The file is opened and truncated, and `part` of the data is written.
LEMMA FileReplaced ==
    ASSUME HostInv, NEW path \in Path, NEW offset \in Offset, NEW data \in Data,
           NEW result \in {"ok", "failed"}, Wrote(path, offset, data, result),
           NEW n \in 0..Len(data), result = "ok" => n = Len(data),
           Resolves(path), MakesAncestors(path),
           names' = names \cup {path},
           content' = [content EXCEPT ![path] = WriteAt(<<>>, offset, SubSeq(data, 1, n))]
    PROVE  HostInv'
<1> DEFINE part == SubSeq(data, 1, n)
           new == WriteAt(<<>>, offset, part)
<1>1. offset \in Nat /\ data \in Seq(Byte) /\ Len(data) \in Nat /\ n \in Nat
  BY FileAssumption
<1>2. /\ part \in Seq(Byte) /\ Len(part) = n
      /\ \A i \in 1..n : part[i] = data[i]
      /\ part = <<>> <=> n = 0
  BY <1>1
<1> HIDE DEF part
<1>3. /\ new \in Seq(Byte)
      /\ Len(new) = IF n = 0 THEN 0 ELSE offset + n
      /\ \A i \in 1..n : offset + i \in 1..Len(new) /\ new[offset + i] = data[i]
      /\ \A i \in 1..Len(new) : i \notin (offset + 1)..(offset + n) => new[i] = Zero
  <2>1. offset \in Nat /\ part \in Seq(Byte)
    BY <1>1, <1>2
  <2>2. /\ new \in Seq(Byte)
        /\ Len(new) = IF Len(part) = 0 THEN 0 ELSE offset + Len(part)
        /\ \A i \in 1..Len(part) : offset + i \in 1..Len(new) /\ new[offset + i] = part[i]
        /\ \A i \in 1..Len(new) : i \notin (offset + 1)..(offset + Len(part)) => new[i] = Zero
    BY <2>1, WrittenAfresh, Zenon
  <2> HIDE DEF new
  <2>. QED
    BY <1>2, <2>2
<1>4. /\ content' \in [Path -> Seq(Byte)]
      /\ content'[path] = new
      /\ \A other \in Path \ {path} : content'[other] = content[other]
  <2>1. content' = [content EXCEPT ![path] = new] /\ content \in [Path -> Seq(Byte)]
    BY DEF part, HostInv, HostTypeOK, FilesTypeOK
  <2> HIDE DEF new
  <2>. QED
    BY <2>1, <1>3
<1> HIDE DEF new
<1>5. /\ answer' \in Answer
      /\ kept' \subseteq Path \X (Nat \ {0}) \X Byte
      /\ sent' \subseteq Path \X (Nat \ {0})
      /\ sent \subseteq sent'
      /\ \A i \in 1..Len(data) : <<path, offset + i>> \in sent'
      /\ latest' \in [Path -> [offset : Nat, data : Seq(Byte), answer : Answer]]
      /\ latest'[path] = [offset |-> offset, data |-> data, answer |-> result]
      /\ \A other \in Path \ {path} : latest'[other] = latest[other]
  <2>1. result \in Answer
    BY DEF Answer
  <2>. QED
    BY <2>1, WroteTypes DEF HostInv
<1>6. HostTypeOK'
  <2>1. dirs' \subseteq Path
    BY FileAssumption DEF MakesAncestors, HostInv, HostTypeOK
  <2>2. \A other \in Path \ names' : content'[other] = <<>>
    BY <1>4 DEF HostInv, HostTypeOK, FilesTypeOK
  <2>3. names' \subseteq Path
    BY DEF HostInv, HostTypeOK, FilesTypeOK
  <2>. QED
    BY <2>1, <2>2, <2>3, <1>4, <1>5 DEF HostTypeOK, FilesTypeOK
<1>7. OnlyWantedDirectories'
  BY NothingUnwanted DEF MakesAncestors
<1>8. NoStrayBytes'
  <2>1. SUFFICES ASSUME NEW p \in Path, NEW i \in 1..Len(content'[p])
                 PROVE  /\ <<p, i>> \in sent' \/ content'[p][i] = Zero
                        /\ \E j \in i..Len(content'[p]) : <<p, j>> \in sent'
    BY DEF NoStrayBytes
  <2>2. CASE p # path
    BY <2>1, <2>2, <1>4, <1>5 DEF HostInv, DataIsInPlace, NoStrayBytes
  <2>3. CASE p = path
    <3>1. i \in 1..Len(new) /\ n # 0 /\ Len(new) = offset + n /\ n \in 1..Len(data)
      BY <2>1, <2>3, <1>1, <1>3, <1>4
    <3>2. <<path, Len(new)>> \in sent' /\ Len(new) \in i..Len(new)
      BY <3>1, <1>1, <1>5
    <3>3. CASE i \in (offset + 1)..(offset + n)
      <4>1. i - offset \in 1..Len(data) /\ offset + (i - offset) = i
        BY <3>3, <1>1
      <4>2. <<path, i>> \in sent'
        BY <4>1, <1>5
      <4>. QED
        BY <4>2, <3>2, <2>3, <1>4
    <3>4. CASE i \notin (offset + 1)..(offset + n)
      BY <3>1, <3>2, <3>4, <2>3, <1>3, <1>4
    <3>. QED
      BY <3>3, <3>4
  <2>. QED
    BY <2>2, <2>3
<1>9. ASSUME NEW p \in Path, latest'[p].answer = "ok", NEW i \in 1..Len(latest'[p].data)
      PROVE  /\ latest'[p].offset + i <= Len(content'[p])
             /\ content'[p][latest'[p].offset + i] = latest'[p].data[i]
  <2>1. CASE p = path
    <3>1. i \in 1..n /\ latest'[p].offset = offset /\ latest'[p].data = data
      BY <2>1, <1>5, <1>9
    <3>2. offset + i \in 1..Len(new) /\ new[offset + i] = data[i] /\ Len(new) \in Nat
      BY <3>1, <1>3
    <3>3. offset + i <= Len(new)
      BY <3>2
    <3>. QED
      BY <2>1, <3>1, <3>2, <3>3, <1>4
  <2>2. CASE p # path
    <3>1. latest'[p] = latest[p] /\ content'[p] = content[p]
      BY <2>2, <1>4, <1>5
    <3>. QED
      BY <3>1, <1>9 DEF HostInv, DataIsInPlace
  <2>. QED
    BY <2>1, <2>2
<1>10. DataIsInPlace'
  BY <1>8, <1>9 DEF DataIsInPlace
<1>. QED
  BY <1>6, <1>7, <1>10 DEF HostInv

LEMMA NextHostInv == HostInv /\ [HostNext]_hostVars => HostInv'
<1> SUFFICES ASSUME HostInv, [HostNext]_hostVars PROVE HostInv'
  OBVIOUS
<1>1. CASE HostRefuse
  BY <1>1, Untouched DEF HostRefuse, ClientTold, Answer
<1>2. ASSUME NEW path \in Path, HostListDir(path) PROVE HostInv'
  BY <1>2, Untouched DEF HostListDir, ClientTold, Answer
<1>3. ASSUME NEW path \in Path, HostReadFile(path) PROVE HostInv'
  BY <1>3, Untouched DEF HostReadFile, ClientTold, Answer
<1>4. ASSUME NEW path \in Path, NEW offset \in Offset, NEW data \in Data,
             HostWriteFile(path, offset, data)
      PROVE  HostInv'
  <2>1. data \in Seq(Byte) /\ Len(data) \in 0..Len(data) /\ data = SubSeq(data, 1, Len(data))
    BY FileAssumption
  <2>2. content' = [content EXCEPT ![path] = WriteAt(<<>>, offset, SubSeq(data, 1, Len(data)))]
    BY <1>4, <2>1 DEF HostWriteFile
  <2>. QED
    BY <1>4, <2>1, <2>2, FileReplaced DEF HostWriteFile
<1>5. ASSUME NEW path \in Path, NEW offset \in Offset, NEW data \in Data,
             HostWriteBreaksOff(path, offset, data)
      PROVE  HostInv'
  <2>1. Resolves(path) /\ Wrote(path, offset, data, "failed")
    BY <1>5 DEF HostWriteBreaksOff
  <2>2. CASE MakesSomeAncestors(path) /\ UNCHANGED store
    <3>1. dirs' \subseteq dirs \cup Ancestors[path]
      BY <2>2 DEF MakesSomeAncestors
    <3>2. dirs' \subseteq Path /\ names' \subseteq names \cup {path}
      BY <2>2, <3>1, FileAssumption DEF HostInv, HostTypeOK, store
    <3>3. HostTypeOK' /\ DataIsInPlace'
      BY <2>1, <2>2, <3>2, FileNotOpened
    <3>4. OnlyWantedDirectories'
      BY <2>1, <3>1, <3>2, NothingUnwanted
    <3>. QED
      BY <3>3, <3>4 DEF HostInv
  <2>3. CASE /\ MakesAncestors(path)
             /\ names' = names \cup {path}
             /\ \E n \in 0..Len(data) :
                    content' = [content EXCEPT ![path] = WriteAt(<<>>, offset, SubSeq(data, 1, n))]
    <3>1. PICK n \in 0..Len(data) :
              content' = [content EXCEPT ![path] = WriteAt(<<>>, offset, SubSeq(data, 1, n))]
      BY <2>3
    <3>. QED
      BY <2>1, <2>3, <3>1, FileReplaced
  <2>. QED
    BY <1>5, <2>2, <2>3 DEF HostWriteBreaksOff
<1>6. CASE HostFormat
  BY <1>6, Untouched DEF HostFormat, ClientTold, Answer
<1>7. CASE UNCHANGED hostVars
  BY <1>7, Untouched DEF hostVars, client, HostInv, HostTypeOK, FilesTypeOK
<1>. QED
  BY <1>1, <1>2, <1>3, <1>4, <1>5, <1>6, <1>7 DEF HostNext

\* resolve comes before create_dir_all in drivers.rs, and reads the whole path:
\* a path that leaves the root leaves nothing, and a write that breaks off
\* leaves directories of its own path at most.
THEOREM HostDirectoriesWanted == HostSpec => []OnlyWantedDirectories
<1>1. HostInv => OnlyWantedDirectories
  BY DEF HostInv
<1>. QED
  BY InitHostInv, NextHostInv, <1>1, PTL DEF HostSpec

\* The last acknowledged write to a file is in its place, and no byte shows that
\* was not sent for its place, whatever broke off half-way (drivers.rs:146).
THEOREM HostDataInPlace == HostSpec => []DataIsInPlace
<1>1. HostInv => DataIsInPlace
  BY DEF HostInv
<1>. QED
  BY InitHostInv, NextHostInv, <1>1, PTL DEF HostSpec

=============================================================================
