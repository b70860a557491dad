---------------------------- MODULE FileCommands ----------------------------
(***************************************************************************)
(* The file commands of a node as their client knows them: the files a     *)
(* driver keeps, its last answer, and what the answers entitle the client  *)
(* to.  EspFiles and HostFiles are the two drivers behind the trait        *)
(* LittleFsDriver (capability.rs).                                         *)
(*                                                                         *)
(* A path is a member of Path once decode_path has taken it from the       *)
(* arguments; what it cannot take is refused.  No command deletes a file   *)
(* or makes a directory, and no answer carries what was read or listed.    *)
(***************************************************************************)
EXTENDS Naturals, Sequences

CONSTANTS
    Path,       \* the files and directories the client names
    Root,       \* the root directory
    Ancestors,  \* the directories above each of them
    Byte,
    Zero,
    Offset,     \* the offsets the client writes at (u32)
    Data        \* the data of a write

ASSUME FileAssumption ==
    /\ Root \in Path
    /\ Ancestors \in [Path -> SUBSET Path]
    /\ Zero \in Byte
    /\ Offset \subseteq Nat
    /\ Data \subseteq Seq(Byte)

VARIABLES
    names,    \* the files there are
    content,  \* their bytes; none where there is no file
    answer,   \* of the last command
    kept,     \* history: <<path, place, byte>> the client knows to be stored
    sent      \* history: <<path, place>> it has sent a byte for

client == <<answer, kept, sent>>

store == <<names, content>>

\* "none": the node broke off before it answered.
Answer == {"ok", "failed", "none"}

Empty == [path \in Path |-> <<>>]

FilesTypeOK ==
    /\ names \subseteq Path
    /\ content \in [Path -> Seq(Byte)]
    /\ \A path \in Path \ names : content[path] = <<>>
    /\ answer \in Answer
    /\ kept \subseteq Path \X (Nat \ {0}) \X Byte
    /\ sent \subseteq Path \X (Nat \ {0})

FilesInit ==
    /\ names = {} /\ content = Empty
    /\ answer = "none" /\ kept = {} /\ sent = {}

-----------------------------------------------------------------------------
Furthest(m, n) == IF m >= n THEN m ELSE n

\* Mutant of WriteAt: what lies between the end and the offset is not cleared.
WriteAtUncleared(old, offset, data) ==
    [i \in 1..(IF data = <<>> THEN Len(old) ELSE Furthest(Len(old), offset + Len(data))) |->
        IF i \in (offset + 1)..(offset + Len(data)) THEN data[i - offset]
        ELSE IF i <= Len(old) THEN old[i]
        ELSE data[1]]

\* seek to the offset, then write_all: a gap behind the end of the file reads
\* as zeros, and nothing happens where there is nothing to write.
WriteAt(old, offset, data) ==
    [i \in 1..(IF data = <<>> THEN Len(old) ELSE Furthest(Len(old), offset + Len(data))) |->
        IF i \in (offset + 1)..(offset + Len(data)) THEN data[i - offset]
        ELSE IF i <= Len(old) THEN old[i]
        ELSE Zero]

Covers(path, offset, data) == {<<path, offset + i>> : i \in 1..Len(data)}

\* What the client still knows when a write has put the covered bytes in doubt.
Undisturbed(path, offset, data) ==
    {k \in kept : <<k[1], k[2]>> \notin Covers(path, offset, data)}

ClientWrote(path, offset, data, result) ==
    /\ answer' = result
    /\ kept' = Undisturbed(path, offset, data) \cup
               (IF result = "ok" THEN {<<path, offset + i, data[i]>> : i \in 1..Len(data)} ELSE {})
    /\ sent' = sent \cup Covers(path, offset, data)

\* After an acknowledged FORMAT the client expects an empty store; after one
\* that was not, the old files or nothing.
ClientFormatted(result) ==
    /\ answer' = result
    /\ kept' = {}
    /\ sent' = IF result = "ok" THEN {} ELSE sent

\* A command that changes no file.
ClientTold(result) == answer' = result /\ UNCHANGED <<kept, sent>>

-----------------------------------------------------------------------------
\* "Write `data` to `path` starting at `offset`" (LittleFsDriver::write_file,
\* capability.rs:69): a byte whose write was acknowledged stays in its place in
\* the file until another write covers it or the store is formatted, whatever
\* else is written, fails or is cut off meanwhile.  So a client may copy a long
\* file in pieces, in any order, repeating those that got no answer.
AcknowledgedBytesAreKept ==
    \A k \in kept :
        /\ k[1] \in names
        /\ k[2] <= Len(content[k[1]])
        /\ content[k[1]][k[2]] = k[3]

\* A file has nothing but zeros where the client sent no byte since the store
\* was last formatted, and does not end behind the last one it sent: neither an
\* old file nor a failed write shines through.
NoStrayBytes ==
    \A path \in Path :
        \A i \in 1..Len(content[path]) :
            /\ <<path, i>> \in sent \/ content[path][i] = Zero
            /\ \E j \in i..Len(content[path]) : <<path, j>> \in sent

=============================================================================
