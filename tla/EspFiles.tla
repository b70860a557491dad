------------------------------ MODULE EspFiles ------------------------------
(***************************************************************************)
(* EspLittleFsDriver of tpt-node-esp32 (littlefs.rs): each command mounts  *)
(* the file system in the flash region, works on it and leaves nothing in  *)
(* memory.  LittleFS itself is a library: an operation that the chip or    *)
(* a loss of power interrupts leaves a file as it was, created but empty,  *)
(* or written, because a file is committed as a whole when it is closed.   *)
(* Nothing makes directories, so a file is in the root or cannot be made.  *)
(* A path means the same with and without a leading slash.                 *)
(***************************************************************************)
EXTENDS FileCommands

VARIABLE formatted  \* the region holds a file system that mounts

espVars == <<store, client, formatted>>

InRoot == {path \in Path : Ancestors[path] = {Root}}

EspTypeOK ==
    /\ FilesTypeOK
    /\ formatted \in BOOLEAN
    /\ names \subseteq InRoot
    /\ formatted \/ names = {}

\* The region may hold anything when the device is new.
EspInit == FilesInit /\ formatted \in BOOLEAN

-----------------------------------------------------------------------------
\* The arguments do not decode, the id is none of the four, the region does
\* not mount, the path is not there or of the wrong kind, or the chip fails.
EspRefuse ==
    /\ ClientTold("failed")
    /\ UNCHANGED <<store, formatted>>

\* LITTLEFS_LIST: the root is the only directory.
EspListDir(path) ==
    /\ formatted
    /\ path = Root
    /\ ClientTold("ok")
    /\ UNCHANGED <<store, formatted>>

\* LITTLEFS_READ, of any offset: behind the end nothing is read.
EspReadFile(path) ==
    /\ formatted
    /\ path \in names
    /\ ClientTold("ok")
    /\ UNCHANGED <<store, formatted>>

\* LITTLEFS_READ and LITTLEFS_WRITE with less than four bytes behind the path:
\* decode_u32 slices what is not there, and the device restarts.  So it does
\* when power is lost between commands.
Restart ==
    /\ ClientTold("none")
    /\ UNCHANGED <<store, formatted>>

\* Mutant of EspWriteFile: the directory of the file is made on the way.
WriteAnywhere(path, offset, data) ==
    /\ formatted
    /\ path # Root
    /\ names' = names \cup {path}
    /\ content' = [content EXCEPT ![path] = WriteAt(@, offset, data)]
    /\ ClientWrote(path, offset, data, "ok")
    /\ UNCHANGED formatted

\* Mutant of EspWriteFile: the file is opened with truncate(true).
WriteTruncated(path, offset, data) ==
    /\ formatted
    /\ path \in InRoot
    /\ names' = names \cup {path}
    /\ content' = [content EXCEPT ![path] = WriteAt(<<>>, offset, data)]
    /\ ClientWrote(path, offset, data, "ok")
    /\ UNCHANGED formatted

\* LITTLEFS_WRITE: opened with create, not truncated.
EspWriteFile(path, offset, data) ==
    /\ formatted
    /\ path \in InRoot
    /\ names' = names \cup {path}
    /\ content' = [content EXCEPT ![path] = WriteAt(@, offset, data)]
    /\ ClientWrote(path, offset, data, "ok")
    /\ UNCHANGED formatted

\* The chip, the space or the power fails during the write.
EspWriteBreaksOff(path, offset, data) ==
    /\ formatted
    /\ path \in InRoot
    /\ names' \in {names, names \cup {path}}
    /\ content' \in {content} \cup
           (IF path \in names' THEN {[content EXCEPT ![path] = WriteAt(@, offset, data)]} ELSE {})
    /\ \E result \in {"failed", "none"} : ClientWrote(path, offset, data, result)
    /\ UNCHANGED formatted

\* LITTLEFS_FORMAT.
EspFormat ==
    /\ formatted' = TRUE
    /\ names' = {} /\ content' = Empty
    /\ ClientFormatted("ok")

\* The superblock is the old one, the new one or neither.
EspFormatBreaksOff ==
    /\ \/ UNCHANGED <<store, formatted>>
       \/ formatted' \in BOOLEAN /\ names' = {} /\ content' = Empty
    /\ \E result \in {"failed", "none"} : ClientFormatted(result)

EspNext ==
    \/ EspRefuse
    \/ Restart
    \/ \E path \in Path : EspListDir(path) \/ EspReadFile(path)
    \/ \E path \in Path, offset \in Offset, data \in Data :
           EspWriteFile(path, offset, data) \/ EspWriteBreaksOff(path, offset, data)
    \/ EspFormat
    \/ EspFormatBreaksOff

EspSpec == EspInit /\ [][EspNext]_espVars

=============================================================================
