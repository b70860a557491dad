----------------------------- MODULE HostFiles ------------------------------
(***************************************************************************)
(* HostLittleFsDriver of tpt-node-mock (drivers.rs): the same commands on  *)
(* a directory of the host.  Paths are relative to it and may go through   *)
(* directories, which a write makes.  The operating system may refuse a    *)
(* call at any time (no space, no permission).                             *)
(***************************************************************************)
EXTENDS FileCommands

CONSTANT Outside  \* the paths that are absolute or contain ".."

\* A path without ".." is below directories without "..".
ASSUME HostAssumption ==
    /\ Outside \subseteq Path \ {Root}
    /\ Ancestors[Root] = {}
    /\ \A path \in Path : \A dir \in Ancestors[path] :
           /\ Ancestors[dir] \subseteq Ancestors[path]
           /\ dir \in Outside => path \in Outside

VARIABLES
    dirs,   \* the directories there are
    latest  \* history: the last write to each file, and whether it succeeded

hostVars == <<store, client, dirs, latest>>

NoWrite == [offset |-> 0, data |-> <<>>, answer |-> "none"]

HostInit ==
    /\ FilesInit
    /\ dirs = {Root}
    /\ latest = [path \in Path |-> NoWrite]

-----------------------------------------------------------------------------
\* decode_path or the length of the rest fails, the id is none of the four,
\* resolve rejects the path, or the operating system refuses.
HostRefuse ==
    /\ ClientTold("failed")
    /\ UNCHANGED <<store, dirs, latest>>

HostListDir(path) ==
    /\ path \in dirs
    /\ ClientTold("ok")
    /\ UNCHANGED <<store, dirs, latest>>

HostReadFile(path) ==
    /\ path \in names
    /\ ClientTold("ok")
    /\ UNCHANGED <<store, dirs, latest>>

Wrote(path, offset, data, result) ==
    /\ ClientWrote(path, offset, data, result)
    /\ latest' = [latest EXCEPT ![path] = [offset |-> offset, data |-> data, answer |-> result]]

\* Mutant of Resolves: the parts of the path are not looked at.
ResolvesAny(path) == TRUE

\* HostLittleFsDriver::resolve.
Resolves(path) == path \notin Outside

\* create_dir_all of the parent, which no file stands in the way of.
MakesAncestors(path) ==
    /\ Ancestors[path] \cap names = {}
    /\ dirs' = dirs \cup Ancestors[path]

\* create_dir_all ends in an error, at a file that is in the way or wherever the
\* operating system refuses: it works its way down and leaves what it has made.
MakesSomeAncestors(path) ==
    \E made \in SUBSET (Ancestors[path] \ names) :
        /\ \A dir \in made : Ancestors[dir] \subseteq dirs \cup made
        /\ dirs' = dirs \cup made

\* Mutant of HostWriteFile: the data is written without the seek.
WriteWithoutSeek(path, offset, data) ==
    /\ Resolves(path)
    /\ MakesAncestors(path)
    /\ path \notin dirs'
    /\ names' = names \cup {path}
    /\ content' = [content EXCEPT ![path] = WriteAt(<<>>, 0, data)]
    /\ Wrote(path, offset, data, "ok")

\* Opened with create and truncate: what was in the file is gone before the
\* data is written.
HostWriteFile(path, offset, data) ==
    /\ Resolves(path)
    /\ MakesAncestors(path)
    /\ path \notin dirs'
    /\ names' = names \cup {path}
    /\ content' = [content EXCEPT ![path] = WriteAt(<<>>, offset, data)]
    /\ Wrote(path, offset, data, "ok")

\* The write ends in an error: with some or all of the directories made, with
\* the file made and truncated, or with the first part of the data written.
HostWriteBreaksOff(path, offset, data) ==
    /\ Resolves(path)
    /\ Wrote(path, offset, data, "failed")
    /\ \/ MakesSomeAncestors(path) /\ UNCHANGED store
       \/ /\ MakesAncestors(path)
          /\ path \notin dirs'
          /\ names' = names \cup {path}
          /\ \E n \in 0..Len(data) :
                 content' = [content EXCEPT ![path] = WriteAt(<<>>, offset, SubSeq(data, 1, n))]

\* LITTLEFS_FORMAT: "no-op on a host directory" (drivers.rs:12), so its client
\* expects the files to stay.
HostFormat ==
    /\ ClientTold("ok")
    /\ UNCHANGED <<store, dirs, latest>>

HostNext ==
    \/ HostRefuse
    \/ \E path \in Path : HostListDir(path) \/ HostReadFile(path)
    \/ \E path \in Path, offset \in Offset, data \in Data :
           HostWriteFile(path, offset, data) \/ HostWriteBreaksOff(path, offset, data)
    \/ HostFormat

HostSpec == HostInit /\ [][HostNext]_hostVars

-----------------------------------------------------------------------------
HostTypeOK ==
    /\ FilesTypeOK
    /\ dirs \subseteq Path
    /\ latest \in [Path -> [offset : Nat, data : Seq(Byte), answer : Answer]]

\* "with traversal outside the root rejected" (drivers.rs:15): a path that leaves
\* the root leaves no trace, neither the file nor a directory of it, also where
\* its directories lie inside.  Every directory is there for a file the client
\* was entitled to write, although a failed write takes none back.
OnlyWantedDirectories ==
    /\ (names \cup dirs) \cap Outside = {}
    /\ \A dir \in dirs \ {Root} :
           \E path \in Path \ Outside : latest[path] # NoWrite /\ dir \in Ancestors[path]

\* write_file puts the data where it is told to ("starting at `offset`",
\* capability.rs:69): after a write that succeeded, with nothing written to that
\* file since, the data is in its place, and neither the writes that broke off
\* nor the gaps show a byte that was not sent for its place.
DataIsInPlace ==
    /\ NoStrayBytes
    /\ \A path \in Path :
           latest[path].answer = "ok" =>
               \A i \in 1..Len(latest[path].data) :
                   /\ latest[path].offset + i <= Len(content[path])
                   /\ content[path][latest[path].offset + i] = latest[path].data[i]

=============================================================================
