----------------------------- MODULE OtaUpload -----------------------------
(***************************************************************************)
(* What an over-the-air update promises its host, whatever the writer: the *)
(* bytes of the chunks accepted since the last start make up one upload,   *)
(* and a finish is answered positively exactly when that upload has the    *)
(* checksum the start announced.  RamOta, EspOta and NodeUpdate implement  *)
(* this; this module says nothing of buffers, flash or offsets.            *)
(***************************************************************************)
EXTENDS Sequences

CONSTANTS
    Chunks,     \* the byte strings one chunk can carry
    Checksums,  \* the CRC-32 values
    Crc(_)      \* the CRC-32 of a byte string

VARIABLES
    open,      \* an update is in progress
    upload,    \* the bytes accepted since it was started
    promised,  \* the checksum announced when it was started
    verdict    \* of the last finish; "none" from a start on

uploadVars == <<open, upload, promised, verdict>>

UploadInit ==
    /\ open = FALSE
    /\ upload = <<>>
    /\ promised = 0
    /\ verdict = "none"

Begin(crc) ==
    /\ open' = TRUE
    /\ upload' = <<>>
    /\ promised' = crc
    /\ verdict' = "none"

Extend(data) ==
    /\ open
    /\ upload' = upload \o data
    /\ UNCHANGED <<open, promised, verdict>>

Conclude ==
    /\ open
    /\ open' = FALSE
    /\ verdict' = IF Crc(upload) = promised THEN "verified" ELSE "mismatch"
    /\ upload' = <<>>
    /\ promised' = 0

\* The update is gone and gets no verdict: the node restarts, or the host begins
\* anew or does what no verdict is promised for.
Lose ==
    /\ open' = FALSE
    /\ upload' = <<>>
    /\ promised' = 0
    /\ verdict' = "none"

UploadNext ==
    \/ Lose
    \/ Conclude
    \/ \E data \in Chunks : Extend(data)
    \/ \E crc \in Checksums : Begin(crc)

UploadSpec == UploadInit /\ [][UploadNext]_uploadVars

=============================================================================
