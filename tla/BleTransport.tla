---------------------------- MODULE BleTransport ----------------------------
(***************************************************************************)
(* BleTransport of tpt-node-esp32 (ble.rs) over any BleStream: the stream  *)
(* returns what it has, up to the size of the staging buffer, and what the *)
(* current read_exact does not need stays there for the next one.          *)
(***************************************************************************)
EXTENDS ByteLink

CONSTANT RxBufLen  \* RX_BUF_LEN

ASSUME BleAssumption == RxBufLen \in Nat \ {0}

\* Mutant of BleRefill: the read is not limited to the staging buffer.
BleRefillAll ==
    /\ kind = "ble" /\ Filling
    /\ staged = <<>> /\ fifo # <<>>
    /\ staged' = fifo
    /\ fifo' = <<>>
    /\ UNCHANGED <<config, polling, wire, buf, need, outgoing>>

\* stream.read into an empty staging buffer: at least one byte.  It blocks
\* while there is none.
BleRefill ==
    /\ kind = "ble" /\ Filling
    /\ staged = <<>>
    /\ \E n \in 1..Shorter(Len(fifo), RxBufLen) :
        /\ staged' = SubSeq(fifo, 1, n)
        /\ fifo' = SubSeq(fifo, n + 1, Len(fifo))
    /\ UNCHANGED <<config, polling, wire, buf, need, outgoing>>

\* Mutant of BleCopy: what the slice has no room for is forgotten.
BleCopyAndClear ==
    /\ kind = "ble" /\ Filling
    /\ staged # <<>>
    /\ buf' = buf \o SubSeq(staged, 1, Shorter(Len(staged), need - Len(buf)))
    /\ staged' = <<>>
    /\ UNCHANGED <<config, polling, wire, fifo, need, outgoing>>

\* copy_from_slice of as much as is staged and wanted.
BleCopy ==
    /\ kind = "ble" /\ Filling
    /\ staged # <<>>
    /\ TakeStaged(Shorter(Len(staged), need - Len(buf)))

\* stream.write has everything accepted when it returns; it can fail before.
BleWrite == kind = "ble" /\ Writing /\ \E n \in 1..Len(out) : Give(n)

BleStep == BleRefill \/ BleCopy \/ BleWrite

=============================================================================
