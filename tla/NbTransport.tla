---------------------------- MODULE NbTransport -----------------------------
(***************************************************************************)
(* The two transports of tpt-node-riscv (transport/uart.rs) over the nb    *)
(* halves of a serial device.  Both move one byte at a time and end a      *)
(* write with a flush; where the half answers WouldBlock the blocking one  *)
(* spins, which is no step, and the asynchronous one returns Pending.      *)
(***************************************************************************)
EXTENDS ByteLink

Nb == {"nb", "nb_async"}

\* Mutant of NbReadByte: poll_fn lets other tasks run after every byte.
NbReadByteAndYield ==
    /\ kind \in Nb /\ Filling /\ fifo # <<>>
    /\ buf' = Append(buf, Head(fifo))
    /\ fifo' = Tail(fifo)
    /\ poll' = IF kind = "nb_async" THEN "blocked" ELSE poll
    /\ UNCHANGED <<config, woken, wire, staged, need, outgoing>>

\* rx.read with a byte in the FIFO.
NbReadByte ==
    /\ kind \in Nb /\ Filling
    /\ TakeReceived(1)

\* Mutant of NbWriteByte: WouldBlock is taken for success.
NbWriteByteOnce ==
    /\ kind \in Nb /\ Writing
    /\ IF Len(tx) < TxLen THEN Give(1)
       ELSE /\ out' = Tail(out)
            /\ UNCHANGED <<config, polling, incoming, tx, heard>>

\* tx.write with room in the FIFO.
NbWriteByte ==
    /\ kind \in Nb /\ Writing
    /\ Len(tx) < TxLen
    /\ Give(1)

\* poll_fn: read with an empty FIFO, write with a full one, flush of one that
\* has not drained.  The context, and with it the waker, is not looked at.
NbPending ==
    /\ kind = "nb_async"
    /\ \/ Len(buf) < need /\ fifo = <<>>
       \/ out # <<>> /\ Len(tx) = TxLen
       \/ need = 0 /\ out = <<>> /\ tx # <<>>
    /\ Block

NbStep == NbReadByte \/ NbWriteByte \/ NbPending

=============================================================================
