------------------------------ MODULE ByteLink ------------------------------
(***************************************************************************)
(* What every transport of the repository stands on: the bytes between a   *)
(* peer and a device, the slice a read_exact is filling and the one a      *)
(* write_all is sending, and the executor that polls the node's future.    *)
(* BleTransport, WsTransport, NbTransport and EspTransport say how the     *)
(* transports move the bytes, FrameReader what is done with them.          *)
(*                                                                         *)
(* The link keeps the order of the bytes.  What gets lost or changed on it *)
(* is decided when the peer sends (FrameReader!PostDamaged).               *)
(***************************************************************************)
EXTENDS Naturals, Sequences

CONSTANTS
    Kinds,     \* the transports of an instance: see Kind
    FifoLen,   \* what the receiving side of a device holds
    TxLen      \* what its sending side holds

\* "ble": BleTransport; "ws": WsTransport; "nb" and "nb_async": the two of
\* tpt-node-riscv; "esp", "esp_async" and "usb": the three of tpt-node-esp32.
Kind == {"ble", "ws", "nb", "nb_async", "esp", "esp_async", "usb"}

\* The transports whose futures return Poll::Pending.
Async == {"nb_async", "esp_async"}

\* Those whose write_all ends with a flush.
Flushed == Kind \ {"ble", "ws"}

ASSUME LinkAssumption ==
    /\ Kinds \subseteq Kind
    /\ FifoLen \in Nat \ {0}
    /\ TxLen \in Nat \ {0}

VARIABLES
    kind,       \* the transport the node was built with
    executor,   \* what polls the node's future: see LinkInit
    poll,       \* "running"; "blocked": it has met WouldBlock; "asleep": it is Pending
    woken,      \* the task has been woken since its last poll began
    wire,       \* bytes of the peer on their way
    fifo,       \* bytes the device, stream or socket has received
    staged,     \* BleTransport::rx_buf[rx_pos..rx_len], WsTransport::pending
    buf,        \* the filled part of the slices the frame is read into
    need,       \* where the read_exact in progress ends; 0 without one
    out,        \* what the write_all in progress has left to write
    tx,         \* bytes the sending side holds
    heard       \* bytes that have reached the peer

config == <<kind, executor>>
incoming == <<wire, fifo, staged, buf, need>>
outgoing == <<out, tx, heard>>
polling == <<poll, woken>>
linkVars == <<config, polling, incoming, outgoing>>

Shorter(a, b) == IF a <= b THEN a ELSE b

\* "busy": a block_on with a waker that does nothing and a loop that polls again,
\* which every blocking transport of the examples and templates has and an
\* asynchronous one may have.  The others poll a task that has been woken:
\* "woken": the interrupts of the device wake this one, which the driver of
\* esp-hal sees to; "unwoken": they have no waker to wake it with.  The futures of
\* tpt-node-riscv keep none, so there the application may be either.
LinkInit ==
    /\ kind \in Kinds
    /\ executor \in CASE kind = "nb_async"  -> {"busy", "woken", "unwoken"}
                      [] kind = "esp_async" -> {"busy", "woken"}
                      [] OTHER              -> {"busy"}
    /\ poll = "running" /\ woken = FALSE
    /\ wire = <<>> /\ fifo = <<>> /\ staged = <<>>
    /\ buf = <<>> /\ need = 0
    /\ tx = <<>> /\ heard = <<>>

-----------------------------------------------------------------------------
\* An interrupt of the device, which may come at any point of a poll.
Interrupt == woken' = (woken \/ executor = "woken") /\ poll' = poll

\* A byte reaches the device.
Arrive ==
    /\ wire # <<>> /\ Len(fifo) < FifoLen
    /\ fifo' = Append(fifo, Head(wire))
    /\ wire' = Tail(wire)
    /\ Interrupt
    /\ UNCHANGED <<config, staged, buf, need, outgoing>>

\* A byte leaves the device.
Drain ==
    /\ tx # <<>>
    /\ heard' = Append(heard, Head(tx))
    /\ tx' = Tail(tx)
    /\ Interrupt
    /\ UNCHANGED <<config, incoming, out>>

\* Poll::Pending gets back to the executor.
Yield ==
    /\ poll = "blocked"
    /\ poll' = "asleep"
    /\ UNCHANGED <<config, woken, incoming, outgoing>>

\* The executor polls the task again: because it has been woken, during the last
\* poll or since, or because it always does.
Repoll ==
    /\ poll = "asleep"
    /\ woken \/ executor = "busy"
    /\ poll' = "running" /\ woken' = FALSE
    /\ UNCHANGED <<config, incoming, outgoing>>

ExecutorStep == Yield \/ Repoll

PollTypeOK ==
    /\ executor \in {"busy", "woken", "unwoken"}
    /\ poll \in {"running", "blocked", "asleep"} /\ (poll # "running" => kind \in Async)
    /\ woken \in BOOLEAN /\ (woken => executor = "woken")

-----------------------------------------------------------------------------
(* Inside read_exact and write_all of a transport that is being polled.    *)

Running == poll = "running"

Filling == Running /\ Len(buf) < need

Writing == Running /\ out # <<>>

\* The next n bytes of the device go into the slice.
TakeReceived(n) ==
    /\ n <= Len(fifo)
    /\ buf' = buf \o SubSeq(fifo, 1, n)
    /\ fifo' = SubSeq(fifo, n + 1, Len(fifo))
    /\ UNCHANGED <<config, polling, wire, staged, need, outgoing>>

\* The next n bytes of the transport's own buffer go into it.
TakeStaged(n) ==
    /\ n <= Len(staged)
    /\ buf' = buf \o SubSeq(staged, 1, n)
    /\ staged' = SubSeq(staged, n + 1, Len(staged))
    /\ UNCHANGED <<config, polling, wire, fifo, need, outgoing>>

\* The device takes the next n bytes of what is written.
Give(n) ==
    /\ tx' = tx \o SubSeq(out, 1, n)
    /\ out' = SubSeq(out, n + 1, Len(out))
    /\ UNCHANGED <<config, polling, incoming, heard>>

\* A call into the device answers WouldBlock.  What it lacked may come before
\* the future has returned.
Block ==
    /\ Running
    /\ poll' = "blocked"
    /\ UNCHANGED <<config, woken, incoming, outgoing>>

\* write_all has returned: all is written and, where it flushes, sent.
Sent == out = <<>> /\ (kind \in Flushed => tx = <<>>)

=============================================================================
