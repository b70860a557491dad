---------------------------- MODULE WsTransport -----------------------------
(***************************************************************************)
(* WsTransport of tpt-node-mock (lib.rs): a queue of bytes fed by the      *)
(* messages of a WebSocket, wherever the peer has cut its bytes into       *)
(* messages.  A ping is answered by a pong and a pong or close ignored: no *)
(* byte is queued and the loop reads on.                                   *)
(***************************************************************************)
EXTENDS ByteLink

\* ws.read with nothing pending: a binary or text message extends the queue.
WsReadMessage ==
    /\ kind = "ws" /\ Filling
    /\ staged = <<>>
    /\ \E n \in 1..Len(fifo) :
        /\ staged' = staged \o SubSeq(fifo, 1, n)
        /\ fifo' = SubSeq(fifo, n + 1, Len(fifo))
    /\ UNCHANGED <<config, polling, wire, buf, need, outgoing>>

\* pending.pop_front.
WsPopByte ==
    /\ kind = "ws" /\ Filling
    /\ TakeStaged(1)

\* The whole buffer goes out as one binary message, of which a peer gets all or
\* nothing.
WsWrite == kind = "ws" /\ Writing /\ Give(Len(out))

WsStep == WsReadMessage \/ WsPopByte \/ WsWrite

=============================================================================
