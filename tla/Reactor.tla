------------------------------ MODULE Reactor ------------------------------
(***************************************************************************)
(* The event loop of tpt-node-core (Node::run in reactor.rs, recv_frame and*)
(* send_frame in capability.rs), for any peer.  The node suspends at three *)
(* places: writing the handshake, reading a frame and writing a reply.     *)
(* Between them it does not interleave with anything, so a received frame  *)
(* is decoded, dispatched and answered with a frame to be written in one   *)
(* step, and the write is a step of its own that may fail after the        *)
(* command has been carried out.                                           *)
(*                                                                         *)
(* A frame is whole or broken: recv_frame fails on a wrong magic, a length *)
(* beyond MAX_PAYLOAD_SIZE and whatever the decoder of tpt-e-link rejects, *)
(* all of it with an error that ends run().                                *)
(***************************************************************************)
EXTENDS CapabilityRegistry

VARIABLES
    phase,  \* where the node is: see Phase
    reply,  \* the frame being written, or the one whose write failed
    inbox,  \* frames on the way to the node
    outbox  \* frames on the way to the peer

reactorVars == <<registryVars, phase, reply, inbox, outbox>>

\* "setup": built, run() not called; "write": suspended in send_frame;
\* "read": suspended in recv_frame; "stopped": run() has returned an error;
\* "panicked": the command in hand has panicked, and run() will not return.
Phase == {"setup", "write", "read", "stopped", "panicked"}

NoFrame == [kind |-> "none"]
Heartbeat == [kind |-> "Heartbeat"]
Broken == [kind |-> "Broken"]
Handshake(manifest) == [kind |-> "Handshake", manifest |-> manifest]
Command(id) == [kind |-> "Command", id |-> id]
Ack(id, success) == [kind |-> "Ack", id |-> id, success |-> success]

\* Handshake, telemetry, log and ack from the peer.
Unexpected == [kind |-> "Unexpected"]

Wire == {ToWire(cap) : cap \in Capabilities}

Manifests == UNION {[1..n -> Wire] : n \in 0..MaxCapabilities}

ToNode == {Heartbeat, Broken, Unexpected} \cup {Command(id) : id \in CommandId}

FromNode ==
    {Heartbeat}
    \cup {Handshake(manifest) : manifest \in Manifests}
    \cup {Ack(id, success) : id \in CommandId, success \in BOOLEAN}

ReactorInit ==
    /\ RegistryInit
    /\ phase = "setup"
    /\ reply = NoFrame
    /\ inbox = <<>>
    /\ outbox = <<>>

-----------------------------------------------------------------------------
Register(cap) ==
    /\ phase = "setup"
    /\ RegisterCapability(cap)
    /\ UNCHANGED <<phase, reply, inbox, outbox>>

\* Mutant of Run: the node waits for a peer to speak first.
RunUnannounced ==
    /\ phase = "setup"
    /\ phase' = "read"
    /\ UNCHANGED <<registryVars, reply, inbox, outbox>>

\* run() builds the manifest and starts to write it.
Run ==
    /\ phase = "setup"
    /\ phase' = "write"
    /\ reply' = Handshake(Manifest)
    /\ UNCHANGED <<registryVars, inbox, outbox>>

\* send_frame of the handshake, an acknowledgement or a heartbeat.
Send ==
    /\ phase = "write"
    /\ phase' = "read"
    /\ reply' = NoFrame
    /\ outbox' = Append(outbox, reply)
    /\ UNCHANGED <<registryVars, inbox>>

\* The transport fails while writing: the frame is lost and run() returns.
SendFails ==
    /\ phase = "write"
    /\ phase' = "stopped"
    /\ UNCHANGED <<registryVars, reply, inbox, outbox>>

\* Mutant of Reads: the frames behind the first one are dropped with the rest
\* of the receive buffer.
ReadsAndDrains(frame) ==
    /\ phase = "read"
    /\ inbox # <<>>
    /\ frame = Head(inbox)
    /\ inbox' = <<>>
    /\ UNCHANGED <<registryVars, outbox>>

\* recv_frame up to the match of run(): the frame at the head of the link.
Reads(frame) ==
    /\ phase = "read"
    /\ inbox # <<>>
    /\ frame = Head(inbox)
    /\ inbox' = Tail(inbox)
    /\ UNCHANGED <<registryVars, outbox>>

\* Mutant of Serve: a command nobody serves gets no answer.
ServeOrIgnore(id, success) ==
    /\ Reads(Command(id))
    /\ IF Server(id) = NoOne THEN UNCHANGED <<phase, reply>>
       ELSE phase' = "write" /\ reply' = Ack(id, success)

\* A command is carried out by its server, which reports success or failure;
\* a command nobody serves fails.
Serve(id, success) ==
    /\ Reads(Command(id))
    /\ Server(id) = NoOne => ~success
    /\ phase' = "write"
    /\ reply' = Ack(id, success)

\* The servers with a panic in their code: the update handler, where the end of a
\* chunk overflows a 32-bit usize (RamFlashWriter::write), and the LittleFS
\* driver of the ESP32, which takes four bytes of arguments that may be shorter
\* (decode_u32).
MayPanic(server) ==
    \/ server = UpdateHandler
    \/ server \in 1..Len(entries) /\ entries[server] = "LittleFs"

\* A command that panics: nothing answers it, and run() does not return.
Panics(id) ==
    /\ Reads(Command(id))
    /\ MayPanic(Server(id))
    /\ phase' = "panicked"
    /\ UNCHANGED reply

\* Mutant of Echo: a heartbeat is taken like the other messages of the peer.
EchoNothing ==
    /\ Reads(Heartbeat)
    /\ UNCHANGED <<phase, reply>>

Echo ==
    /\ Reads(Heartbeat)
    /\ phase' = "write"
    /\ reply' = Heartbeat

\* Mutant of Ignore: an unexpected message is left at the head of the link.
IgnoreInPlace ==
    /\ phase = "read"
    /\ inbox # <<>>
    /\ Unexpected = Head(inbox)
    /\ UNCHANGED reactorVars

Ignore ==
    /\ Reads(Unexpected)
    /\ UNCHANGED <<phase, reply>>

Reject ==
    /\ Reads(Broken)
    /\ phase' = "stopped"
    /\ UNCHANGED reply

\* The transport fails while the node waits for a frame.
ReadFails ==
    /\ phase = "read"
    /\ phase' = "stopped"
    /\ UNCHANGED <<registryVars, reply, inbox, outbox>>

=============================================================================
