----------------------------- MODULE NodeUpdate -----------------------------
(***************************************************************************)
(* A firmware update through a node: the loop of tpt-node-mock (main.rs),  *)
(* which builds a node for every connection, its reactor, its update       *)
(* handler over the RAM writer, and a host that uploads images over a link *)
(* that may fail.  The host is the one of the core tests (tests/reactor.rs,*)
(* node_ota_flow_over_mock_transport): it skips the handshake, sends one   *)
(* command, waits for its acknowledgement and looks only at whether that   *)
(* reports success.  After a failure of the link it starts the same image  *)
(* again on the next connection; after a verdict or a refusal it may       *)
(* upload another one, on the same connection or on the next.              *)
(***************************************************************************)
EXTENDS RamOta

CONSTANTS
    Images,           \* what the host uploads
    Builds,           \* the capabilities registered for each node, in order
    MaxCapabilities,  \* MAX_CAPABILITIES
    MaxFailures       \* bound on the failures of the link

ASSUME UpdateAssumption ==
    /\ Images \subseteq Seq(Byte)
    /\ MaxChunk > 0
    /\ \A image \in Images : /\ 0..Len(image) \subseteq Offsets
                             /\ Len(image) + MaxChunk < UsizeModulus
                             /\ <<Len(image), Crc(image)>> \in Announcements
    /\ Builds \in Seq(STRING)
    /\ \E i \in 1..Len(Builds) : Builds[i] = "Ota"
    /\ MaxCapabilities \in Nat /\ Len(Builds) <= MaxCapabilities
    /\ MaxFailures \in Nat

\* Commands with their arguments, as the host makes them up.
StartOf(image) == [name |-> "OTA_START", size |-> Len(image), crc |-> Crc(image)]

ChunkAt(image, offset) ==
    [name |-> "OTA_CHUNK", offset |-> offset,
     data |-> SubSeq(image, offset + 1,
                     IF offset + MaxChunk <= Len(image) THEN offset + MaxChunk ELSE Len(image))]

FinishCommand == [name |-> "OTA_FINISH"]

Commands ==
    {StartOf(image) : image \in Images}
    \cup (UNION {{ChunkAt(image, offset) : offset \in 0..(Len(image) - 1)} : image \in Images})
    \cup {FinishCommand}

VARIABLES
    entries, ota, phase, reply, inbox, outbox,  \* of Reactor
    uploading,  \* the image the host is uploading
    step,       \* what the host does next: see Step
    next,       \* how much of the image has been acknowledged
    awaiting,   \* the host has sent a command and not read its acknowledgement
    failures,   \* of the link so far
    largest     \* history: the length of the largest image before this one on
                \* this connection

hostSide == <<uploading, step, next, awaiting, largest>>
updateVars == <<ramVars, entries, ota, phase, reply, inbox, outbox, hostSide, failures>>

\* "refused": an acknowledgement reported a failure, and the host gave up.
Step == {"handshake", "start", "chunk", "finish", "verified", "refused"}

Node == INSTANCE Reactor WITH
    Capabilities <- {Builds[i] : i \in 1..Len(Builds)},
    CommandId <- Commands,
    OtaIds <- Commands,
    Claims <- [driver \in {"LittleFs", "Telemetry"} |-> {}]

UpdateInit ==
    /\ Node!ReactorInit
    /\ RamInit
    /\ uploading \in Images
    /\ step = "handshake"
    /\ next = 0
    /\ awaiting = FALSE
    /\ failures = 0
    /\ largest = 0

-----------------------------------------------------------------------------
(* The node                                                                *)

\* Mutant of Build: the registry is full with one place left, and registering
\* fails, which ends the session.
BuildWithSpare ==
    /\ Len(entries) < Len(Builds)
    /\ IF Len(entries) + 1 < MaxCapabilities THEN Node!Register(Builds[Len(entries) + 1])
       ELSE /\ phase = "setup" /\ phase' = "stopped"
            /\ UNCHANGED <<entries, ota, reply, inbox, outbox>>
    /\ UNCHANGED <<ramVars, hostSide, failures>>

\* run_once registers its capabilities and runs the node.
Build ==
    /\ Len(entries) < Len(Builds)
    /\ Node!Register(Builds[Len(entries) + 1])
    /\ UNCHANGED <<ramVars, hostSide, failures>>

Run ==
    /\ Len(entries) = Len(Builds)
    /\ Node!Run
    /\ UNCHANGED <<ramVars, hostSide, failures>>

Write == Node!Send /\ UNCHANGED <<ramVars, hostSide, failures>>

\* What the update handler does with a command.  This host asks for nothing the
\* handler refuses by itself; a command without a case here would leave the node
\* without a step.
Handles(command) ==
    \/ command.name = "OTA_START" /\ Start(command.size, command.crc)
    \/ command.name = "OTA_CHUNK" /\ ChunkStored(command.offset, command.data)
    \/ command.name = "OTA_CHUNK" /\ ChunkTooFar(command.offset, command.data)
    \/ command.name = "OTA_FINISH" /\ Finish

\* dispatch_command of a node that has registered Capability::Ota.
Carry(command) ==
    /\ Node!Server(command) = Node!UpdateHandler
    /\ Handles(command)
    /\ Node!Serve(command, ack'.success)
    /\ UNCHANGED <<hostSide, failures>>

WriteFails ==
    /\ failures < MaxFailures
    /\ failures' = failures + 1
    /\ Node!SendFails
    /\ UNCHANGED <<ramVars, hostSide>>

ReadFails ==
    /\ failures < MaxFailures
    /\ failures' = failures + 1
    /\ Node!ReadFails
    /\ UNCHANGED <<ramVars, hostSide>>

\* Mutant of NewNode: the node of the last connection is used again.
SameNode ==
    /\ phase' = "setup"
    /\ reply' = Node!NoFrame
    /\ inbox' = <<>> /\ outbox' = <<>>
    /\ entries' = <<>> /\ ota' = FALSE
    /\ UNCHANGED ramVars

\* Node::new: an empty registry, an idle handler and an empty buffer.
NewNode ==
    /\ entries' = <<>> /\ ota' = FALSE
    /\ phase' = "setup"
    /\ reply' = Node!NoFrame
    /\ inbox' = <<>> /\ outbox' = <<>>
    /\ state' = "Idle" /\ received' = 0
    /\ expectedSize' = 0 /\ expectedCrc' = 0
    /\ ack' = NoAck
    /\ stream' = <<>> /\ faithful' = TRUE /\ verdict' = "none"
    /\ buffer' = <<>> /\ halted' = FALSE /\ longest' = 0

-----------------------------------------------------------------------------
(* The host                                                                *)

Ask(command) ==
    /\ ~awaiting
    /\ awaiting' = TRUE
    /\ inbox' = Append(inbox, command)
    /\ UNCHANGED <<entries, ota, phase, reply, outbox, ramVars, uploading, step, next, largest,
                   failures>>

AskStart == step = "start" /\ Ask(Node!Command(StartOf(uploading)))

AskChunk == step = "chunk" /\ Ask(Node!Command(ChunkAt(uploading, next)))

AskFinish == step = "finish" /\ Ask(Node!Command(FinishCommand))

\* The host takes the next frame of the node.
Hears ==
    /\ outbox # <<>>
    /\ outbox' = Tail(outbox)
    /\ UNCHANGED <<entries, ota, phase, reply, inbox, ramVars, uploading, largest, failures>>

HearHandshake ==
    /\ step = "handshake"
    /\ Hears
    /\ step' = "start"
    /\ UNCHANGED <<next, awaiting>>

\* Where the host goes on after an acknowledged command.
AfterSuccess ==
    \/ /\ step = "start"
       /\ next' = 0
       /\ step' = IF uploading = <<>> THEN "finish" ELSE "chunk"
    \/ /\ step = "chunk"
       /\ next' = next + Len(ChunkAt(uploading, next).data)
       /\ step' = IF next' < Len(uploading) THEN "chunk" ELSE "finish"
    \/ /\ step = "finish"
       /\ step' = "verified"
       /\ UNCHANGED next

HearAck ==
    /\ awaiting
    /\ Hears
    /\ awaiting' = FALSE
    /\ IF Head(outbox).success THEN AfterSuccess
       ELSE step' = "refused" /\ UNCHANGED next

\* Done with the image, the host uploads another one to the same node, whose
\* buffer still holds what it has sent so far.
GoOn ==
    /\ step \in {"verified", "refused"}
    /\ step' = "start"
    /\ uploading' \in Images
    /\ next' = 0
    /\ largest' = Larger(largest, Len(uploading))
    /\ UNCHANGED <<entries, ota, phase, reply, inbox, outbox, ramVars, awaiting, failures>>

\* Or it closes the connection: the node's read fails.
HangUp ==
    /\ step \in {"verified", "refused"}
    /\ Node!ReadFails
    /\ UNCHANGED <<ramVars, hostSide, failures>>

\* Two seconds after run() has returned: a new connection and a new node.
\* Frames that were under way are gone, and the host begins again, with the
\* image it did not get a verdict on.
Reconnect ==
    /\ phase = "stopped"
    /\ NewNode
    /\ IF step \in {"verified", "refused"} THEN uploading' \in Images ELSE UNCHANGED uploading
    /\ step' = "handshake"
    /\ next' = 0
    /\ awaiting' = FALSE
    /\ largest' = 0
    /\ UNCHANGED failures

HostStep == AskStart \/ AskChunk \/ AskFinish \/ HearHandshake \/ HearAck

ProgramStep ==
    \/ Build
    \/ Run
    \/ Write
    \/ \E command \in Commands : Carry(command)
    \/ Reconnect

UpdateNext ==
    \/ ProgramStep
    \/ HostStep
    \/ WriteFails
    \/ ReadFails
    \/ GoOn
    \/ HangUp

UpdateSpec == UpdateInit /\ [][UpdateNext]_updateVars

\* The program runs on: it polls its node, and connects again two seconds after
\* a connection has ended.  The host goes on with an upload it has begun.  The
\* link need not fail and the host need not hang up.
FairUpdateSpec ==
    /\ UpdateSpec
    /\ WF_updateVars(ProgramStep)
    /\ WF_updateVars(HostStep)

-----------------------------------------------------------------------------
(* Properties                                                              *)

UpdateTypeOK ==
    /\ Node!RegistryTypeOK
    /\ phase \in Node!Phase
    /\ RamTypeOK
    /\ uploading \in Images
    /\ step \in Step
    /\ next \in 0..Len(uploading)
    /\ failures \in 0..MaxFailures
    /\ largest \in {0} \cup {Len(image) : image \in Images}
    /\ Len(inbox) + Len(outbox) <= 1

\* What the host has been told of is in the node that told it: every byte it
\* counts as acknowledged is in the buffer of the node on the other end, and for
\* an image it takes for verified that is all of it, in a buffer that has its
\* checksum.  No failure of the link between command, write and acknowledgement
\* comes between the two.
HostKnowsTheBuffer ==
    /\ step \in {"chunk", "finish", "verified"} =>
        /\ next <= Len(buffer)
        /\ \A i \in 1..next : buffer[i] = uploading[i]
    /\ step = "verified" => next = Len(uploading) /\ Crc(buffer) = Crc(uploading)

\* The host's image is refused only if it does not fit the buffer, or if a
\* larger one came before it on the same connection, of which the buffer holds
\* the rest; no earlier connection, and no upload that broke off with one, leaves
\* anything behind.  An image that does not fit gets no verdict.
RefusedOnlyForCause ==
    /\ step = "refused" => Len(uploading) > Capacity \/ Len(uploading) < largest
    /\ step \in {"finish", "verified"} => Len(uploading) <= Capacity

\* Node and host never both wait for the other: while the host waits for the
\* handshake or an acknowledgement, the frame it waits for is still to come, or
\* the command it is the answer to, unless run() has returned and the next
\* connection is due.  The protocol has no timeout to get the two out of it.
NeverBothWait ==
    phase = "read" /\ inbox = <<>> /\ outbox = <<>> => ~awaiting /\ step # "handshake"

\* A command finds the session it belongs to: it reaches the update handler, and
\* a chunk or a finish an update that is open, also when the link has failed and
\* the host has begun again on another connection; no chunk panics the node.  It
\* is why Handles needs no case for the refusals of the handler.
CommandFindsItsSession ==
    phase = "read" /\ inbox # <<>> =>
        LET command == Head(inbox).id
        IN  /\ ~halted
            /\ Node!Server(command) = Node!UpdateHandler
            /\ command.name \in {"OTA_CHUNK", "OTA_FINISH"} => state = "Receiving"
            /\ command.name = "OTA_CHUNK" => ~Overflows(command.offset, command.data)

\* The update of the host's image: the host knows that it has begun, and no larger
\* image came before it on the connection.
UnderWay ==
    /\ step \in {"chunk", "finish", "verified", "refused"}
    /\ largest <= Len(uploading)

\* With this host, handler, writer and reactor implement OtaUpload, through any
\* failures of the link and over any number of connections and images: what was
\* lost on one connection never shows in an upload on the next.  The host's protocol
\* and a node made new for each connection take the place of what Orderly asks of
\* the host in RamOta.
HostUpload == INSTANCE OtaUpload WITH
    Checksums <- {a[2] : a \in Announcements},
    open <- UnderWay /\ state = "Receiving",
    upload <- IF UnderWay THEN stream ELSE <<>>,
    promised <- IF UnderWay /\ state = "Receiving" THEN expectedCrc ELSE 0,
    verdict <- IF UnderWay /\ state = "Idle" THEN verdict ELSE "none"

ImplementsHostUpload == HostUpload!UploadSpec

\* Every upload comes to a verdict or a refusal, on whichever connection, once
\* the link has stopped failing; no acknowledgement is waited for in vain.
UploadEnds == []<>(step \in {"verified", "refused"})

=============================================================================
