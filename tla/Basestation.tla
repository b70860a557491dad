---------------------------- MODULE Basestation ----------------------------
(***************************************************************************)
(* The mock base station of tpt-node-mock (bin/mock_basestation.rs) on the *)
(* serial line of a node.  It answers the handshake and every heartbeat    *)
(* with a heartbeat, while the node echoes heartbeats too, so the two of   *)
(* them pass one back and forth for ever; after the first bytes it has     *)
(* read it sends one command of the serial range, which no driver serves.  *)
(*                                                                         *)
(* A read may return several frames, which are drained one at a time, or   *)
(* only a part of one.  The station does not stop on a failed write: the   *)
(* frame is lost, whole or cut off.  It ends on a read that fails for      *)
(* another reason than time, and only reports a frame it cannot decode.    *)
(* The node may be reset at any time, in the middle of a frame too; the    *)
(* station does not notice.  No command panics the node here: the probe is *)
(* the only one, and nobody serves it.                                     *)
(***************************************************************************)
EXTENDS Reactor, FiniteSets

CONSTANTS
    SerialProbe,  \* SERIAL_BASE_CMD
    MaxRestarts   \* bound on the resets of the node

ASSUME StationAssumption ==
    /\ SerialProbe \in CommandId \ OtaIds
    /\ \A driver \in WithDriver : SerialProbe \notin Claims[driver]
    /\ MaxRestarts \in Nat

VARIABLES
    station,   \* "read": in port.read; "drain": handling what it returned;
               \* "gone": main has returned
    batch,     \* the frames of that read not handled yet
    sentProbe, \* sent_serial_cmd
    acks,      \* history: the acknowledgements the station has got
    restarts,  \* resets of the node so far
    calm       \* history: no read or write has failed and no frame was cut off

stationVars == <<station, batch, sentProbe, acks>>

lineVars == <<reactorVars, stationVars, restarts, calm>>

LineTypeOK ==
    /\ RegistryTypeOK
    /\ phase \in Phase
    /\ reply \in FromNode \cup {NoFrame}
    /\ inbox \in Seq(ToNode)
    /\ outbox \in Seq(FromNode \cup {Broken})
    /\ station \in {"read", "drain", "gone"}
    /\ batch \in 0..Len(outbox)
    /\ sentProbe \in BOOLEAN
    /\ acks \in Seq(FromNode)
    /\ restarts \in 0..MaxRestarts
    /\ calm \in BOOLEAN

LineInit ==
    /\ ReactorInit
    /\ station = "read"
    /\ batch = 0
    /\ sentProbe = FALSE
    /\ acks = <<>>
    /\ restarts = 0
    /\ calm = TRUE

-----------------------------------------------------------------------------
(* The station                                                             *)

\* Mutant of Puts: a frame whose write failed is written again, although it may
\* have arrived.
PutsAgain(frame) ==
    \/ inbox' = Append(inbox, frame) /\ UNCHANGED calm
    \/ inbox' = inbox \o <<frame, frame>> /\ calm' = FALSE

\* The ways a frame written by the station can turn out on the line: it arrives,
\* it is lost, or a part of it arrives.
Puts(frame) ==
    \/ inbox' = Append(inbox, frame) /\ UNCHANGED calm
    \/ inbox' = inbox /\ calm' = FALSE
    \/ inbox' = Append(inbox, Broken) /\ calm' = FALSE

\* A read that completes no frame matters only before the probe is sent, or when
\* what it waits for is the rest of a broken one.
StationReads ==
    /\ station = "read"
    /\ outbox # <<>>
    /\ station' = "drain"
    /\ batch' \in (IF sentProbe /\ Head(outbox) # Broken THEN 1 ELSE 0)..Len(outbox)
    /\ UNCHANGED <<reactorVars, sentProbe, acks, restarts, calm>>

\* A read that fails ends the station; a timeout is no failure.
StationReadFails ==
    /\ station = "read"
    /\ station' = "gone"
    /\ calm' = FALSE
    /\ UNCHANGED <<reactorVars, batch, sentProbe, acks, restarts>>

\* The next frame of the batch.
Hears(frame) ==
    /\ station = "drain"
    /\ batch > 0
    /\ frame = Head(outbox)
    /\ outbox' = Tail(outbox)
    /\ batch' = batch - 1
    /\ UNCHANGED <<registryVars, phase, reply, station, sentProbe, restarts>>

\* Mutant of StationBeats: only the handshake is answered.
StationBeatsOnce ==
    \/ /\ Hears(Heartbeat)
       /\ UNCHANGED <<inbox, acks, calm>>
    \/ /\ \E manifest \in Manifests : Hears(Handshake(manifest))
       /\ Puts(Heartbeat)
       /\ UNCHANGED acks

StationBeats ==
    /\ \/ Hears(Heartbeat)
       \/ \E manifest \in Manifests : Hears(Handshake(manifest))
    /\ Puts(Heartbeat)
    /\ UNCHANGED acks

StationHearsAck(id, success) ==
    /\ Hears(Ack(id, success))
    /\ acks' = Append(acks, Ack(id, success))
    /\ UNCHANGED <<inbox, calm>>

\* A frame that does not decode is reported and nothing else; the decoder may
\* have taken bytes of the next frame with it.
StationHearsBroken ==
    /\ calm' = FALSE
    /\ UNCHANGED <<inbox, acks>>
    /\ \/ Hears(Broken)
       \/ /\ station = "drain"
          /\ batch > 1
          /\ Head(outbox) = Broken
          /\ outbox' = <<Broken>> \o Tail(Tail(outbox))
          /\ batch' = batch - 1
          /\ UNCHANGED <<registryVars, phase, reply, station, sentProbe, restarts>>

\* Mutant of StationProbes: the probe is sent again until it is answered.
StationProbesAgain ==
    /\ station = "drain"
    /\ batch = 0
    /\ station' = "read"
    /\ sentProbe' = TRUE
    /\ IF acks # <<>> THEN UNCHANGED <<inbox, calm>> ELSE Puts(Command(SerialProbe))
    /\ UNCHANGED <<registryVars, phase, reply, outbox, batch, acks, restarts>>

\* The end of the loop's body; the probe counts as sent whatever its write says.
StationProbes ==
    /\ station = "drain"
    /\ batch = 0
    /\ station' = "read"
    /\ sentProbe' = TRUE
    /\ IF sentProbe THEN UNCHANGED <<inbox, calm>> ELSE Puts(Command(SerialProbe))
    /\ UNCHANGED <<registryVars, phase, reply, outbox, batch, acks, restarts>>

-----------------------------------------------------------------------------
(* The node                                                                *)

NodeRuns ==
    /\ \/ Run
       \/ Send
       \/ \E id \in CommandId, success \in BOOLEAN : Serve(id, success)
       \/ Echo
       \/ Ignore
       \/ Reject
    /\ UNCHANGED <<stationVars, restarts, calm>>

NodeBuilds(cap) == Register(cap) /\ UNCHANGED <<stationVars, restarts, calm>>

\* A write that fails when a part of the frame is out.
SendBreaksOff ==
    /\ phase = "write"
    /\ phase' = "stopped"
    /\ outbox' = Append(outbox, Broken)
    /\ UNCHANGED <<registryVars, reply, inbox>>

NodeFails ==
    /\ SendFails \/ SendBreaksOff \/ ReadFails
    /\ calm' = FALSE
    /\ UNCHANGED <<stationVars, restarts>>

\* What the node has written stays with the station, the begin of a frame too;
\* what was written to it is lost, or is picked up in the middle of a frame.
Restart ==
    /\ restarts < MaxRestarts
    /\ restarts' = restarts + 1
    /\ entries' = <<>> /\ ota' = FALSE
    /\ phase' = "setup"
    /\ reply' = NoFrame
    /\ \/ inbox' = <<>> /\ UNCHANGED <<outbox, calm>>
       \/ /\ inbox' \in {<<>>} \cup (IF inbox = <<>> THEN {} ELSE {<<Broken>> \o Tail(inbox)})
          /\ outbox' \in {outbox} \cup (IF phase = "write" THEN {Append(outbox, Broken)} ELSE {})
          /\ calm' = FALSE
    /\ UNCHANGED stationVars

-----------------------------------------------------------------------------
StationStep ==
    \/ StationReads
    \/ StationBeats
    \/ \E id \in CommandId, success \in BOOLEAN : StationHearsAck(id, success)
    \/ StationHearsBroken
    \/ StationProbes

LineNext ==
    \/ StationStep
    \/ StationReadFails
    \/ NodeRuns
    \/ \E cap \in Capabilities : NodeBuilds(cap)
    \/ NodeFails
    \/ Restart

LineSpec == LineInit /\ [][LineNext]_lineVars

\* The station's loop and the node's are each polled for ever, and a read
\* returns when there are bytes to return.
FairLineSpec == LineSpec /\ WF_lineVars(StationStep) /\ WF_lineVars(NodeRuns)

-----------------------------------------------------------------------------
\* The places of a sequence with a frame of one of these kinds.
Places(frames, kinds) == {i \in 1..Len(frames) : frames[i].kind \in kinds}

Count(frames, kinds) == Cardinality(Places(frames, kinds))

\* Heartbeats on the line or being written, and handshakes, which become one.
Beats ==
    Count(inbox, {"Heartbeat"}) + Count(outbox, {"Heartbeat", "Handshake"})
    + (IF phase = "setup" \/ (phase = "write" /\ reply.kind \in {"Heartbeat", "Handshake"})
         THEN 1 ELSE 0)

\* Two parties that echo each other's heartbeats do not multiply them: there is
\* never more than one on its way for every time the node was started, so the
\* line never fills up and neither side ever waits for the other to read.
HeartbeatsDoNotMultiply == Beats <= restarts + 1

\* While nothing fails there is always one on its way, whatever else the two say
\* to each other: a reset of the node, which may lose it, brings a handshake.
HeartbeatIsKept == calm => Beats > 0

\* Both: none is lost by the echo of Node::run or of the station, and none made.
HeartbeatsAreAccountedFor == HeartbeatsDoNotMultiply /\ HeartbeatIsKept

\* The probe on the line, or its answer being written, on the line or read.
Probes ==
    Count(inbox, {"Command"}) + Count(outbox, {"Ack"}) + Len(acks)
    + (IF phase = "write" /\ reply.kind = "Ack" THEN 1 ELSE 0)

\* The probe is sent once and answered at most once, also across resets, and the
\* answer is a failure: advertising "Uart" comes with no driver.
ProbeIsRefusedOnce ==
    /\ Probes <= (IF sentProbe THEN 1 ELSE 0)
    /\ \A i \in 1..Len(acks) : acks[i] = Ack(SerialProbe, FALSE)

\* Nor does it get lost while nothing fails and the node is not reset: between
\* being sent and answered it is always at one of these places.
ProbeIsKept == calm /\ restarts = 0 /\ sentProbe => Probes > 0

\* Both: the probe is in one place at most, and on a calm line in one place.
ProbeIsAccountedFor == ProbeIsRefusedOnce /\ ProbeIsKept

\* On a calm line the heartbeat goes back and forth for ever, also after a reset
\* of the node, which starts a new one with its handshake.
HeartbeatNeverStops ==
    []calm => []<>(reply = Heartbeat) /\ []<>(reply # Heartbeat)

\* On a calm line the probe is answered in the end, unless the node is reset.
ProbeIsAnswered == [](calm /\ restarts = 0) => (sentProbe ~> acks # <<>>)

=============================================================================
