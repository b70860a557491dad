----------------------------- MODULE OtaHandler -----------------------------
(***************************************************************************)
(* The over-the-air update handler of tpt-node-core (struct OtaHandler in  *)
(* ota.rs) for any FlashWriter.  The handler owns a boxed writer and only  *)
(* learns from it whether a write and a verification succeeded, so each    *)
(* operation below takes the writer's answer as a parameter; the modules   *)
(* RamOta and EspOta supply it from the two writers of the repository.     *)
(*                                                                         *)
(* `handle` is a synchronous function of one command: it runs to its       *)
(* return without interleaving, so one command is one step.                *)
(***************************************************************************)
EXTENDS Naturals

CONSTANTS
    Announcements,   \* the pairs <<size, crc>> an OTA_START can announce
    ReceivedModulus  \* 2^32: `received` is a u32 added to with +=

ASSUME HandlerAssumption ==
    /\ Announcements \subseteq Nat \X Nat
    /\ ReceivedModulus \in Nat \ {0}

VARIABLES
    state,         \* "Idle", "Receiving" or "Verifying"
    received,      \* OtaState::Receiving { received }; 0 in the other states
    expectedSize,  \* announced by the last OTA_START
    expectedCrc,   \* announced by the last OTA_START
    ack            \* the last acknowledgement returned

session == <<state, received, expectedSize, expectedCrc>>

OtaState == {"Idle", "Receiving", "Verifying"}

\* The sub-commands of 0x02xx; any other one the handler claims is "OTA_OTHER".
OtaCommand == {"OTA_START", "OTA_CHUNK", "OTA_FINISH", "OTA_OTHER"}

Ack(command, success, code) ==
    [command |-> command, success |-> success, error_code |-> code]

AckPayload == [command : OtaCommand, success : BOOLEAN, error_code : 0..4]

\* Before the first command nothing has been acknowledged.
NoAck == [command |-> "none", success |-> FALSE, error_code |-> 0]

HandlerTypeOK ==
    /\ state \in OtaState
    /\ received \in 0..(ReceivedModulus - 1)
    /\ <<expectedSize, expectedCrc>> \in Announcements \cup {<<0, 0>>}
    /\ ack \in AckPayload \cup {NoAck}

HandlerInit ==
    /\ state = "Idle"
    /\ received = 0
    /\ expectedSize = 0
    /\ expectedCrc = 0
    /\ ack = NoAck

Accept(command) == ack' = Ack(command, TRUE, 0)

\* A refused command is answered with its error code and changes nothing else.
Refuse(command, code) ==
    /\ ack' = Ack(command, FALSE, code)
    /\ UNCHANGED session

-----------------------------------------------------------------------------
(* OTA_START: accepted in every state, also in the middle of an update.    *)

OtaStart(size, crc) ==
    /\ expectedSize' = size
    /\ expectedCrc' = crc
    /\ state' = "Receiving"
    /\ received' = 0
    /\ Accept("OTA_START")

\* Fewer than the 8 argument bytes.
ShortStart == Refuse("OTA_START", 1)

(* OTA_CHUNK: the state is looked at before the arguments are parsed.      *)

ChunkOutsideSession ==
    /\ state # "Receiving"
    /\ Refuse("OTA_CHUNK", 2)

\* Fewer than the 4 bytes of the offset.
ShortChunk ==
    /\ state = "Receiving"
    /\ Refuse("OTA_CHUNK", 1)

ChunkRefusedByWriter ==
    /\ state = "Receiving"
    /\ Refuse("OTA_CHUNK", 3)

\* Mutant of ChunkWritten: the chunk that completes the announced size ends the
\* session.
ChunkWrittenAndClosed(length) ==
    /\ state = "Receiving"
    /\ received' = (received + length) % ReceivedModulus
    /\ state' = IF received' = expectedSize THEN "Idle" ELSE state
    /\ Accept("OTA_CHUNK")
    /\ UNCHANGED <<expectedSize, expectedCrc>>

ChunkWritten(length) ==
    /\ state = "Receiving"
    /\ received' = (received + length) % ReceivedModulus
    /\ Accept("OTA_CHUNK")
    /\ UNCHANGED <<state, expectedSize, expectedCrc>>

(* OTA_FINISH: Verifying is left again before the handler returns.  After  *)
(* a match the announced size and CRC stay; a mismatch resets them.        *)

FinishOutsideSession ==
    /\ state # "Receiving"
    /\ Refuse("OTA_FINISH", 2)

FinishVerified ==
    /\ state = "Receiving"
    /\ state' = "Idle"
    /\ received' = 0
    /\ Accept("OTA_FINISH")
    /\ UNCHANGED <<expectedSize, expectedCrc>>

FinishMismatch ==
    /\ state = "Receiving"
    /\ state' = "Idle"
    /\ received' = 0
    /\ expectedSize' = 0
    /\ expectedCrc' = 0
    /\ ack' = Ack("OTA_FINISH", FALSE, 4)

\* An id of the 0x02xx range that is none of the three.
UnknownOta == Refuse("OTA_OTHER", 0)

\* The commands that reach no writer.
RefusedByHandler ==
    \/ ShortStart
    \/ ChunkOutsideSession
    \/ ShortChunk
    \/ FinishOutsideSession
    \/ UnknownOta

=============================================================================
