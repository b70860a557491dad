------------------------- MODULE CapabilityRegistry -------------------------
(***************************************************************************)
(* The registry of tpt-node-core (capability.rs): the capabilities a node  *)
(* was built with, what of them the manifest advertises, and which driver  *)
(* a command is dispatched to.  Node::register_capability is modelled with *)
(* it, because it touches the registry and the node's update handler.      *)
(***************************************************************************)
EXTENDS Selections

CONSTANTS
    Capabilities,     \* the capabilities a node may register
    MaxCapabilities,  \* MAX_CAPABILITIES, of the registry and of a manifest
    CommandId,        \* command ids (u32)
    OtaIds,           \* those with 0x02 in bits 8 to 15: OtaHandler::handles
    Claims            \* the ids the driver of a capability handles

NoWire == "none"

\* Capability::to_wire.
ToWire(cap) ==
    CASE cap \in {"LittleFs", "Ota"} -> cap
      [] cap = "Ble" -> "BleProvision"
      [] cap = "Serial" -> "Uart"
      [] OTHER -> NoWire

\* Capability::into_handler: only these two come with a driver.
WithDriver == {"LittleFs", "Telemetry"}

ASSUME RegistryAssumption ==
    /\ Capabilities \subseteq {"LittleFs", "Ota", "Ble", "Serial", "Flash", "Debug",
                               "Mesh", "Probe", "Telemetry"}
    /\ MaxCapabilities \in Nat
    /\ OtaIds \subseteq CommandId
    /\ Claims \in [WithDriver -> SUBSET CommandId]

VARIABLES
    entries,  \* the registered capabilities, in order
    ota       \* the node has an update handler (Node::ota)

registryVars == <<entries, ota>>

RegistryTypeOK ==
    /\ entries \in Seq(Capabilities)
    /\ Len(entries) <= MaxCapabilities
    /\ ota \in BOOLEAN

RegistryInit ==
    /\ entries = <<>>
    /\ ota = FALSE

\* Node::register_capability: the update handler is created before the
\* registry is asked, so a full registry refuses the capability and the
\* handler stays.
RegisterCapability(cap) ==
    /\ ota' = (ota \/ cap = "Ota")
    /\ entries' = IF Len(entries) < MaxCapabilities THEN Append(entries, cap) ELSE entries

\* CapabilityRegistry::manifest: what the wire can express, in order, with
\* repetitions; it has room for as many as the registry.
Advertised == {cap \in Capabilities : ToWire(cap) # NoWire}

Manifest ==
    LET wired == Selected(entries, Advertised)
    IN  [i \in 1..Len(wired) |-> ToWire(wired[i])]

\* The entries whose driver claims an id.
Claimants(id) ==
    {i \in 1..Len(entries) : entries[i] \in WithDriver /\ id \in Claims[entries[i]]}

NoOne == 0
UpdateHandler == MaxCapabilities + 1

\* Mutant of Server: the registry is asked before the update handler.
ServerInRegistryFirst(id) ==
    IF Claimants(id) # {} THEN CHOOSE i \in Claimants(id) : \A j \in Claimants(id) : i <= j
    ELSE IF ota /\ id \in OtaIds THEN UpdateHandler
    ELSE NoOne

\* Node::dispatch_command and CapabilityRegistry::dispatch: the update handler
\* first, then the first claimant, else a failure.
Server(id) ==
    IF ota /\ id \in OtaIds THEN UpdateHandler
    ELSE IF Claimants(id) # {} THEN CHOOSE i \in Claimants(id) : \A j \in Claimants(id) : i <= j
    ELSE NoOne

=============================================================================
