SPECIFICATION FairNodeSpec
CONSTANTS
    Capabilities = {"LittleFs", "Ota", "Telemetry"}
    MaxCapabilities = 2
    MaxFrames = 3
    CommandId <- MCCommandId
    OtaIds <- MCOtaIds
    Claims <- MCClaims
INVARIANTS
    RepliesInOrder
    RequestsAreKept
    RoutingIsStable
PROPERTIES
    EveryRequestAnswered
