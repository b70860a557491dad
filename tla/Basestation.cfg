SPECIFICATION FairLineSpec
CONSTANTS
    Capabilities = {"Ota", "Serial"}
    MaxCapabilities = 2
    SerialProbe = "serial"
    MaxRestarts = 2
    CommandId <- MCCommandId
    OtaIds <- MCOtaIds
    Claims <- MCClaims
CHECK_DEADLOCK FALSE
INVARIANTS
    HeartbeatsAreAccountedFor
    ProbeIsAccountedFor
PROPERTIES
    HeartbeatNeverStops
    ProbeIsAnswered
