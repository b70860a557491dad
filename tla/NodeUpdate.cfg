SPECIFICATION FairUpdateSpec
CONSTANTS
    Byte = {0, 1}
    MaxChunk = 2
    Capacity = 3
    Offsets <- MCOffsets
    UsizeModulus = 8
    ReceivedModulus = 8
    Announcements <- MCAnnouncements
    Crc <- MCCrc
    Images <- MCImages
    Builds <- MCBuilds
    MaxCapabilities = 4
    MaxFailures = 3
INVARIANTS
    HostKnowsTheBuffer
    RefusedOnlyForCause
    NeverBothWait
    CommandFindsItsSession
PROPERTIES
    UploadEnds
    ImplementsHostUpload
