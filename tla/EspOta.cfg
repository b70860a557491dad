SPECIFICATION EspSpec
CONSTANTS
    Bits = {b0}
    Byte <- MCByte
    MaxChunk = 2
    FlashSize = 8
    Base = 2
    RegionLen = 4
    Word = 2
    ReadSize = 1
    Window = 4
    Strict = FALSE
    Faults = TRUE
    InitialFlash <- MCInitialFlash
    Offsets <- MCOffsets
    MaxFed = 4
    ReceivedModulus = 1
    Announcements <- MCAnnouncements
    Crc <- MCCrc
INVARIANTS
    EspTypeOK
    CleanUploadInFlash
    ContinuationNeverConflicts
PROPERTIES
    OtherPartitionsUntouched
    VerdictIsAboutFlash
    ImplementsUpload
