SPECIFICATION RamSpec
CONSTANTS
    Byte <- MCByte
    MaxChunk = 2
    Capacity = 3
    Offsets <- MCOffsets
    UsizeModulus = 8
    ReceivedModulus = 4
    Announcements <- MCAnnouncements
    Crc <- MCCrc
PROPERTIES
    CompleteUploadVerifies
