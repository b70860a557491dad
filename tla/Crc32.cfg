SPECIFICATION CrcSpec
CONSTANTS
    Byte <- MCByte
    MaxChunk = 2
    MaxFed = 3
INVARIANTS
    DigestIsChecksum
    CorruptionIsDetected
    KnownDigests
