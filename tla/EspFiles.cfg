CONSTANTS
    Root = Root
    a = a
    b = b
    deep = deep
    Path <- MCPath
    Ancestors <- MCAncestors
    Byte = {0, 1}
    Zero = 0
    Offset <- MCOffset
    Data <- MCData
SPECIFICATION EspSpec
INVARIANTS
    EspTypeOK
    AcknowledgedBytesAreKept
    NoStrayBytes
