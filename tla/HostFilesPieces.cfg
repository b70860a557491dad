CONSTANTS
    Root = Root
    a = a
    b = b
    c = c
    out = out
    Path <- MCPath
    Ancestors <- MCAncestors
    Outside = {out}
    Byte = {0, 1}
    Zero = 0
    Offset <- MCOffset
    Data <- MCData
SPECIFICATION HostSpec
INVARIANT AcknowledgedBytesAreKept
