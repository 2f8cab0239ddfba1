SPECIFICATION Spec
CONSTANTS
    Radix = 3
    FlagMod = 2
    PINGRESP = 4
    Headers <- MCHeaders
    Lengths <- MCLengths
    ChunkSize = 4
    MaxPackets = 2
    MaxResets = 1
    AnyReset = FALSE
    MaxMemFaults = 1
CHECK_DEADLOCK FALSE
INVARIANTS
    CodecTypeOK
    BoundaryIsClean
    DigitsFit
PROPERTIES
    KeepsOrder
    DeliversPackets
