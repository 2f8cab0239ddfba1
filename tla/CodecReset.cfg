SPECIFICATION Spec
CONSTANTS
    Radix = 3
    FlagMod = 2
    PINGRESP = 4
    Headers <- MCHeaders
    Lengths <- ShortLengths
    ChunkSize = 4
    MaxPackets = 2
    MaxResets = 1
    AnyReset = TRUE
    MaxMemFaults = 0
CHECK_DEADLOCK FALSE
INVARIANTS
    OnlySentPackets
