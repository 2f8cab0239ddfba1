SPECIFICATION DisconnectSpec
CONSTANTS
    x1 = x1
    x2 = x2
    NULL = NULL
    Handles <- MCHandles
    Tls = FALSE
    MaxPending = 2
    TickMod = 4
    MsPerSec = 1
    KeepAlive = 2
    PacketIdMod = 3
    FaultKinds <- PlainFaults
    MaxFaults = 3
    LastTick = 0
SYMMETRY Symmetry
INVARIANTS
    TypeOK
    NoDanglingHandle
    OneTransportASession
    SessionIsCurrent
    OpensClean
    CallbackOnce
    DisconnectedIsClosed
