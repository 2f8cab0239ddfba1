SPECIFICATION AppSpec
CONSTANTS
    x1 = x1
    x2 = x2
    NULL = NULL
    Handles <- MCHandles
    Tls = TRUE
    MaxPending = 2
    TickMod = 4
    MsPerSec = 1
    KeepAlive = 2
    PacketIdMod = 3
    FaultKinds <- TlsFaults
    MaxFaults = 3
    LastTick = 0
INVARIANTS
    NoDanglingHandle
    OneTransport
    SessionIsCurrent
    OpensClean
    ConnectedHasTransport
PROPERTIES
    ConnectSends
    ConnectIsFirst
