SPECIFICATION KeepAliveSpec
CONSTANTS
    x1 = x1
    x2 = x2
    NULL = NULL
    Handles <- MCHandles
    Tls = FALSE
    MaxPending = 1
    TickMod = 12
    MsPerSec = 1
    KeepAlive = 3
    PacketIdMod = 2
    FaultKinds <- SocketTakesAll
    MaxFaults = 2
    LastTick = 12
INVARIANTS
    TypeOK
    PingTimeoutIsReal
    SilenceNoticed
