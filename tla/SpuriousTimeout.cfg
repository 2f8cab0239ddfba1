SPECIFICATION KeepAliveSpec
CONSTANTS
    x1 = x1
    x2 = x2
    NULL = NULL
    Handles <- MCHandles
    Tls = FALSE
    MaxPending = 1
    TickMod = 20
    MsPerSec = 1
    KeepAlive = 4
    PacketIdMod = 2
    FaultKinds <- ResetOnly
    MaxFaults = 1
    LastTick = 20
INVARIANTS
    PingTimeoutIsReal
