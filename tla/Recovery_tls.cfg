SPECIFICATION FairAppSpec
CONSTANTS
    x1 = x1
    x2 = x2
    NULL = NULL
    Handles <- MCHandles
    Tls = TRUE
    MaxPending = 2
    TickMod = 4
    MsPerSec = 1
    KeepAlive = 2
    PacketIdMod = 3
    FaultKinds <- NoticedTlsFaults
    MaxFaults = 2
    LastTick = 2
PROPERTIES
    Recovers
