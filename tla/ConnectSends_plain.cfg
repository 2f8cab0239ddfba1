SPECIFICATION AppSpec
CONSTANTS
    x1 = x1
    x2 = x2
    NULL = NULL
    Handles <- MCHandles
    Tls = FALSE
    MaxPending = 2
    TickMod = 4
    MsPerSec = 1
    KeepAlive = 2
    PacketIdMod = 3
    FaultKinds <- OpenOnly
    MaxFaults = 1
    LastTick = 0
PROPERTIES
    ConnectSends
