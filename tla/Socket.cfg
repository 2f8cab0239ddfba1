SPECIFICATION FairSpec
CONSTANTS
    Sizes <- MCSizes
    MaxPackets = 3
    Reactions = {"ignore", "close", "drain"}
CHECK_DEADLOCK FALSE
INVARIANTS
    SocketTypeOK
PROPERTIES
    HandsOverWholePackets
    QueueMoves
