SPECIFICATION SpecEach
CONSTANTS
    MaxSlot = 2
    MaxPackets = 2
    MaxDelay = 2
    MaxArrivals = 4
    MayReconnect = TRUE
    File = {d1}
    Stream = {d2}
    MaxCache = 3
    MaxSize = 0
    MaxFrame = 2
    Backup = 2
    Lag = 0
    Byte = 2
    MaxBlocks = 4
    MaxLevels = 2
    Sock = {s1, s2}
    Request <- Requests
    UserId = {1, 2}
    NoName = "none"
    Name = {"none", "q"}
    MaxStreams = 1
    Extra = 1
    MaxUsers = 0
    Password = TRUE
    PendingTimeout = 2
    MaxSent = 1
    Lengths <- FromProxy
    Replies <- ToProxy
    MaxPacket = 4
    InSize = 4
    OutSize = 5
INVARIANTS
    ExecutedInOrder PoolConserved
    NothingMissing ResynchronisedInTime OneOwner FramesWhole
PROPERTIES
    HeldBackIsExecuted
    HandshakesEnd
CHECK_DEADLOCK FALSE
