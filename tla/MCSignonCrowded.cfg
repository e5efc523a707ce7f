SPECIFICATION SpecEach
CONSTANTS
    Items <- TwoPartLevel
    MaxLevels = 2
    Crowded = TRUE
    MaxMessage = 5
    MaxDatagram = 5
    MaxBackbuf = 2
    BlockSize = {2, 4}
    DatagramSize = {2}
    MaxWritten = 4
    MayRespawn = TRUE
INVARIANT InGameWithTheLevel
CHECK_DEADLOCK FALSE
