SPECIFICATION SpecEach
CONSTANTS
    Items <- TwoPartLevel
    MaxLevels = 4
    Crowded = FALSE
    MaxMessage = 5
    MaxDatagram = 5
    MaxBackbuf = 2
    BlockSize = {2, 4}
    DatagramSize = {2}
    MaxWritten = 4
    MayRespawn = TRUE
INVARIANTS InGameWithTheLevel NoHoleBeforeDisconnect ChangesAreTold
PROPERTIES EntersTheGame OverflowedIsDisconnected
CHECK_DEADLOCK FALSE
