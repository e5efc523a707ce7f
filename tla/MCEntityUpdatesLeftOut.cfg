SPECIFICATION SpecUpdates
CONSTANTS
    Backup = 4
    Byte = 4
    Entity = {1, 2, 3}
    Large = {3}
    Extended = TRUE
    MaxEntities = 2
    Distance <- NearAndFar
    World <- Sights
    Baseline <- FirstTwo
    MaxSequence = 5
INVARIANT LeftOutComesLater
CHECK_DEADLOCK FALSE
