SPECIFICATION SpecEach
CONSTANTS
    Parts = {"slots", "login"}
    MaxSlot = 3
    Address <- TwoPeers
    Vip <- OneVip
    MaxPlayers = 1
    MaxSpectators = 1
    MaxVips = 1
    MaxUserId = 4
    ZombieTime = 0
    Timeout = 0
    ReconnectLimit = 0
    JoinWait = 0
INVARIANTS UserIdsUnique WithinLimits GameKnowsItsPlayers CountsItsClients
