SPECIFICATION SpecEach
CONSTANTS
    Parts = {"slots"}
    MaxSlot = 2
    Address <- TwoPeers
    Vip <- NoVip
    MaxPlayers = 1
    MaxSpectators = 1
    MaxVips = 0
    MaxUserId = 3
    ZombieTime = 1
    Timeout = 1
    ReconnectLimit = 0
    JoinWait = 1
PROPERTY ZombieStaysDropped
