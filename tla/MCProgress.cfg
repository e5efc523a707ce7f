SPECIFICATION SpecEach
CONSTANTS
    Msg = {m1}
    MaxSlot = 2
    Address <- Remapped
    Vip <- NoVip
    MaxPlayers = 2
    MaxSpectators = 0
    MaxVips = 0
    MaxUserId = 3
    ZombieTime = 1
    Timeout = 1
    ReconnectLimit = 1
    JoinWait = 0
INVARIANT OneSlotPerClient
PROPERTIES EverythingArrives ZombiesEnd PauseEndsWithoutPlayers LoginsEnd
CHECK_DEADLOCK FALSE
