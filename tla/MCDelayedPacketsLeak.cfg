SPECIFICATION Spec
CONSTANTS
    MaxSlot = 2
    MaxPackets = 2
    MaxDelay = 2
    MaxArrivals = 4
    MayReconnect = TRUE
INVARIANT PoolComplete
