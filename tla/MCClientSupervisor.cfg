SPECIFICATION FairSpec
CONSTANTS
    MaxConns = 1
    MinInterval = 1
    BackoffBase = 1
    BackoffCap = 1
    Silence = 1
    Fresh = 1
    FirstFreeze = 1
    RepeatFreeze = 2
    MaxTime = 40
    Carriers = {1, 2}
    Cost <- MCCost
    BaseCooldown = 2
    MaxCooldown = 4
    MaxFailures = 2
    MonitorTick = 1
    MinPause = 1
    CapacityPause = 1
    FrozenPause = 1
    CoolingPause = 1
    Setups <- AllSetups
    Fragile = {1, 2}
    AlwaysUp = {}
    DialTime = 1
    Horizon = 10
    RecoveryTime = 0
INVARIANTS PoolTracksConn CurrentNotCooling CoolingIsEarned
PROPERTIES CooldownDeserved SilenceWithoutPool StopHonoured
CHECK_DEADLOCK FALSE
