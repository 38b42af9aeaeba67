SPECIFICATION FairSpec
CONSTANTS
    MaxConns = 1
    MinInterval = 1
    BackoffBase = 1
    BackoffCap = 1
    Silence = 1
    Fresh = 1
    FirstFreeze = 1
    RepeatFreeze = 1
    MaxTime = 40
    Carriers = {1, 2}
    Cost <- MCCost
    BaseCooldown = 2
    MaxCooldown = 4
    MaxFailures = 1
    MonitorTick = 1
    MinPause = 1
    CapacityPause = 1
    FrozenPause = 1
    CoolingPause = 1
    Setups <- PooledSetup
    Fragile = {}
    AlwaysUp = {1}
    DialTime = 0
    Horizon = 15
    RecoveryTime = 4
PROPERTY Recovers
CHECK_DEADLOCK FALSE
