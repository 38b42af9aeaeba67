SPECIFICATION SupervisorSpec
CONSTANTS
    MaxConns = 1
    MinInterval = 1
    BackoffBase = 1
    BackoffCap = 1
    Silence = 2
    Fresh = 3
    FirstFreeze = 1
    RepeatFreeze = 2
    MaxTime = 40
    Carriers = {1, 2}
    Cost <- MCCost
    BaseCooldown = 2
    MaxCooldown = 4
    MaxFailures = 2
    MonitorTick = 1
    MinPause = 1
    CapacityPause = 1
    FrozenPause = 1
    CoolingPause = 1
    Setups <- PooledSetup
    Fragile = {}
    AlwaysUp = {}
    DialTime = 1
    Horizon = 7
    RecoveryTime = 0
PROPERTY ConnectionsWithinBudget
CHECK_DEADLOCK FALSE
