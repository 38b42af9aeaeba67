SPECIFICATION Spec
CONSTANTS
    MaxConns = 1
    MinInterval = 1
    BackoffBase = 1
    BackoffCap = 2
    Silence = 2
    Fresh = 2
    FirstFreeze = 2
    RepeatFreeze = 3
    MaxTime = 11
INVARIANTS TypeOK BudgetExact PauseBounded
PROPERTIES Pacing SilenceKept StrikeNeedsProbe
