SPECIFICATION Spec
CONSTANTS
    ReplayWidth = 3
    MaxCounter = 6
INVARIANT TypeOK
PROPERTIES PromiseKept InWindowAccepted
CHECK_DEADLOCK FALSE
