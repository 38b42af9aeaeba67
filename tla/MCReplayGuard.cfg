SPECIFICATION Spec
CONSTANTS
    Tasks = {t1, t2, t3}
    Nonces = {n1, n2}
    NoJob = NoJob
    KeepEpochs = 3
    MaxLag = 0
    MaxEpoch = 2
INVARIANT UsedOnce
PROPERTY FirstUseOpens
CHECK_DEADLOCK FALSE
