SPECIFICATION ServerSpec
CONSTANTS
    Tasks = {c, x}
    Honest = {c}
    Nonces = {1, 2, 3}
    NoJob = NoJob
    KeepEpochs = 3
    MaxLag = 0
    MaxEpoch = 2
    MaxTraffic = 3
INVARIANTS OneSessionPerToken HonestNotRefused
PROPERTY ClientsSettle
CHECK_DEADLOCK FALSE
