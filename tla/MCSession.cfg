SPECIFICATION Spec
CONSTANTS
    HeaderLen = 2
    IdLen = 1
    TagLen = 1
    MaxPlaintext = 7
    MaxRecord = 8
    MaxChunk = 4
    MaxDatagram = 4
    Targets = {2, 5, 9}
    Intervals = {0, 2}
    MaxBytes = 4
    MaxFrames = 4
    WireCap = 2
INVARIANTS NextRecordOpens RecordsFit ShapedToTarget KeysWearOut
PROPERTIES OrderedDelivery AllArrives
CHECK_DEADLOCK FALSE
