CONSTANTS
    ANR_SAMPLE_CNT = 2
    Retries = 2
    MaxStarts = 2
    MaxStops = 2
    PostMayFail = TRUE
SPECIFICATION FairSpec
INVARIANTS
    TypeOK
PROPERTIES
    CancelledStops
    NoFalseAlarm
    HangReported
    DetectedSent
    StopEnds
