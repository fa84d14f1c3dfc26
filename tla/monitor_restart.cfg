CONSTANTS
    ANR_SAMPLE_CNT = 2
    Retries = 2
    MaxStarts = 2
    MaxStops = 1
    PostMayFail = FALSE
SPECIFICATION FairSpec
PROPERTY
    StartedWatches
