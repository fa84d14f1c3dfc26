CONSTANTS
    t1 = t1
    MaxStarts = 2
    MaxStops = 1
    MaxAnrs = 1
    Others = {}
    DogHosts = FALSE
    Ordered = TRUE
    ArtVisible = TRUE
    Failures = {}
SPECIFICATION FairSpec
PROPERTY
    RestartRings
CHECK_DEADLOCK FALSE
