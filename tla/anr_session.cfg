CONSTANTS
    t1 = t1
    MaxStarts = 2
    MaxStops = 2
    MaxAnrs = 2
    Others = {t1}
    DogHosts = TRUE
    Ordered = TRUE
    ArtVisible = TRUE
    Failures = {"pthread_create", "sem_init", "sem_post", "sigaction"}
SPECIFICATION FairSpec
INVARIANTS
    TypeOK
    NoSpuriousAlert
    BufferAlive
    StoppedClean
PROPERTIES
    WatchdogEnds
    RingAnswered
    StopReturns
