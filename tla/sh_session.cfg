CONSTANTS
    main = main
    other = other
    t1 = t1
    t2 = t2
    SEGV = SEGV
    ABRT = ABRT
    Callers = {main, other}
    Faulters = {t1, t2}
    Observed <- MCObserved
    Original <- MCOriginal
    MaxStarts = 1
    MaxStops = 1
    MaxFaults = 3
    Settled = TRUE
    Failures = {}
SPECIFICATION FairSpec
INVARIANTS
    ChainsToOriginal
    NoRecursion
    RemovedAfterShutdown
    InstalledAfterInitialize
    StacksFreed
PROPERTIES
    GuardSpec
    InterceptorReturns
    ShutdownReturns
