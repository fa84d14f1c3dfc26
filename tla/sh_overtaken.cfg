CONSTANTS
    main = main
    other = other
    t1 = t1
    t2 = t2
    SEGV = SEGV
    ABRT = ABRT
    Callers = {main}
    Faulters = {t1}
    Observed <- MCObserved
    Original <- MCOriginal
    MaxStarts = 1
    MaxStops = 1
    MaxFaults = 0
    Settled = FALSE
    Failures = {}
SPECIFICATION Spec
INVARIANT RemovedAfterShutdown
