CONSTANTS
    main = main
    other = other
    t1 = t1
    t2 = t2
    SEGV = SEGV
    ABRT = ABRT
    Callers = {main, other}
    Faulters = {t1}
    Observed <- MCObserved
    Original <- MCOriginalIgnored
    MaxStarts = 2
    MaxStops = 1
    MaxFaults = 2
    Settled = FALSE
    Failures = {"setname", "pthread_create", "sigaction", "backtrace", "sigaltstack"}
SPECIFICATION Spec
INVARIANTS
    TypeOK
    ChainExclusive
    NoDanglingStack
CHECK_DEADLOCK FALSE
