CONSTANTS
    main = main
    other = other
    dir = dir
    nowhere = nowhere
    Null = Null
    Threads = {main, other}
    Contexts <- MCContexts
    Default <- MCDefault
    Classpaths <- MCClasspaths
    LoadFails = TRUE
    Failures = {"sigaltstack", "pthread_create", "sigaction"}
    Limit <- MCLimit
SPECIFICATION Spec
SYMMETRY MCSymmetry
INVARIANTS
    TypeOK
    ReportHome
    StopRestores
    OneDefault
