CONSTANTS
    main = main
    other = other
    dir = dir
    nowhere = nowhere
    Null = Null
    Threads = {main}
    Contexts <- MCWhole
    Default <- MCDefault
    Classpaths <- MCComplete
    LoadFails = FALSE
    Failures = {}
    Limit <- MCLimit
SPECIFICATION Spec
INVARIANT ExceptionReported
