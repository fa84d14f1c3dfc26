CONSTANTS
    crash = crash
    anr = anr
    exception = exception
    f1 = f1
    f2 = f2
    Reports = {crash}
    Names = {crash}
    NameOf <- MCNameOf
    Flushers = {f1}
    Rejected = {}
    MaxEnds = 2
    Failures = {"read", "listener"}
SPECIFICATION Spec
PROPERTY
    FinalPost
