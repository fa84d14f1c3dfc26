CONSTANTS
    crash = crash
    anr = anr
    exception = exception
    f1 = f1
    f2 = f2
    Reports = {crash, anr}
    Names = {crash, anr}
    NameOf <- MCNameOf
    Flushers = {f1, f2}
    Rejected = {anr}
    MaxEnds = 2
    Failures = {"open", "read", "delete"}
SPECIFICATION FairSpec
INVARIANT
    TypeOK
PROPERTIES
    MailboxSpec
    NoDoublePost
    ReportDelivered
