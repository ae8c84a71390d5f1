SPECIFICATION FairLoginSpec
CONSTANTS
    Logins = {p1, p2}
    Limits <- Tightening
    MaxFails = 3
    MaxFailCount = 4
    Faults = {"redis", "db"}
INVARIANTS RateOvershoot LockFollows FailCounterExpires
PROPERTIES LockEventually
CHECK_DEADLOCK FALSE
