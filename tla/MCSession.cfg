SPECIFICATION Spec
CONSTANTS
    Procs = {p1, p2}
    Users = {u1}
    Faults = {"redis", "db"}
    AccessTTL = 1
    GuestTTL = 2
    RefreshTTL = 3
    MaxTokens = 3
    MaxRequests = 4
    MaxTime = 2
    MaxFailed = 1
INVARIANTS LogoutSticks RotationOneShotAlone
PROPERTIES RevokedStaysRevoked
SYMMETRY ProcSymmetry
CHECK_DEADLOCK FALSE
