SPECIFICATION Spec
CONSTANTS
    Reqs = {r1, r2}
    Methods = {"match_byDate", "live_detail", "room_detail"}
    ReqLevels = {1}
    ReqModes = {0}
    MaxVer = 1
INVARIANTS SharedKeysAgree NoRedirectWithoutErrors InvalidationSticksInL2
SYMMETRY ReqSymmetry
