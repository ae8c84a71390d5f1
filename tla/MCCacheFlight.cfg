SPECIFICATION FairSpec
CONSTANTS
    Reqs = {r1, r2}
    Methods = {"live_types"}
    ReqLevels = {1, 3}
    ReqModes = {0, 3}
    MaxVer = 0
INVARIANTS SingleFlight
PROPERTIES EveryRequestAnswered
