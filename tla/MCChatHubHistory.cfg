SPECIFICATION Spec
CONSTANTS
    Clients = {c1, c2}
    Rooms = {r1}
    Users = {u}
    Ops = {"login", "enter", "comment", "blockword", "minute", "expire", "live"}
    Faults = {"redis"}
    QueueCap = 2
    HistoryLim = 1
    RatePerMin = 1
    MaxMsgs = 2
    MaxBoots = 1
    MaxEvents = 5
INVARIANTS JoinMissesNothing
SYMMETRY ClientSymmetry
CHECK_DEADLOCK FALSE
