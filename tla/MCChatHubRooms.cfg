SPECIFICATION FairSpec
CONSTANTS
    Clients = {c1, c2}
    Rooms = {r1}
    Users = {u}
    Ops = {"login", "guest", "heart", "resume", "logout", "enter", "leave", "like", "disconnect"}
    Faults = {"db"}
    QueueCap = 1
    HistoryLim = 1
    RatePerMin = 1
    MaxMsgs = 0
    MaxBoots = 0
    MaxEvents = 4
INVARIANTS MembershipAgrees GoneIsNowhere OnlySlowAreDropped
PROPERTIES ClosedGoesAway
CHECK_DEADLOCK FALSE
