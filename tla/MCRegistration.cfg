SPECIFICATION Spec
CONSTANTS
    Procs = {p1, p2}
    Phones = {a}
    Faults = {"redis", "db", "context"}
    Permits = 2
    Floor = 1
    HourLimit = 1
    MaxRequests = 4
    MaxCodes = 1
    MaxUid = 3
    MaxBoots = 1
INVARIANTS OkAnswersAgree  SmsOneShot
SYMMETRY ProcSymmetry
CHECK_DEADLOCK FALSE
