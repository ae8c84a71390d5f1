SPECIFICATION Spec
CONSTANTS
    Procs = {p1, p2}
    Rules <- Mixed
    Events = {"acquireFails", "expireFails", "releaseFails", "keyExpires"}
    MaxCount = 3
INVARIANTS CountExact NoNegativeDrift LeakExpires WindowOvershoot
SYMMETRY ProcSymmetry
CHECK_DEADLOCK FALSE
