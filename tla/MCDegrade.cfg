SPECIFICATION FairSpec
CONSTANTS
    Callers = {c1, c2}
    Watchers = {w1, w2}
    ChanCap = 1
    MaxCalls = 2
INVARIANTS WiredAtMostOneNotifier
PROPERTIES OnlyRecoveryLowers ConsumersSeeMostRecentMode GaugeConverges
CHECK_DEADLOCK FALSE
