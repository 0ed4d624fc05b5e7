SPECIFICATION FairSpec
CONSTANTS
    r1 = r1
    r2 = r2
    q1 = q1
    t1 = t1
    TIMER = TIMER
    Readers = {r1, r2}
    Pollers = {}
    Triggers = {t1}
    LineLen = 1
    MaxEvents = 2
    InitFaults = {"misc", "sysfs"}
    EarlyOpen = FALSE
INVARIANT UnloadQuiescent
PROPERTY WaitersAreServed
