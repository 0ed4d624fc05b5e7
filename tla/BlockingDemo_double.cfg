SPECIFICATION Spec
CONSTANTS
    r1 = r1
    r2 = r2
    q1 = q1
    t1 = t1
    TIMER = TIMER
    Readers = {r1}
    Pollers = {}
    Triggers = {}
    LineLen = 1
    MaxEvents = 2
    InitFaults = {}
    EarlyOpen = FALSE
INVARIANT NoDoubleDelivery
