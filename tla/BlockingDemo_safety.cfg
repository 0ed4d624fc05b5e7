SPECIFICATION Spec
CONSTANTS
    r1 = r1
    r2 = r2
    q1 = q1
    t1 = t1
    TIMER = TIMER
    Readers = {r1, r2}
    Pollers = {q1}
    Triggers = {t1}
    LineLen = 1
    MaxEvents = 2
    InitFaults = {"misc"}
    EarlyOpen = TRUE
SYMMETRY ActorSymmetry
INVARIANTS
    WaiterCountExact
    NoLostWakeup
