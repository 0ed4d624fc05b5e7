SPECIFICATION FairSpec
CONSTANTS
    t1 = t1
    t2 = t2
    c1 = c1
    c2 = c2
    r1 = r1
    r2 = r2
    NULL = NULL
    MODULE_TASK = MODULE_TASK
    RING_SIZE = 2
    SnapshotLines = 2
    Threads = {t1, t2}
    Controllers = {c1, c2}
    Readers = {r1}
    MaxSeq = 4
    KthreadMayFail = TRUE
    EarlyUse = FALSE
    ExitControl = FALSE
INVARIANTS
    RingHoldsLatest
    EveryItemAccounted
    OneProducer
    NoThreadAfterUnload
    ReadReturnsDrained
PROPERTIES
    ImplementsQueue
    StopReturns
