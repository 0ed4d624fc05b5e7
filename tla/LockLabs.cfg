SPECIFICATION Spec
CONSTANTS
    FREE = FREE
    NULL = NULL
    Writers = {w1, w2}
    Readers = {r1}
    Resetters = {s1}
    Counts = {1, 3}
    MAX_INCREMENTS_PER_WRITE = 2
    MaxWrites = 2
    MaxResets = 2
    MaxSwitches = 2
    Addresses = {a1, a2}
    Sizes = {0, 1, 4}
    Slack = 1
    CACHE_OBJ_SIZE = 2
    KMALLOC_MAX_SIZE = 3
    Users = {u1, u2}
    MODULE_TASK = MODULE_TASK
    MaxAllocs = 3
    U32 = 3
    MaxIncrements = 4
INVARIANTS
    IncrementsAccounted
    SlotOwnsHeap
    InfoOfOneMoment
    NothingLeft
