SPECIFICATION FairSpec
CONSTANTS
    SoftirqCPUs = {c1, c2}
    TaskCPUs = {c1, c2}
    TIMER = TIMER
    WORK = WORK
    Showers = {s1}
    TickModulus = 3
PROPERTY HeartbeatsGoOn
\* A softirq that waits for the task it has interrupted waits for ever.
CHECK_DEADLOCK FALSE
