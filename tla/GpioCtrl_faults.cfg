SPECIFICATION Spec
CONSTANTS
    u1 = u1
    KWORKER = KWORKER
    NULL = NULL
    Users = {u1}
    Commands = {"reset_stats", "poll_ms", "show", "read"}
    MIN_POLL_MS = 2
    MAX_POLL_MS = 3
    PollWrites <- MCPollWrites
    InitialPoll = 2
    InitialInvert = 0
    MaxPresses = 2
    ReadMayFail = TRUE
    InitFaults = {"find", "gpio", "misc", "sysfs"}
    EarlyOpen = FALSE
    ExitCommands = {"show"}
INVARIANTS
    NothingLeftBehind
    PollingAlive
