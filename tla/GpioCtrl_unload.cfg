SPECIFICATION Spec
CONSTANTS
    u1 = u1
    KWORKER = KWORKER
    NULL = NULL
    Users = {u1}
    Commands = {"poll_ms"}
    MIN_POLL_MS = 2
    MAX_POLL_MS = 3
    PollWrites <- MCPollWrites
    InitialPoll = 2
    InitialInvert = 0
    MaxPresses = 1
    ReadMayFail = FALSE
    InitFaults = {}
    EarlyOpen = FALSE
    ExitCommands = {"poll_ms"}
INVARIANT NoUseAfterFree
