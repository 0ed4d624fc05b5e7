SPECIFICATION FairSpec
CONSTANTS
    u1 = u1
    u2 = u2
    KWORKER = KWORKER
    NULL = NULL
    Users = {u1, u2}
    Commands = {"sync", "invert", "poll_ms"}
    MIN_POLL_MS = 2
    MAX_POLL_MS = 3
    PollWrites <- MCTwoPollWrites
    InitialPoll = 2
    InitialInvert = 0
    MaxPresses = 1
    ReadMayFail = FALSE
    InitFaults = {}
    EarlyOpen = TRUE
    ExitCommands = {"invert"}
INVARIANTS
    NoUseAfterFree
    LedMatchesState
PROPERTY LedFollowsButton
