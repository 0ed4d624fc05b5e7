SPECIFICATION FairSpec
CONSTANTS
    FREE = FREE
    NULL = NULL
    Files = {f1, f2}
    MaxOpens = 6
    MAX_REPEAT = 4
    MAX_OUTPUT = 6
    GreetingLine = 2
    Diagnostics = 3
    RepeatCounts = {0, 1, 4, 5}
    Readers = {r1}
    Cats = {p1, p2}
    ShortCat = p1
    MAX_EVENTS = 3
    Contexts = {c1, c2}
    MaxRefs = 2
    RwFiles = {f1}
    Threads = {t1, t2}
    BUF_SIZE = 2
    Bytes = {7}
    MayFault = TRUE
    BufLen = 4
    Chars = {0, 66, 97}
    Echoers = {e1}
    MaxCount = 1
INVARIANTS
    BuffersRespected
    PositionsAccount
    OpensAccounted
    ListingInOrder
    HolesReadZero
    SetupUndone
    EchoIsTransform
PROPERTIES
    NothingClearedShown
    CatEnds
    ReadEnds
