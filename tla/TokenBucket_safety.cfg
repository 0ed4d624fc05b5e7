SPECIFICATION FairSpec
CONSTANTS
    w1 = w1
    w2 = w2
    Writers = {w1, w2}
    INT_MAX = 7
    CapWrites <- MCCapWrites
    RateWrites <- MCRateWrites
    DefaultCapacity = 2
    DefaultRate = 1
    MaxWrites = 3
    ParamsDuringInit = FALSE
INVARIANTS
    TypeOK
    TokensInBucket
    RateBound
    UnloadQuiescent
PROPERTIES
    ImplementsLimiter
    EventuallyRefilled
