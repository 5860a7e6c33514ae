SPECIFICATION FairSpec
CONSTANTS
    Tokens = {t1, t2}
    Requests = {r1, r2}
    TTL = 2
    PoolSize = 1
    MaxClock = 3
INVARIANTS
    TypeOK
    AtMostOnce
    RefusedOnlyIfBeaten
PROPERTIES
    ImplementsOneTime
    EveryRequestEnds
