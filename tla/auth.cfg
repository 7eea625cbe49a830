SPECIFICATION Spec
CONSTANTS
    Tasks = {t1, t2}
    IPs = {i1}
    Burst = 1
    EveryAuth = 2
    EveryUnlock = 1
    IdleEntry = 2
    SessionIds = {s1}
    SessionIdle = 1
    SessionMaxAge = 2
    Names = {n1}
    MaxTokens = 2
    NoCookie = NoCookie
    NoRow = NoRow
INVARIANTS
    TypeOK
    RefilledWhileIdle
PROPERTIES
    LimitersKeepTheirPromise
    SessionsEnd
    StaleIdsHarmless
