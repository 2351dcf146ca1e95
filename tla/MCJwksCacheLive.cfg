SPECIFICATION LiveSpec
CONSTANTS
    Requests = {r1}
    Keys = {k1, k2}
    Rotating = {k1}
    Tokens <- GoodTokens
    Null = Null
    MaxAge = 2
    RefreshInterval = 2
    HttpTimeout = 1
    ClockSkew = 1
    MaxLifetime = 2
    Horizon = 4
PROPERTY
    PublishedKeyReachesCache
