SPECIFICATION Spec
SYMMETRY Symmetry
CONSTANTS
    Requests = {r1, r2}
    Keys = {k1, k2}
    Rotating = {k1}
    Tokens <- AllTokens
    Null = Null
    MaxAge = 2
    RefreshInterval = 1
    HttpTimeout = 1
    ClockSkew = 1
    MaxLifetime = 2
    Horizon = 4
PROPERTIES
    AcceptedKeyRecentlyPublished
    AcceptedTokenLive
    CacheNeverRegresses
    RefusalExplained
