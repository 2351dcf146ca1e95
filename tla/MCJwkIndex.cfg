SPECIFICATION Spec
CONSTANTS
    k1 = k1
    k2 = k2
    Null = Null
    Kids = {k1, k2}
    Jwks <- SomeJwks
    Configurable = {"RS256", "PS256", "ES256", "HS256"}
    MaxKeys = 3
INVARIANTS
    IndexIsFirstMatch
    VerdictIsOrderFree
