SPECIFICATION Spec
SYMMETRY Symmetry
CONSTANTS
    Users = {u1, u2}
    Emails = {e1}
    Requests = {r1, r2}
    Kinds = {"create", "get", "update", "delete"}
    Null = Null
    Ttl = 2
    RequestTimeout = 1
    RedisDelay = 1
    Horizon = 5
PROPERTIES
    NoLostUpdate
