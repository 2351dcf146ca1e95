SPECIFICATION HSpec
CONSTANTS
    Users = {u1}
    Emails = {e1}
    Requests = {r1}
    Kinds = {"create", "get", "list", "update", "delete"}
    Null = Null
    Ttl = 2
    RequestTimeout = 1
    RedisDelay = 1
    Horizon = 5
    Addresses = {c1, c2, p1, p2}
    Trusted = {p1, p2}
    Unreadable = Unreadable
    Opaque = Opaque
    MaxForged = 2
    MaxHops = 2
    MaxPerPage = 3
    MaxTotal = 5
    MaxLeak = 1
INVARIANTS
    GaugeIsActive
