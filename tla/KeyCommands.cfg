CONSTANTS
    l1 = l1  l2 = l2  c1 = c1  c2 = c2  c3 = c3
    Lock = {l1}
    Call = {c1, c2}
    Token = {k1, k2}
    NoToken = NoToken
    NoTask = NoTask
    Target <- OneLock
    Ops = {"unlock", "refresh", "cancel"}
    Faults = {"crash", "lag", "restfail", "hasty", "late"}
    MaxNet = 2
    MaxCopies = 2
SYMMETRY Symmetry
SPECIFICATION KeySpec
INVARIANTS CommandFindsKey
