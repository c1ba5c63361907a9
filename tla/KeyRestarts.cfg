CONSTANTS
    l1 = l1  l2 = l2  c1 = c1  c2 = c2  c3 = c3
    Lock = {l1}
    Call = {c1, c2}
    Token = {k1, k2, k3}
    NoToken = NoToken
    NoTask = NoTask
    Target <- OneLock
    Ops = {"unlock", "setmode", "refresh"}
    Faults = {"crash", "reload", "late", "loss", "appdelete"}
    MaxNet = 2
    MaxCopies = 2
SYMMETRY Symmetry
SPECIFICATION KeySpec
INVARIANTS KeyTypeOK AtMostOneKey TokensAgree
PROPERTIES NothingAfterUnload
