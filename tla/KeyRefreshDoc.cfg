CONSTANTS
    l1 = l1  l2 = l2  c1 = c1  c2 = c2  c3 = c3
    Lock = {l1}
    Call = {c1}
    Token = {k1, k2}
    NoToken = NoToken
    NoTask = NoTask
    Target <- OneLock
    Ops = {"unlock", "refresh"}
    Faults = {"appdelete"}
    MaxNet = 2
    MaxCopies = 2
SYMMETRY Symmetry
SPECIFICATION KeySpec
PROPERTIES RefreshReRegisters
