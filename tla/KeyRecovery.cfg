CONSTANTS
    l1 = l1  l2 = l2  c1 = c1  c2 = c2  c3 = c3
    Lock = {l1}
    Call = {c1}
    Token = {k1, k2, k3}
    NoToken = NoToken
    NoTask = NoTask
    Target <- OneLock
    Ops = {"reset"}
    Faults = {"restfail", "hasty", "late"}
    MaxNet = 2
    MaxCopies = 2
SPECIFICATION KeyLiveSpec
PROPERTIES KeyRecovers
