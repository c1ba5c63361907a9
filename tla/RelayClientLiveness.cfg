CONSTANTS
    l1 = l1  l2 = l2  c1 = c1  c2 = c2  c3 = c3
    Lock = {l1}
    Call = {c1, c2}
    Token = {k1, k2}
    NoToken = NoToken
    Target <- OneLock
    Ops = {"unlock", "reset", "cancel"}
SPECIFICATION Spec
PROPERTIES TasksEnd SelfHeals
