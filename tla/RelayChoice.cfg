CONSTANTS
    e1 = e1
    e2 = e2
    a = a
    b = b
    far = far
    Entry = {e1, e2}
    Host = {local, far}
    Local = local
    Config = {a, b}
    Nothing = Nothing
    Forms <- MCForms
    Faults = {"setup"}
SPECIFICATION Spec
INVARIANTS TypeOK TargetIsChosen InForceOrWarned NoUseLeaks
PROPERTIES PortsAreFreed
