CONSTANTS
    e1 = e1
    e2 = e2
    a = a
    b = b
    far = far
    Entry = {e1}
    Host = {local, far}
    Local = local
    Config = {a}
    Nothing = Nothing
    Forms <- MCOneUser
    Faults = {}
SPECIFICATION Spec
PROPERTIES SwitchReconnects
