CONSTANTS
    p1 = p1
    p2 = p2
    Run = {p1, p2}
    Asks <- OneDeletes
    Account = {a1, a2}
    Imei = {i1, i2, i3}
    Slot <- TwoTypes
    Token = {t1, t2}
    MaxNet = 1
    Nothing = Nothing
SYMMETRY Symmetry
SPECIFICATION Spec
INVARIANTS TypeOK OneImei RightKey ConfirmedGone
