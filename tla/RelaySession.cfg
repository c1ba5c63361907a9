CONSTANTS
    Lock = {l1, l2}
    Grace = 2
    MaxQueue = 2
    Features = {"sessions", "retain"}
SYMMETRY Symmetry
SPECIFICATION Spec
INVARIANTS TypeOK KeepsAvailable GoesUnavailable SettledAgrees
