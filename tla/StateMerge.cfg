CONSTANTS
    RFC = RFC
    FGP = FGP
    Slot <- TwoSlots
    Owner = {o1, o2}
    None = None
    MaxMessages = 3
    MaxQueue = 2
SYMMETRY Alike
SPECIFICATION LockedSpec
INVARIANTS TypeOK SettledAgrees SettledJam
PROPERTIES NobodyElse KnownAreNamed
