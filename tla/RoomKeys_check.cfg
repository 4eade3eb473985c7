SPECIFICATION Spec
CONSTANTS
    a = a
    b = b
    h1 = h1
    h2 = h2
    None = None
    Device <- Two
    Handler <- Twice
    MaxSends = 2
    MaxShares = 1
    MaxLosses = 1
    MaxFaults = 1
    MaxCrashes = 1
SYMMETRY Symmetry
INVARIANTS
    OwnIsReadable
    FanoutIsReadable
PROPERTIES
    RatchetAdvances
    TimestampsAdvance
CHECK_DEADLOCK FALSE
