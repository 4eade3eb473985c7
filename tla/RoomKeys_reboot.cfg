SPECIFICATION Spec
CONSTANTS
    a = a
    b = b
    h1 = h1
    h2 = h2
    None = None
    Device <- Two
    Handler <- Once
    MaxSends = 1
    MaxShares = 0
    MaxLosses = 0
    MaxFaults = 0
    MaxCrashes = 1
PROPERTIES
    HistoryDecrypts
CHECK_DEADLOCK FALSE
