SPECIFICATION Spec
CONSTANTS
    None = None
    Ip = {ip1}
    Token = {t1}
    Slot = {s1, s2}
    Ssid = {home, guest}
    Cred = {key}
    Loads <- MCLoads
    StrictLimit = 1
    WriteLimit = 2
    ReadLimit = 2
    Window = 2
    Keep = 3
    BookSize = 1
    MaxFaults = 1
    MaxRestarts = 1
SYMMETRY Symmetry
CHECK_DEADLOCK FALSE
INVARIANT
    SlidingWindow
