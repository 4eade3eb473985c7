SPECIFICATION LinkSpec
CONSTANTS
    long = long
    huge = huge
    Event = {long, huge}
    Size <- MCSize
    MaxFrame = 2
    MaxPlain = 2
    c1 = c1
    c2 = c2
    Conn = {c1, c2}
    PinLists <- MCPinLists
    Shake = Shake
    Modes = {"tcp", "noise", "quic"}
    MaxWrites = 2
    MaxBreaks = 1
CHECK_DEADLOCK FALSE
INVARIANTS
    FramesIntact
    PinnedPeersOnly
PROPERTY
    Served
