SPECIFICATION FairSpec
CONSTANTS
    b = b
    p1 = p1
    p2 = p2
    timer = timer
    manual = manual
    create = create
    m1 = m1
    m2 = m2
    None = None
    Recipient <- One
    Pusher <- TwoPushes
    Poller <- TwoPolls
    Timer = timer
    LinkedFirst <- Nobody
    Seal <- AnySeal
    Event <- Chain2
    Room <- MCRoom
    RoomOf <- MCRoomOf
    ParentsOf <- MCParentsOf
    TsOf <- MCTsOf
    Known <- MCKnown
    Batch = 2
    RateMax = 1
    FetchMax = 1
    MaxFaults = 2
    MaxCrashes = 1
INVARIANTS
    PushedIsOnTheWay
PROPERTIES
    DroppedIsHeld
    Delivered
