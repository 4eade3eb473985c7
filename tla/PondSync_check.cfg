SPECIFICATION FairSpec
CONSTANTS
    a = a
    b = b
    c = c
    create = create
    left = left
    right = right
    merge = merge
    None = None
    Device <- Three
    PeersOf <- Star
    AuthorOf <- StarAuthor
    Event <- Merged
    Room <- MCRoom
    RoomOf <- MCRoomOf
    ParentsOf <- MCParentsOf
    TsOf <- MCTsOf
    Known <- MCKnown
    MaxDrops = 1
    MaxCrashes = 1
INVARIANTS
    SyncExchanges
    FanoutReaches
PROPERTIES
    BatchesAreComplete
    Converges
