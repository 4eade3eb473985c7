SPECIFICATION FairSpec
CONSTANTS
    create = create
    left = left
    right = right
    merge = merge
    reply = reply
    x = x
    r1 = r1
    r2 = r2
    None = None
    Event <- DiamondPlus
    Room <- MCRoom
    RoomOf <- MCRoomOf
    ParentsOf <- MCParentsOf
    TsOf <- MCTsOf
    Own <- MCOwn
    MaxFaults = 2
    MaxCrashes = 2
INVARIANTS
    CausallyComplete
    ParkedAreBlocked
    ReplayNeverRejects
    RecoveryComplete
    AckedAreServed
PROPERTIES
    ParkedUntilError
    ImplementsCausalLog
    NeverStuck
