SPECIFICATION Spec
CONSTANTS
    alice = alice
    bob = bob
    carol = carol
    create = create
    hello = hello
    invite = invite
    join = join
    ban = ban
    reinvite = reinvite
    shun = shun
    leave = leave
    hi = hi
    walkin = walkin
    Device <- Three
    Event <- Chat
    Room <- MCRoom
    RoomOf <- MCRoomOf
    ParentsOf <- MCParentsOf
    TsOf <- MCTsOf
    KindOf <- MCKindOf
    AuthorOf <- MCAuthorOf
    ActionOf <- MCActionOf
    TargetOf <- MCTargetOf
    MaxCrashes = 0
INVARIANTS
    RegistryHasMembership
