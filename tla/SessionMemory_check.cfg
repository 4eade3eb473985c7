SPECIFICATION MCSpec
CONSTANTS
    mine = mine
    drawn = drawn
    None = None
    Code <- MCCode
    Chosen <- MCChosen
    Cap = 2
    Ttl = 4
    PairTtl = 2
    Strikes = 2
    LockTime = 2
    MaxTime = 5
    MaxTokens = 3
    MaxTries = 4
    MaxFaults = 1
    MaxCrashes = 1
    send = send
    ingest = ingest
    sync = sync
    tab = tab
    poll = poll
    Writer <- MCWriter
    Silent <- SyncPeer
    Stream <- MCStream
    Waiter <- MCWaiter
    Capacity = 2
    MaxMessages = 4
    MaxOthers = 2
INVARIANTS
    OwnershipIsSaved
    LockoutHolds
    PairOnce
    StreamIsCurrent
PROPERTIES
    ClaimIsFinal
    SessionsLast
    StreamCatchesUp
    WaitAnswers
