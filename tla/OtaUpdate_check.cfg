SPECIFICATION FairSpec
CONSTANTS
    v1 = v1
    v2 = v2
    stub = stub
    Factory = factory
    None = None
    Torn = Torn
    Release <- MCRelease
    Tiny <- MCTiny
    Settings <- MCSettings
    StartBurst = 2
    MaxRequests = 3
    MaxFaults = 1
INVARIANTS
    BinaryIsWhole
PROPERTIES
    RollbackRestores
    ApplyTakesEffect
