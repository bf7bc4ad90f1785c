SPECIFICATION Spec
CONSTANTS
    ak = ak
    bk = bk
    xa = xa
    NoActor = NoActor
    Deleted = Deleted
    IDs = {0, 1, 2, 3, 4, 5, 6, 7, 8, 9, 10}
    InitID = 0
    RewardID = 1
    BurntID = 2
    SystemID = 3
    CronID = 4
    Singletons = {0, 1, 2, 3, 4}
    Keys = {ak, bk}
    ActorAddr <- MCActorAddr
    Calls <- MCCalls
    MaxDepth = 3
    MaxNew = 2
    Genesis <- MCGenesis
    Tipsets <- MCTipsets
INVARIANTS
    Conserved
    AddressesRight
    RanOnce
PROPERTIES
    CallsAtomic
CHECK_DEADLOCK FALSE
