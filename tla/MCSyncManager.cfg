SPECIFICATION FairSpec
CONSTANTS
    g = g
    a = a
    b1 = b1
    b2 = b2
    c = c
    NoTs = NoTs
    TipSets <- MCTipSets
    Parent <- MCParent
    Height <- MCHeight
    Weight <- MCWeight
    Peers = {p1, p2}
    Workers = {w1, w2}
    BspThresh = 2
    MaxCalls = 4
INVARIANTS
    SchedulerConsistent
PROPERTIES
    EventuallyWorkedOff
    SetPeerHeadReturns
CHECK_DEADLOCK FALSE
