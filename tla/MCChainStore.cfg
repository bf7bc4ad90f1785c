SPECIFICATION FairSpec
CONSTANTS
    g = g
    a1 = a1
    b1 = b1
    d1 = d1
    b2 = b2
    a3 = a3
    m = m
    n = n
    Genesis = g
    Blocks = {g, a1, d1, a3}
    BlockParents <- MCBlockParents
    Height <- MCHeight
    Miner <- MCMiner
    Ticket <- MCTicket
    WinCount <- MCWinCount
    ParentWeight <- MCParentWeight
    Log2P = 10
    WRatioNum = 1
    WRatioDen = 2
    BlocksPerEpoch = 5
    Syncs = {1, 2}
    ReorgCap = 4
    MaxSetHeads = 0
    MaxCrashes = 1
INVARIANTS
    NoHeavierForgotten
PROPERTIES
    ImplementsFeed
    FollowersCatchUp
CHECK_DEADLOCK FALSE
