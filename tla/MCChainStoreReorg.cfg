SPECIFICATION Spec
CONSTANTS
    g = g
    a1 = a1
    b1 = b1
    d1 = d1
    b2 = b2
    a3 = a3
    m = m
    n = n
    Genesis = g
    Blocks = {g, a1, b1, b2, a3}
    BlockParents <- MCBlockParents
    Height <- MCHeight
    Miner <- MCMiner
    Ticket <- MCTicket
    WinCount <- MCWinCount
    ParentWeight <- MCParentWeight
    Log2P = 10
    WRatioNum = 1
    WRatioDen = 2
    BlocksPerEpoch = 5
    Syncs = {1}
    ReorgCap = 1
    MaxSetHeads = 1
    MaxCrashes = 0
INVARIANTS
    ReorgPath
PROPERTIES
    ImplementsFeed
CHECK_DEADLOCK FALSE
