SPECIFICATION FairSpec
CONSTANTS
    g = g
    a1 = a1
    b1 = b1
    d1 = d1
    b2 = b2
    a3 = a3
    m = m
    n = n
    Genesis = g
    Blocks = {g, a1, b1, a3}
    BlockParents <- MCBlockParents
    Height <- MCHeight
    Miner <- MCMiner
    Ticket <- MCTicket
    WinCount <- MCWinCount
    ParentWeight <- MCParentWeight
    Log2P = 10
    WRatioNum = 1
    WRatioDen = 2
    BlocksPerEpoch = 5
    Syncs = {1, 2}
    ReorgCap = 1
    MaxSetHeads = 0
    MaxCrashes = 0
PROPERTIES
    HeavierBecomesHead
CHECK_DEADLOCK FALSE
