SPECIFICATION Spec
CONSTANTS
    g = g a1 = a1 a2 = a2 b2 = b2 ab2 = ab2 a3 = a3 n4 = n4 x3 = x3 x4 = x4 x5 = x5
    i3 = i3 j4 = j4 j5 = j5 j6 = j6 u3 = u3 f2 = f2 c2 = c2 bc2 = bc2 m4 = m4
    NoTs = NoTs
    TipSets <- MCTipSets
    Parent <- MCParent
    Height <- MCHeight
    Weight <- MCWeight
    Blocks <- MCBlocks
    Miner <- MCMiner
    Genesis = g
    Invalid = {"i3", "u3", "w4"}
    Unsorted = {"u3"}
    Mixed = {m4}
    Callers = {"c1", "c2"}
    ForkLengthThreshold = 2
    Window = 2
    Announcements <- MCAnnouncements
    MaxFaults = 1
INVARIANTS
    ChainValidated
    BadSound
    ForkRefused
    SyncedOrHeavier
PROPERTIES
    SyncEnds
CHECK_DEADLOCK FALSE
