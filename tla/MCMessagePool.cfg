SPECIFICATION FairSpec
CONSTANTS
    s = s
    b = b
    s0 = s0
    r0 = r0
    s1 = s1
    b0 = b0
    g = g
    p = p
    q = q
    f = f
    NoTs = NoTs
    Addrs <- MCAddrs
    Messages <- MCMessages
    From <- MCFrom
    Nonce <- MCNonce
    GasPrice <- MCGasPrice
    RequiredFunds <- MCRequiredFunds
    TipSets <- MCTipSets
    Parent <- MCParent
    TsMsgs <- MCTsMsgs
    BaseNonce <- MCBaseNonce
    Balance <- MCBalance
    Repeated = {b0}
    Bls = {b0}
    Valid = {s0, s1, b0}
    Network = {s0, r0, s1, b0}
    Clients = {}
    SizeHi = 2
    SizeLo = 1
    MaxHeads = 2
    MaxCrashes = 1
    MaxPrunes = 1
INVARIANTS
    PoolConsistent
    PruneHasPruned
    NoPendingBelowState
PROPERTIES
    EventuallyPruned
CHECK_DEADLOCK FALSE
