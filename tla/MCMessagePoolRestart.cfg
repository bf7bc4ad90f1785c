SPECIFICATION Spec
CONSTANTS
    s = s
    b = b
    s0 = s0
    r0 = r0
    s1 = s1
    b0 = b0
    g = g
    p = p
    q = q
    f = f
    NoTs = NoTs
    Addrs <- MCAddrs
    Messages <- MCMessages
    From <- MCFrom
    Nonce <- MCNonce
    GasPrice <- MCGasPrice
    RequiredFunds <- MCRequiredFunds
    TipSets <- MCTipSets
    Parent <- MCParent
    TsMsgs <- MCTsMsgs
    BaseNonce <- MCBaseNonce
    Balance <- MCBalance
    Repeated = {}
    Bls = {}
    Valid = {s0, r0, s1, b0}
    Network = {}
    Clients = {r0}
    SizeHi = 9
    SizeLo = 5
    MaxHeads = 3
    MaxCrashes = 1
    MaxPrunes = 0
INVARIANTS
    NoNonceGap
    LocalMessagesReloaded
CHECK_DEADLOCK FALSE
