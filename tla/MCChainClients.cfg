SPECIFICATION Spec
CONSTANTS
    Undef = Undef
    NoTs = NoTs
    Callers = {1, 2, 3}
    Keys = {"genesis", "ts"}
    GenesisKey = "genesis"
    MaxCalls = 3
    MaxPending = 1
    g = g
    a1 = a1
    a2 = a2
    a4 = a4
    a5 = a5
    a6 = a6
    b3 = b3
    b4 = b4
    b6 = b6
    c2 = c2
    c5 = c5
    c6 = c6
    k0 = k0
    k1 = k1
    r1 = r1
    k2 = k2
    k3 = k3
    TipSets <- MCTipSets
    Parent <- MCParent
    Height <- MCHeight
    Weight <- MCWeight
    Msgs <- MCMsgs
    Nonce <- MCNonce
    Funded = {a1}
    Starts <- MCStarts
    Wanted <- k1
    Confidences = {0, 1, 2}
    DeadlineEpochs = 3
    ChallengeLookback = 2
    FirstEpoch = 3
    StartConfidence = 1
    PostHeads = {b4}
    MaxPosts = 4
    MaxBreaks = 1
    Actors <- MCActors
    BlockGasLimit = 5
    BlockMessageLimit = 3
    Pools <- MCPools
    MaxTime = 10
    MaxFails = 1
    MaxStops = 1
    Heads <- MCHeads
    Asked <- MCAsked
    SkipLength = 2
    CacheSize = 1
INVARIANTS
    RightTipSet
    AnswersRight
    WaitResult
    NoneMissed
    PostCurrent
    BlockAcceptable
PROPERTIES
    CallsReturn
    RoundsTried
CHECK_DEADLOCK FALSE
