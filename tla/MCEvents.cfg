SPECIFICATION MCSpec
CONSTANTS
    g = g
    a1 = a1
    a2 = a2
    a4 = a4
    a5 = a5
    b3 = b3
    b4 = b4
    c2 = c2
    c5 = c5
    x = x
    y = y
    p = p
    q = q
    m = m
    o = o
    NoTs = NoTs
    NoTimeout = NoTimeout
    TipSets <- MCTipSets
    Parent <- MCParent
    Height <- MCHeight
    Weight <- MCWeight
    Starts <- MCStarts
    Cap = 4
    Handlers = {x, y}
    Watchers = {p, q}
    MaxPending = 0
    MaxReconnects = 1
    H <- MCH
    Confidence <- MCConfidence
    Kind <- MCKind
    Matches <- MCMatches
    MatchOnce <- MCMatchOnce
    Conf <- MCConf
    Timeout <- MCTimeout
    More <- MCMore
    Msgs <- MCMsgs
    State <- MCState
INVARIANTS
    CalledWhenReached
    CacheIsChain
    EventsOnChain
    WatchersTold
PROPERTIES
    HandlerCalled
CHECK_DEADLOCK FALSE
