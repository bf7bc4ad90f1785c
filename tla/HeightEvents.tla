------------------------------ MODULE HeightEvents ------------------------------
(***************************************************************************)
(* Callbacks at a chain height (chain/events/events_height.go, with        *)
(* events.go): ChainAt registers a handler for height H, called once the   *)
(* head is Confidence epochs above it; headChangeAt follows the head       *)
(* changes of the chain store, which arrive in order, and calls handlers   *)
(* and their reverts.                                                      *)
(*                                                                         *)
(* lk is released while a handler runs, so ChainAt can run when            *)
(* headChangeAt visits a height with handlers to call.  All handlers of a  *)
(* height are called in one step; those registered meanwhile are not in    *)
(* the slice that is walked.  Handlers do not fail.                        *)
(***************************************************************************)
EXTENDS TipSetCache

CONSTANTS
    Weight,             \* of a tipset: the head only gets heavier
    Starts,             \* pairs: a head NewEvents finds, and changes up to it delivered late
    Handlers, H, Confidence,
    MaxReconnects,      \* bound: losses of the notification channel explored
    MaxPending          \* bound: head changes not yet received when the head moves

GcConfidence == Cap

VARIABLES
    head,       \* the store's head
    changes,    \* notifications not yet received: <<old head, new head>>
    tsc,        \* e.tsc
    order,      \* triggers in the order of their ids
    called,     \* heightHandler.called
    change,     \* headChangeAt: [stage, rev, app, todo (heights to visit), fail, cut, known]
    at,         \* ChainAt of each handler
    live,       \* history: handlers called and not reverted since
    seen,       \* history: the tipset a handler was last called with
    twice,      \* history: handlers called while live
    skipped,    \* history: storage was asked for a null round and gave the tipset below it
    givenUp,    \* history: a head change failed as get was asked above the head it knows
    reconnects

hist == <<live, seen, twice, skipped, givenUp>>
vars == <<head, changes, tsc, order, called, change, at, hist, reconnects>>

NoChange == [stage |-> "idle", rev |-> <<>>, app |-> <<>>, todo |-> <<>>, fail |-> FALSE,
             cut |-> FALSE, known |-> 0]

Init ==
    /\ \E start \in Starts : head = start[1] /\ changes = start[2]
    /\ tsc = add(newTSCache, head)
    /\ order = <<>>
    /\ called = [x \in Handlers |-> FALSE]
    /\ change = NoChange
    /\ at \in [Handlers -> {"new", "never"}]
    /\ live = {} /\ twice = {} /\ skipped = FALSE /\ givenUp = FALSE
    /\ seen = [x \in Handlers |-> NoTs]
    /\ reconnects = 0

\* external: the chain store takes a heavier head
HeadMoves(ts) ==
    /\ Weight[ts] > Weight[head] /\ Len(changes) <= MaxPending
    /\ head' = ts
    /\ changes' = Append(changes, <<head, ts>>)
    /\ UNCHANGED <<tsc, order, called, change, at, hist, reconnects>>

-----------------------------------------------------------------------------
(* headChangeAt *)

\* Mutant: null rounds are not visited.
visitTop(c, ts) == [todo |-> <<Height[ts]>>, fail |-> FALSE, cut |-> FALSE]

\* storage gives the tipset below a null round
storageSkips(c, h) == get(c, h, head) # NoTs /\ Height[get(c, h, head)] < h

\* the height of ts and the null rounds below it, as far as get tells; fail when get fails,
\* cut when storage skips a null round
visit(c, ts) ==
    LET last == CHOOSE h \in 0 .. Height[ts] :
                    /\ h = 0 \/ ~ canGet(c, h - 1, head) \/ get(c, h - 1, head) # NoTs
                    /\ \A i \in h .. Height[ts] - 1 : canGet(c, i, head) /\ get(c, i, head) = NoTs
    IN  [todo |-> [i \in 1 .. Height[ts] - last + 1 |-> Height[ts] - i + 1],
         fail |-> last > 0 /\ ~ canGet(c, last - 1, head),
         cut |-> last > 0 /\ canGet(c, last - 1, head) /\ storageSkips(c, last - 1)]

\* Mutant: reverted tipsets are passed over.
advanceUp(c, rev, app) ==
    IF app # <<>> /\ canAdd(c, Head(app))
    THEN LET d == add(c, Head(app))
             v == visit(d, Head(app))
         IN  <<d, [stage |-> "apply", rev |-> <<>>, app |-> app, todo |-> v.todo, fail |-> v.fail,
                  cut |-> v.cut, known |-> Len(order)]>>
    ELSE <<c, NoChange>>

\* the loops at their next tipset: the new cache and change
advance(c, rev, app) ==
    IF rev # <<>>
    THEN LET v == visit(c, Head(rev))
         IN  <<c, [stage |-> "revert", rev |-> rev, app |-> app, todo |-> v.todo, fail |-> v.fail,
                  cut |-> v.cut, known |-> Len(order)]>>
    ELSE IF app # <<>> /\ canAdd(c, Head(app))
    THEN LET d == add(c, Head(app))
             v == visit(d, Head(app))
         IN  <<d, [stage |-> "apply", rev |-> <<>>, app |-> app, todo |-> v.todo, fail |-> v.fail,
                  cut |-> v.cut, known |-> Len(order)]>>
    ELSE <<c, NoChange>>

\* a notification; one that applies no tipset is refused
headChange ==
    /\ change.stage = "idle" /\ changes # <<>>
    /\ LET old == Head(changes)[1]
           new == Head(changes)[2]
           n == IF applied(old, new) = <<>> THEN <<tsc, NoChange>>
                ELSE advance(tsc, reverted(old, new), applied(old, new))
       IN  tsc' = n[1] /\ change' = n[2]
    /\ changes' = Tail(changes)
    /\ skipped' = (skipped \/ change'.cut)
    /\ UNCHANGED <<head, order, called, at, live, seen, twice, givenUp, reconnects>>

\* the triggers when the height was reached, in order
walked == SubSeq(order, 1, change.known)

toRevert(h) == {x \in Range(walked) : H[x] = h}

revertAt ==
    /\ change.stage = "revert"
    /\ LET ts == Head(change.rev)
           X == toRevert(Head(change.todo))
           n == IF Len(change.todo) > 1 THEN <<tsc, [change EXCEPT !.todo = Tail(@), !.known = Len(order)]>>
                ELSE IF change.fail \/ ~ canRevert(tsc, ts) THEN <<tsc, NoChange>>
                ELSE advance(revert(tsc, ts), Tail(change.rev), change.app)
       IN  /\ called' = [x \in Handlers |-> called[x] /\ x \notin X]
           /\ live' = live \ X
           /\ tsc' = n[1] /\ change' = n[2]
    /\ skipped' = (skipped \/ change'.cut)
    /\ givenUp' = (givenUp \/ (Len(change.todo) = 1 /\ change.fail))
    /\ UNCHANGED <<head, changes, order, at, seen, twice, reconnects>>

\* the handlers of a height are called in order, up to the first that was called before
toCall(h) ==
    LET due == SelectSeq(walked, LAMBDA x : H[x] + Confidence[x] = h)
    IN  {due[i] : i \in {i \in DOMAIN due : \A j \in 1 .. i : ~ called[due[j]]}}

applyAt ==
    /\ change.stage = "apply"
    /\ LET X == toCall(Head(change.todo))
           n == IF Len(change.todo) > 1 THEN <<tsc, [change EXCEPT !.todo = Tail(@), !.known = Len(order)]>>
                ELSE IF change.fail THEN <<tsc, NoChange>>
                ELSE advance(tsc, <<>>, Tail(change.app))
       IN  /\ called' = [x \in Handlers |-> called[x] \/ x \in X]
           /\ live' = live \cup X
           /\ twice' = twice \cup (X \cap live)
           /\ seen' = [x \in Handlers |-> IF x \in X THEN getNonNull(tsc, H[x], head) ELSE seen[x]]
           /\ tsc' = n[1] /\ change' = n[2]
           /\ skipped' = (skipped \/ change'.cut \/ \E x \in X : storageSkips(tsc, H[x]))
    /\ UNCHANGED <<head, changes, order, at, givenUp, reconnects>>

-----------------------------------------------------------------------------
(* ChainAt *)

lkFree ==
    \/ change.stage = "idle"
    \/ change.stage = "revert" /\ toRevert(Head(change.todo)) # {}
    \/ change.stage = "apply" /\ toCall(Head(change.todo)) # {}

bestH == Height[best(tsc)]

\* a height that is already reached: the handler is called without lk held
ChainAtPassed(x) ==
    /\ at[x] = "new" /\ lkFree /\ tsc.len > 0
    /\ bestH >= H[x] + Confidence[x]
    /\ seen' = [seen EXCEPT ![x] = getNonNull(tsc, H[x], head)]
    /\ live' = live \cup {x}
    /\ at' = [at EXCEPT ![x] = "called"]
    /\ UNCHANGED <<head, changes, tsc, order, called, change, twice, skipped, givenUp, reconnects>>

\* the rest of ChainAt, with lk held
ChainAtRegister(x) ==
    /\ lkFree /\ tsc.len > 0
    /\ at[x] = "called" \/ (at[x] = "new" /\ bestH < H[x] + Confidence[x])
    /\ IF bestH >= H[x] + Confidence[x] + GcConfidence
       THEN at' = [at EXCEPT ![x] = "past"] /\ UNCHANGED order
       ELSE /\ at' = [at EXCEPT ![x] = IF at[x] = "new" THEN "ahead" ELSE "late"]
            /\ order' = Append(order, x)
    /\ UNCHANGED <<head, changes, tsc, called, change, hist, reconnects>>

\* NewEvents of a node that starts again, whose clients make their calls again
NewEvents ==
    /\ changes' = <<>>
    /\ tsc' = add(newTSCache, head)
    /\ order' = <<>>
    /\ called' = [x \in Handlers |-> FALSE]
    /\ change' = NoChange
    /\ at' = [x \in Handlers |-> IF at[x] = "never" THEN "never" ELSE "new"]
    /\ live' = {} /\ twice' = {} /\ skipped' = FALSE /\ givenUp' = FALSE
    /\ seen' = [x \in Handlers |-> NoTs]
    /\ UNCHANGED <<head, reconnects>>

\* best is nil while the cache is empty, in a reorg that reverts all of it: Height panics
ChainAtPanics(x) ==
    /\ at[x] \in {"new", "called"} /\ lkFree /\ tsc.len = 0
    /\ NewEvents

\* listenHeadChangesOnce again after the channel was closed; notifications are lost
Reconnect ==
    /\ reconnects < MaxReconnects /\ change.stage = "idle"
    /\ reconnects' = reconnects + 1
    /\ changes' = <<>>
    /\ tsc' = IF canAdd(tsc, head) THEN add(tsc, head) ELSE tsc
    /\ UNCHANGED <<head, order, called, change, at, hist>>

-----------------------------------------------------------------------------
(* Properties *)

\* all notifications have been processed, and none lost with the channel or given up
Settled == change.stage = "idle" /\ changes = <<>> /\ reconnects = 0 /\ ~ givenUp

\* Once all notifications are processed the cache is the top of the head's chain: stale
\* notifications from before the subscription leave no trace.  Whatever is lost with the
\* channel or given up, every tipset in the cache is in the slot of its height, on which
\* get relies.
CacheIsChain ==
    /\ \A i \in 0 .. tsc.len - 1 : slot(tsc, i) # NoTs => Height[slot(tsc, i)] = Height[best(tsc)] - i
    /\ Settled =>
        /\ best(tsc) = head
        /\ \A i \in 0 .. tsc.len - 1 :
               slot(tsc, i) = IF \E a \in Chain[head] : Height[a] = Height[head] - i
                              THEN AtOrBelow(head, Height[head] - i) ELSE NoTs

\* the tipset of the head's chain at height h or the first above it
AtOrAbove(h) ==
    LET up == {a \in Chain[head] : Height[a] >= h}
    IN  CHOOSE a \in up : \A b \in up : Height[a] <= Height[b]

reached(x) == Height[head] >= H[x] + Confidence[x]

\* ChainAt: a handler registered ahead of its height has been called when the head is
\* at height + confidence, and not again unless it was reverted; it has been reverted when
\* the head is below the height; while it is not, the tipset it was called with is the one
\* at its height, or the first above it, on the chain, whatever reorgs and null rounds came
\* between.  This is so as long as the null rounds that matter are in the cache: below its
\* lowest tipset storage gives the tipset below a null round (node/impl/full/chain.go:178),
\* which a handler may be called with and at which a visit of null rounds ends.
CalledWhenReached ==
    \A x \in Handlers : at[x] = "ahead" =>
        /\ x \notin twice
        /\ Settled /\ ~ skipped /\ reached(x) => x \in live
        /\ Settled /\ ~ skipped /\ x \in live => Height[head] >= H[x] /\ seen[x] = AtOrAbove(H[x])

\* A handler whose height is reached is called, unless the head falls back below it,
\* a head change is lost or given up, null rounds are below the cache or the node starts
\* again.
HandlerCalled ==
    \A x \in Handlers :
        (at[x] = "ahead" /\ reached(x)) ~>
            (x \in live \/ ~ reached(x) \/ reconnects > 0 \/ givenUp \/ skipped \/ at[x] # "ahead")
=============================================================================
