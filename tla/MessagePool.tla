----------------------------- MODULE MessagePool -----------------------------
(***************************************************************************)
(* The message pool of chain/messagepool: the pending messages of each     *)
(* sender, their replacement, the nonces handed out, the head changes that *)
(* remove applied and re-add reverted messages, pruning, and the reload of *)
(* local messages after a restart.                                         *)
(*                                                                         *)
(* Locks.  mp.lk protects the pool; an action of this module is what one   *)
(* goroutine does while it holds mp.lk.  mp.curTsLk protects curTs and is  *)
(* taken first: PushWithNonce, GetNonce and Add hold it throughout, and    *)
(* HeadChange holds it over many short critical sections of mp.lk, which   *)
(* hcRemove and hcAdd, its remaining work, break it up into.               *)
(*                                                                         *)
(* The datastore does not fail.  A message (sender and nonce) is in one    *)
(* tipset of a chain, and every message has passed the checks of Add that look at *)
(* nothing but the message.                                                *)
(*                                                                         *)
(* Messages and tipsets are model values.  mp.pending is the union of the  *)
(* senders' message sets: a sender has a msgSet iff it has a message here. *)
(***************************************************************************)
EXTENDS Integers, FiniteSets, FiniteSetsExt, Sequences

CONSTANTS
    Addrs,          \* senders
    Messages,       \* signed messages, From[m], Nonce[m], GasPrice[m]
    From, Nonce, GasPrice,
    RequiredFunds,  \* RequiredFunds[m]
    Bls,            \* the messages with BLS signatures
    Valid,          \* the messages that pass ValidForBlockInclusion
    TipSets, NoTs,
    Parent,         \* Parent[ts], NoTs for genesis
    TsMsgs,         \* TsMsgs[ts]: messages in the blocks of ts
    Repeated,       \* the messages that are in several blocks of their tipset
    BaseNonce,      \* BaseNonce[ts][a]: nonce of a in ts.ParentState()
    Balance,        \* Balance[ts][a]: balance of a in ts.ParentState()
    SizeHi, SizeLo, \* maxTxPoolSizeHi, maxTxPoolSizeLo
    Network,        \* the messages that peers send
    Clients,        \* the messages that clients sign themselves and Push
    MaxHeads,       \* bound: number of head changes explored
    MaxCrashes,     \* bound: number of crashes explored
    MaxPrunes       \* bound: number of calls of Prune explored after a start

ASSUME MessagesAssumption ==
    /\ IsFiniteSet(Messages)
    /\ From \in [Messages -> Addrs]
    /\ Nonce \in [Messages -> Nat]
    /\ GasPrice \in [Messages -> Nat]
    /\ RequiredFunds \in [Messages -> Nat]
    /\ Bls \subseteq Messages /\ Valid \subseteq Messages /\ Repeated \subseteq Messages
    /\ Network \subseteq Messages /\ Clients \subseteq Messages

ASSUME ChainAssumption ==
    /\ NoTs \notin TipSets
    /\ Parent \in [TipSets -> TipSets \cup {NoTs}]
    /\ TsMsgs \in [TipSets -> SUBSET Messages]
    /\ BaseNonce \in [TipSets -> [Addrs -> Nat]]
    /\ Balance \in [TipSets -> [Addrs -> Nat]]

ASSUME SizesAssumption ==
    /\ SizeHi \in Nat /\ SizeLo \in 0..SizeHi
    /\ MaxHeads \in Nat /\ MaxCrashes \in Nat
    /\ MaxPrunes \in 0..1

VARIABLES
    pending,        \* all messages of mp.pending
    nextNonce,      \* nextNonce[a]: pending[a].nextNonce, 0 without a msgSet
    currentSize,    \* mp.currentSize
    blsSigCache,    \* the BLS messages whose signature mp.blsSigCache holds
    pruneTrigger,   \* the one slot of mp.pruneTrigger is full
    runLoop,        \* runLoop: "select", or a step of pruneExcessMessages
    prune,          \* Prune: [sends, pruning], its sends so far and, as a history, how
                    \* far a pruning that started after the first one is
    curTs,          \* mp.curTs
    hcRemove,       \* HeadChange: <<from, nonce>> pairs it has still to Remove
    hcAdd,          \* HeadChange: reverted messages it has still to add
    heaviest,       \* the chain store's head
    headChanges,    \* head changes not yet delivered: <<old head, new head>>
    localMsgs,      \* the datastore of local messages
    pushing,        \* messages Push has added and not yet persisted
    toLoad,         \* local messages loadLocal has still to add
    started,        \* New has returned
    heads, crashes  \* numbers of head changes and crashes so far

poolVars == <<pending, nextNonce, currentSize, blsSigCache, pruneTrigger>>
chainVars == <<heaviest, headChanges, heads>>
loopVars == <<runLoop, prune>>
hcVars == <<curTs, hcRemove, hcAdd>>
localVars == <<localMsgs, pushing, toLoad, started, crashes>>
vars == <<poolVars, loopVars, hcVars, chainVars, localVars>>

NoPrune == [sends |-> 0, pruning |-> "none"]

EmptyPool ==
    /\ pending = {}
    /\ nextNonce = [a \in Addrs |-> 0]
    /\ currentSize = 0
    /\ blsSigCache = {}
    /\ pruneTrigger = FALSE
    /\ runLoop = "select"
    /\ prune = NoPrune
    /\ hcRemove = {} /\ hcAdd = {}
    /\ headChanges = <<>>
    /\ pushing = {}

\* a node without local messages, after New
Init ==
    /\ EmptyPool
    /\ heaviest \in TipSets
    /\ curTs = heaviest
    /\ localMsgs = {}
    /\ toLoad = {}
    /\ started = TRUE
    /\ heads = 0
    /\ crashes = 0

-----------------------------------------------------------------------------
(* The chain as the pool sees it through its Provider *)

Ancestors[ts \in TipSets] ==
    {ts} \cup IF Parent[ts] = NoTs THEN {} ELSE Ancestors[Parent[ts]]

MessagesOf(tss) == {m \in Messages : \E ts \in tss : m \in TsMsgs[ts]}

\* StateGetActor(a, ts): without a tipset, the parent state of the heaviest one
StateTs(ts) == IF ts = NoTs THEN heaviest ELSE ts

\* the parent state's nonce, plus the messages of ts itself unless ts is nil
getStateNonce(a, ts) ==
    BaseNonce[StateTs(ts)][a] +
        IF ts = NoTs THEN 0 ELSE Cardinality({m \in TsMsgs[ts] : From[m] = a})

getStateBalance(a, ts) == Balance[StateTs(ts)][a]

\* On a chain a sender's messages use up its nonces from 0 to the state's, each once.
ASSUME NoncesAssumption ==
    \A ts \in TipSets :
        /\ \A a \in Addrs :
            {Nonce[m] : m \in {n \in MessagesOf(Ancestors[ts]) : From[n] = a}} =
                0 .. (BaseNonce[ts][a] + Cardinality({m \in TsMsgs[ts] : From[m] = a})) - 1
        /\ \A t, u \in Ancestors[ts] : \A m \in TsMsgs[t], n \in TsMsgs[u] :
            From[m] = From[n] /\ Nonce[m] = Nonce[n] => t = u

-----------------------------------------------------------------------------
(* msgSet *)

msgSet(a) == {m \in pending : From[m] = a}

SameSlot(m) == {e \in pending : From[e] = From[m] /\ Nonce[e] = Nonce[m]}

\* the least price that replaces a message: 1.25 times the old price, plus one
RbfPrice(p) == p + (p * 64) \div 256 + 1

\* Mutant: every message for the same nonce is accepted.
AcceptsAny(m) == TRUE

\* add refuses a different message for a taken nonce, unless it pays enough more
Accepts(m) == \A e \in SameSlot(m) : e = m \/ GasPrice[m] >= RbfPrice(GasPrice[e])

\* incr: only a new nonce makes the pool larger
sizeAfterAdd(m) == IF SameSlot(m) = {} THEN currentSize + 1 ELSE currentSize

nextNonceAfterAdd(m) ==
    IF msgSet(From[m]) = {} \/ Nonce[m] >= nextNonce[From[m]]
    THEN Nonce[m] + 1
    ELSE nextNonce[From[m]]

\* a growing pool fills the trigger's slot, or finds it full
signalsPrune(size) == size > SizeHi

cached(m) == {m} \cap Bls

pendingAfterAdd(m) == (pending \ SameSlot(m)) \cup {m}

addLocked(m) ==
    /\ blsSigCache' = blsSigCache \cup cached(m)
    /\ nextNonce' = [nextNonce EXCEPT ![From[m]] = nextNonceAfterAdd(m)]
    /\ IF Accepts(m)
       THEN /\ pending' = pendingAfterAdd(m)
            /\ currentSize' = sizeAfterAdd(m)
            /\ pruneTrigger' = \/ pruneTrigger
                               \/ SameSlot(m) = {} /\ signalsPrune(currentSize')
       ELSE UNCHANGED <<pending, currentSize, pruneTrigger>>

\* one more than the largest nonce left or removed; a set that became empty is deleted
nextNonceAfterRemove(left, nonce) ==
    IF left = {} THEN 0 ELSE Max({Nonce[m] : m \in left} \cup {nonce}) + 1

\* Mutant: the size is lowered whether or not the message was there.
sizeAfterRemoveAlways(gone) == currentSize - 1

sizeAfterRemove(gone) == IF gone = {} THEN currentSize ELSE currentSize - 1

remove(from, nonce) ==
    LET gone == {m \in msgSet(from) : Nonce[m] = nonce} IN
    IF msgSet(from) = {}
    THEN UNCHANGED poolVars
    ELSE /\ pending' = pending \ gone
         /\ currentSize' = sizeAfterRemove(gone)
         /\ nextNonce' = [nextNonce EXCEPT ![from] =
                              nextNonceAfterRemove(msgSet(from) \ gone, nonce)]
         /\ UNCHANGED <<blsSigCache, pruneTrigger>>

-----------------------------------------------------------------------------
(* The API: Add, Push and PushWithNonce *)

\* HeadChange does not hold curTsLk
CurTsFree == hcRemove = {} /\ hcAdd = {}

addTs(m, ts) ==
    /\ getStateNonce(From[m], ts) <= Nonce[m]
    /\ getStateBalance(From[m], ts) >= RequiredFunds[m]
    /\ addLocked(m)

\* a message from the network
Add(m) ==
    /\ started /\ CurTsFree
    /\ addTs(m, curTs)
    /\ UNCHANGED <<loopVars, hcVars, chainVars, localVars>>

\* a signed message from a client: Add, and addLocal in a second critical section
Push(m) ==
    /\ started /\ CurTsFree
    /\ m \in Valid
    /\ addTs(m, curTs)
    /\ pushing' = pushing \cup ({m} \cap pending')
    /\ UNCHANGED <<loopVars, hcVars, chainVars, localMsgs, toLoad, started, crashes>>

addLocal(m) ==
    /\ m \in pushing
    /\ pushing' = pushing \ {m}
    /\ localMsgs' = localMsgs \cup {m}
    /\ UNCHANGED <<poolVars, loopVars, hcVars, chainVars, toLoad, started, crashes>>

getNonceLocked(a, ts) ==
    LET stateNonce == getStateNonce(a, ts) IN
    IF msgSet(a) = {} \/ stateNonce > nextNonce[a] THEN stateNonce ELSE nextNonce[a]

\* m is what the callback signs for the nonce
PushWithNonce(m) ==
    /\ started /\ CurTsFree
    /\ m \in Valid
    /\ Nonce[m] = getNonceLocked(From[m], curTs)
    /\ addLocked(m)
    /\ localMsgs' = localMsgs \cup ({m} \cap pending')
    /\ UNCHANGED <<loopVars, hcVars, chainVars, pushing, toLoad, started, crashes>>

-----------------------------------------------------------------------------
(* HeadChange *)

\* the chain store takes a new head and queues the change for its subscribers
HeadMoves(ts) ==
    /\ started /\ heads < MaxHeads
    /\ ts # heaviest
    /\ heaviest' = ts
    /\ headChanges' = Append(headChanges, <<heaviest, ts>>)
    /\ heads' = heads + 1
    /\ UNCHANGED <<poolVars, loopVars, hcVars, localVars>>

Slot(m) == <<From[m], Nonce[m]>>
Slots(ms) == {Slot(m) : m \in ms}

\* Mutant: every reverted message is added again.
readdAll(reverted, applied) == {m \in reverted : m \in Bls => m \in blsSigCache}

\* Mutant: reverted messages are forgotten.
readdNone(reverted, applied) == {}

\* rmsgs after the applied tipsets: reverted messages whose signature is known and
\* whose nonce the new chain does not use
readd(reverted, applied) ==
    {m \in reverted : (m \in Bls => m \in blsSigCache) /\ Slot(m) \notin Slots(applied)}

\* rm: an applied message that cancels a reverted one does not touch the pool; when it
\* comes again, with another block, it does
toRemove(reverted, applied) ==
    Slots(applied \cap Repeated)
        \cup (Slots(applied) \ Slots({m \in reverted : m \in Bls => m \in blsSigCache}))

HeadChange ==
    /\ started /\ CurTsFree
    /\ headChanges # <<>>
    /\ LET old == Ancestors[Head(headChanges)[1]]
           new == Ancestors[Head(headChanges)[2]]
           reverted == MessagesOf(old \ new)
           applied == MessagesOf(new \ old)
       IN  /\ hcRemove' = toRemove(reverted, applied)
           /\ hcAdd' = readd(reverted, applied)
    /\ curTs' = Head(headChanges)[2]
    /\ headChanges' = Tail(headChanges)
    /\ UNCHANGED <<poolVars, loopVars, heaviest, heads, localVars>>

\* tipsets are applied oldest first: a sender's nonces in increasing order
headChangeRemove ==
    /\ \E s \in hcRemove :
        /\ \A t \in hcRemove : t[1] = s[1] => s[2] <= t[2]
        /\ remove(s[1], s[2])
        /\ hcRemove' = hcRemove \ {s}
    /\ UNCHANGED <<loopVars, curTs, hcAdd, chainVars, localVars>>

\* addSkipChecks; rmsgs is a Go map, visited in any order
headChangeAdd ==
    /\ hcRemove = {}
    /\ \E m \in hcAdd : addLocked(m) /\ hcAdd' = hcAdd \ {m}
    /\ UNCHANGED <<loopVars, curTs, hcRemove, chainVars, localVars>>

-----------------------------------------------------------------------------
(* runLoop and pruning.  Republishing changes no state of the pool. *)

runLoopRuns == toLoad = {}

runLoopPrune ==
    /\ runLoopRuns /\ runLoop = "select"
    /\ pruneTrigger
    /\ pruneTrigger' = FALSE
    /\ runLoop' = "prune"
    /\ prune' = IF prune.sends > 0 /\ prune.pruning = "none"
                THEN [prune EXCEPT !.pruning = "running"] ELSE prune
    /\ UNCHANGED <<pending, nextNonce, currentSize, blsSigCache, hcVars, chainVars, localVars>>

\* pruneExcessMessages reads curTs, then waits for mp.lk
pruneReadTs ==
    /\ runLoop = "prune" /\ CurTsFree
    /\ runLoop' = IF curTs = NoTs THEN "pruneNil" ELSE "pruneTs"
    /\ UNCHANGED <<prune, poolVars, hcVars, chainVars, localVars>>

\* messages of one sender that the head's parent state can execute in sequence
Executable(ms, a) ==
    /\ ms \subseteq Valid
    /\ {Nonce[m] : m \in ms} = BaseNonce[heaviest][a] .. BaseNonce[heaviest][a] + Cardinality(ms) - 1
    /\ MapThenSumSet(LAMBDA m : RequiredFunds[m], ms) <= Balance[heaviest][a]

\* what the selection may keep: prefixes of the senders' executable messages, SizeLo
\* of them if there are so many.  Which ones depends on gas prices and gas guesses.
prunedPools ==
    {ms \in SUBSET pending :
        /\ \A a \in Addrs : Executable({m \in ms : From[m] = a}, a)
        /\ Cardinality(ms) <= SizeLo
        /\ \/ Cardinality(ms) = SizeLo
           \/ \A e \in pending \ ms :
                ~ Executable({m \in ms : From[m] = From[e]} \cup {e}, From[e])}

\* pruneMessages removes the others in increasing order of their nonces
pruneMessages ==
    \E kept \in prunedPools :
        /\ pending' = kept
        /\ currentSize' = currentSize - Cardinality(pending \ kept)
        /\ nextNonce' = [a \in Addrs |->
               LET gone == msgSet(a) \ kept IN
               IF gone = {} THEN nextNonce[a]
               ELSE nextNonceAfterRemove(msgSet(a) \cap kept, Max({Nonce[m] : m \in gone}))]
        /\ UNCHANGED <<blsSigCache, pruneTrigger>>

\* Mutant: the pool is pruned only above the limit by more than one.
prunesFromLater == currentSize > SizeHi + 1

prunesFrom == currentSize >= SizeHi

pruneExcessMessages ==
    /\ \/ runLoop = "pruneTs"
       \/ runLoop = "pruneNil" /\ ~ prunesFrom
    /\ IF prunesFrom THEN pruneMessages ELSE UNCHANGED poolVars
    /\ runLoop' = "select"
    /\ prune' = IF prune.pruning = "running" THEN [prune EXCEPT !.pruning = "ended"] ELSE prune
    /\ UNCHANGED <<hcVars, chainVars, localVars>>

\* Mutant: Prune returns when the pruning has started.
PruneSendsTwo == 2

PruneSends == 3

\* one of the sends of Prune, each of which waits for a free slot
Prune ==
    /\ started /\ prune.sends < PruneSends * MaxPrunes
    /\ ~ pruneTrigger
    /\ pruneTrigger' = TRUE
    /\ prune' = [prune EXCEPT !.sends = @ + 1]
    /\ UNCHANGED <<pending, nextNonce, currentSize, blsSigCache, runLoop, hcVars, chainVars, localVars>>

-----------------------------------------------------------------------------
(* Crash and restart *)

\* memory is lost; New starts loading the local messages with curTs = nil
Restart ==
    /\ pending' = {} /\ nextNonce' = [a \in Addrs |-> 0] /\ currentSize' = 0
    /\ blsSigCache' = {} /\ pruneTrigger' = FALSE
    /\ runLoop' = "select" /\ prune' = NoPrune
    /\ hcRemove' = {} /\ hcAdd' = {} /\ curTs' = NoTs
    /\ headChanges' = <<>> /\ pushing' = {}
    /\ toLoad' = localMsgs /\ started' = FALSE
    /\ UNCHANGED <<heaviest, heads, localMsgs>>

Crash ==
    /\ started /\ crashes < MaxCrashes
    /\ Restart
    /\ crashes' = crashes + 1

\* ts.Height() of a nil tipset panics
prunePanic ==
    /\ runLoop = "pruneNil" /\ prunesFrom
    /\ Restart
    /\ UNCHANGED crashes

\* one message of loadLocal's query; Add may refuse it
loadLocal(m) ==
    /\ m \in toLoad
    /\ toLoad' = toLoad \ {m}
    /\ \/ addTs(m, curTs)
       \/ /\ \/ getStateNonce(From[m], curTs) > Nonce[m]
             \/ getStateBalance(From[m], curTs) < RequiredFunds[m]
          /\ UNCHANGED poolVars
    /\ UNCHANGED <<loopVars, hcVars, chainVars, localMsgs, pushing, started, crashes>>

\* New subscribes to head changes and takes the head as curTs
finishNew ==
    /\ ~ started /\ toLoad = {}
    /\ started' = TRUE
    /\ curTs' = heaviest
    /\ UNCHANGED <<poolVars, loopVars, hcRemove, hcAdd, chainVars, localMsgs, pushing, toLoad, crashes>>

-----------------------------------------------------------------------------

Next ==
    \/ \E m \in Network : Add(m)
    \/ \E m \in Clients : Push(m)
    \/ \E m \in Messages : addLocal(m)
    \/ \E m \in Messages : PushWithNonce(m)
    \/ \E ts \in TipSets : HeadMoves(ts)
    \/ HeadChange
    \/ headChangeRemove
    \/ headChangeAdd
    \/ runLoopPrune
    \/ pruneReadTs
    \/ pruneExcessMessages
    \/ Prune
    \/ Crash
    \/ prunePanic
    \/ \E m \in Messages : loadLocal(m)
    \/ finishNew

Spec == Init /\ [][Next]_vars

\* goroutines that are runnable run: the head change callback, runLoop and New
FairSpec ==
    /\ Spec
    /\ WF_vars(headChangeRemove) /\ WF_vars(headChangeAdd)
    /\ WF_vars(runLoopPrune) /\ WF_vars(pruneReadTs) /\ WF_vars(pruneExcessMessages)
    /\ WF_vars(prunePanic) /\ WF_vars(\E m \in Messages : loadLocal(m))

-----------------------------------------------------------------------------
(* Properties *)

\* The type invariant.
TypeOK ==
    /\ pending \subseteq Messages
    /\ nextNonce \in [Addrs -> Nat]
    /\ currentSize \in Int
    /\ blsSigCache \subseteq Bls
    /\ pruneTrigger \in BOOLEAN
    /\ runLoop \in {"select", "prune", "pruneTs", "pruneNil"}
    /\ prune \in [sends : 0..PruneSends, pruning : {"none", "running", "ended"}]
    /\ curTs \in TipSets \cup {NoTs}
    /\ hcRemove \subseteq Addrs \X Nat
    /\ hcAdd \subseteq Messages
    /\ heaviest \in TipSets
    /\ headChanges \in Seq(TipSets \X TipSets)
    /\ localMsgs \subseteq Messages /\ pushing \subseteq Messages /\ toLoad \subseteq Messages
    /\ started \in BOOLEAN
    /\ heads \in Nat /\ crashes \in Nat

\* mp.currentSize, kept by hand in addLocked and remove, is the number of pending
\* messages: replacements, removals of unknown nonces, prunings interleaved with a
\* head change and re-added messages included.
SizeMatches == currentSize = Cardinality(pending)

\* Two pending messages of a sender never share a nonce (msgSet.msgs is keyed by
\* nonce; a replacement takes the place of the message it replaces).
OneMessagePerNonce == \A m, n \in pending : Slot(m) = Slot(n) => m = n

\* The nonce PushWithNonce hands out, msgSet.nextNonce, is above every pending nonce
\* of the sender, whatever was removed, pruned or replaced before.
NextNonceAbovePending == \A m \in pending : Nonce[m] < nextNonce[From[m]]

\* A pool above its limit has a pruning under way: the trigger is full, or runLoop is
\* between taking it and pruning, and will see the size.
OversizeSignalled == currentSize > SizeHi => pruneTrigger \/ runLoop # "select"

\* What addLocked, remove and the pruning keep by hand stays consistent over every order of
\* additions, head changes and prunings: the size counts the pending messages, one per
\* nonce and all below the next nonce, and an oversize pool has its pruning signalled.
PoolConsistent ==
    SizeMatches /\ OneMessagePerNonce /\ NextNonceAbovePending /\ OversizeSignalled

BelowState(m) == Nonce[m] < getStateNonce(From[m], curTs)

\* Once started and between head changes, the pool holds no message that the chain of
\* curTs has executed: HeadChange removes what was applied and re-adds only what the
\* new chain has not used, and Add and PushWithNonce look at the state of curTs.  Only
\* a local message reloaded after a crash may be such a message.
NoPendingBelowState ==
    started /\ CurTsFree =>
        \A m \in pending : BelowState(m) => crashes > 0 /\ m \in localMsgs

\* The pending messages of a sender whose nonces come from PushWithNonce, or replace
\* such messages, follow on the state of curTs without a gap, over any number of reorgs
\* (without pruning and restarts, and with signatures that can be recovered).
NoNonceGap ==
    started /\ CurTsFree /\ crashes = 0 =>
        \A a \in Addrs :
            {Nonce[m] : m \in msgSet(a)} = getStateNonce(a, curTs) .. nextNonce[a] - 1

\* After a restart loadLocal gives every local message that is still valid its place
\* back, or leaves the place to a message it could not replace.
LocalMessagesReloaded ==
    ~ started =>
        \A m \in localMsgs \ toLoad :
            \/ Nonce[m] < getStateNonce(From[m], NoTs)
            \/ RequiredFunds[m] > getStateBalance(From[m], NoTs)
            \/ \E e \in SameSlot(m) : e = m \/ GasPrice[m] < RbfPrice(GasPrice[e])

\* The comment of Prune: its third send goes through after the pruning has finished, also
\* when the trigger's slot is full or a pruning is running when it is called, and when
\* additions use the slot in between.
PruneHasPruned == prune.sends = PruneSends => prune.pruning = "ended"

\* A pool above maxTxPoolSizeHi is pruned: no order of additions, head changes and
\* trigger sends loses the wakeup of runLoop.
EventuallyPruned == currentSize > SizeHi ~> currentSize <= SizeHi
=============================================================================
