----------------------------- MODULE SyncManager -----------------------------
(***************************************************************************)
(* The sync scheduler of chain/sync_manager.go.                            *)
(*                                                                         *)
(* Goroutines: any number of callers of SetPeerHead, one syncScheduler and *)
(* a fixed set of syncWorkers.  All three channels are unbuffered, so a    *)
(* send is a blocked goroutine until somebody receives:                    *)
(*   incomingTipSets  the tipset a SetPeerHead caller is offering; it      *)
(*                    holds sm.lk, so there is at most one such caller;    *)
(*   schedulerTarget  the bootstrap tipset the scheduler itself is blocked *)
(*                    on sending to a worker (scheduleIncoming);           *)
(*   worker[w]        "reporting" is a worker blocked on syncResults.      *)
(* A tipset is a model value; its parent, height and ParentWeight are      *)
(* constants.  A bucket is the sequence of its tips in insertion order     *)
(* (order breaks ties of weight), a bucket set the sequence of its         *)
(* buckets, and the nil bucket is the empty sequence.                      *)
(***************************************************************************)
EXTENDS Integers, FiniteSets, SequencesExt

CONSTANTS
    TipSets,     \* tipsets peers may announce
    NoTs,        \* the nil tipset
    Parent,      \* Parent[ts]: the tipset whose key is ts.Parents(), or NoTs
    Height,      \* Height[ts]: ts.Height()
    Weight,      \* Weight[ts]: ts.ParentWeight()
    Peers,       \* peer IDs
    Workers,     \* the syncWorkerCount worker goroutines
    BspThresh,   \* bspThresh
    MaxCalls     \* bound: number of SetPeerHead calls explored

ASSUME TipSetsAssumption ==
    /\ NoTs \notin TipSets
    /\ Parent \in [TipSets -> TipSets \cup {NoTs}]
    /\ Height \in [TipSets -> Nat]
    /\ Weight \in [TipSets -> Nat]

(***************************************************************************)
(* There are finitely many tipsets, so each set of them has a heaviest.    *)
(***************************************************************************)
ASSUME HeaviestExists ==
    \A S \in SUBSET TipSets :
        S # {} => \E t \in S : \A u \in S : Weight[u] <= Weight[t]

ASSUME BoundsAssumption == BspThresh \in Nat /\ MaxCalls \in Nat

VARIABLES
    peerHeads,        \* sm.peerHeads
    bootstrapState,   \* sm.bootstrapState
    incomingTipSets,
    schedulerTarget,
    activeSyncs,      \* sm.activeSyncs, keyed by tipset
    syncQueue,        \* sm.syncQueue.buckets
    activeSyncTips,   \* sm.activeSyncTips.buckets
    nextSyncTarget,   \* sm.nextSyncTarget
    workerChan,       \* sm.workerChan # nil
    worker,           \* what each syncWorker is doing
    stop,             \* sm.stop is closed
    scheduler,        \* the syncScheduler goroutine: "running" or "exited"
    calls             \* number of SetPeerHead calls so far

schedVars == <<activeSyncs, syncQueue, activeSyncTips, nextSyncTarget, workerChan>>
vars == <<peerHeads, bootstrapState, incomingTipSets, schedulerTarget, schedVars,
          worker, stop, scheduler, calls>>

BSStates == {"Init", "Selected", "Scheduled", "Complete"}
NilBucket == <<>>
Idle == [pc |-> "idle", ts |-> NoTs, success |-> FALSE]
Buckets == Seq(TipSets) \ {NilBucket}
WorkerStates == [pc : {"idle", "syncing", "reporting"},
                 ts : TipSets \cup {NoTs},
                 success : BOOLEAN]

Init ==
    /\ peerHeads = [p \in Peers |-> NoTs]
    /\ bootstrapState = "Init"
    /\ incomingTipSets = NoTs
    /\ schedulerTarget = NoTs
    /\ activeSyncs = {}
    /\ syncQueue = <<>>
    /\ activeSyncTips = <<>>
    /\ nextSyncTarget = NilBucket
    /\ workerChan = FALSE
    /\ worker = [w \in Workers |-> Idle]
    /\ stop = FALSE
    /\ scheduler = "running"
    /\ calls = 0

-----------------------------------------------------------------------------
(* Buckets and bucket sets *)

\* tips already in the bucket, their parents and their children
sameChainAs(b, ts) ==
    \E i \in DOMAIN b : ts = b[i] \/ ts = Parent[b[i]] \/ Parent[ts] = b[i]

add(b, ts) == IF \E i \in DOMAIN b : b[i] = ts THEN b ELSE Append(b, ts)

\* index of the first of the heaviest tipsets of a sequence
FirstHeaviest(tips) ==
    CHOOSE i \in DOMAIN tips :
        \A j \in DOMAIN tips :
            /\ Weight[tips[j]] <= Weight[tips[i]]
            /\ j < i => Weight[tips[j]] < Weight[tips[i]]

heaviestTipSet(b) == b[FirstHeaviest(b)]

\* the heaviest tipset of each bucket
BucketHeads(sbs) == [i \in DOMAIN sbs |-> heaviestTipSet(sbs[i])]

Heaviest(sbs) == heaviestTipSet(BucketHeads(sbs))

\* the bucket Pop removes and returns
BestBucket(sbs) == FirstHeaviest(BucketHeads(sbs))

RelatedToAny(sbs, ts) == \E i \in DOMAIN sbs : sameChainAs(sbs[i], ts)

FirstRelated(sbs, ts) ==
    CHOOSE i \in DOMAIN sbs :
        /\ sameChainAs(sbs[i], ts)
        /\ \A j \in DOMAIN sbs : j < i => ~ sameChainAs(sbs[j], ts)

Insert(sbs, ts) ==
    IF RelatedToAny(sbs, ts)
    THEN [sbs EXCEPT ![FirstRelated(sbs, ts)] = add(@, ts)]
    ELSE Append(sbs, <<ts>>)

removeBucket(sbs, i) == SubSeq(sbs, 1, i - 1) \o SubSeq(sbs, i + 1, Len(sbs))

-----------------------------------------------------------------------------
(* SetPeerHead *)

syncedPeerCount(heads) ==
    Cardinality({p \in DOMAIN heads : heads[p] # NoTs /\ Height[heads[p]] > 0})

\* the orders in which selectSyncTarget may insert the peers' heads: map order,
\* then sorted by height
HeightOrders(heads) ==
    {s \in SetToSeqs({heads[p] : p \in DOMAIN heads} \ {NoTs}) :
        \A i, j \in DOMAIN s : i < j => Height[s[i]] <= Height[s[j]]}

selectSyncTarget(heads) ==
    {ts \in TipSets :
        \E order \in HeightOrders(heads) :
            ts = Heaviest(FoldLeft(Insert, <<>>, order))}

\* A caller that finds sm.lk free.  It returns at once, or blocks on
\* incomingTipSets with sm.lk held until the scheduler receives.
SetPeerHead(p, ts) ==
    /\ calls < MaxCalls
    /\ incomingTipSets = NoTs
    /\ calls' = calls + 1
    /\ peerHeads' = [peerHeads EXCEPT ![p] = ts]
    /\ \/ /\ bootstrapState = "Init"
          /\ syncedPeerCount(peerHeads') >= BspThresh
          /\ incomingTipSets' \in selectSyncTarget(peerHeads')
          /\ bootstrapState' = "Selected"
       \/ /\ bootstrapState = "Init"
          /\ syncedPeerCount(peerHeads') < BspThresh
          /\ UNCHANGED <<incomingTipSets, bootstrapState>>
       \/ /\ bootstrapState # "Init"
          /\ incomingTipSets' = ts
          /\ UNCHANGED bootstrapState
    /\ UNCHANGED <<schedulerTarget, schedVars, worker, stop, scheduler>>

-----------------------------------------------------------------------------
(* syncScheduler: one action per case of its select *)

AtSelect == scheduler = "running" /\ schedulerTarget = NoTs

\* Pop from the given queue into nextSyncTarget, and let workers see it
PopNext(queue) ==
    /\ nextSyncTarget' = queue[BestBucket(queue)]
    /\ syncQueue' = removeBucket(queue, BestBucket(queue))
    /\ workerChan' = TRUE

\* The outcomes of the loop over activeSyncs, whose iteration order is random:
\* it stops at ts itself, possibly before it meets ts's parent.
RelatedToActiveSync(ts) ==
    IF Parent[ts] \notin activeSyncs THEN {FALSE}
    ELSE IF ts \in activeSyncs THEN BOOLEAN
    ELSE {TRUE}

\* what scheduleIncoming does with a tipset it does not bucket
EnqueueIncoming(ts) ==
    \/ /\ bootstrapState = "Scheduled"
       /\ syncQueue' = Insert(syncQueue, ts)
       /\ UNCHANGED <<nextSyncTarget, workerChan>>
    \/ /\ bootstrapState # "Scheduled"
       /\ nextSyncTarget # NilBucket
       /\ sameChainAs(nextSyncTarget, ts)
       /\ nextSyncTarget' = add(nextSyncTarget, ts)
       /\ UNCHANGED <<syncQueue, workerChan>>
    \/ /\ bootstrapState # "Scheduled"
       /\ nextSyncTarget # NilBucket
       /\ ~ sameChainAs(nextSyncTarget, ts)
       /\ syncQueue' = Insert(syncQueue, ts)
       /\ UNCHANGED <<nextSyncTarget, workerChan>>
    \/ /\ bootstrapState # "Scheduled"
       /\ nextSyncTarget = NilBucket
       /\ PopNext(Insert(syncQueue, ts))

\* Mutant: the state the target was scheduled in is taken for the one it was selected in.
IsBootstrapTargetUntilComplete == bootstrapState \in {"Selected", "Scheduled"}

\* the incoming tipset is the one SetPeerHead selected to bootstrap from
IsBootstrapTarget == bootstrapState = "Selected"

\* case ts := <-incomingTipSets, which also releases the SetPeerHead caller
scheduleIncoming ==
    /\ AtSelect
    /\ incomingTipSets # NoTs
    /\ incomingTipSets' = NoTs
    /\ LET ts == incomingTipSets IN
       \/ /\ IsBootstrapTarget
          /\ bootstrapState' = "Scheduled"
          /\ schedulerTarget' = ts
          /\ UNCHANGED schedVars
       \/ /\ ~ IsBootstrapTarget
          /\ \E related \in RelatedToActiveSync(ts) :
                IF related \/ RelatedToAny(activeSyncTips, ts)
                THEN /\ activeSyncTips' = Insert(activeSyncTips, ts)
                     /\ UNCHANGED <<syncQueue, nextSyncTarget, workerChan>>
                ELSE /\ EnqueueIncoming(ts)
                     /\ UNCHANGED activeSyncTips
          /\ UNCHANGED <<bootstrapState, schedulerTarget, activeSyncs>>
    /\ UNCHANGED <<peerHeads, worker, stop, scheduler, calls>>

\* Mutant: the send is repeated.
sendBootstrapTargetAgain(w) ==
    /\ scheduler = "running"
    /\ schedulerTarget # NoTs
    /\ worker[w].pc = "idle"
    /\ worker' = [worker EXCEPT ![w] = [pc |-> "syncing", ts |-> schedulerTarget,
                                        success |-> FALSE]]
    /\ UNCHANGED <<peerHeads, bootstrapState, incomingTipSets, schedulerTarget, schedVars,
                   stop, scheduler, calls>>

\* the blocking send of the bootstrap tipset meets an idle worker
sendBootstrapTarget(w) ==
    /\ scheduler = "running"
    /\ schedulerTarget # NoTs
    /\ worker[w].pc = "idle"
    /\ worker' = [worker EXCEPT ![w] = [pc |-> "syncing", ts |-> schedulerTarget,
                                        success |-> FALSE]]
    /\ schedulerTarget' = NoTs
    /\ UNCHANGED <<peerHeads, bootstrapState, incomingTipSets, schedVars, stop,
                   scheduler, calls>>

\* the bootstrap state after a result
bootstrapAfter(success) == IF success THEN "Complete" ELSE bootstrapState

\* delete(activeSyncs, res.ts.Key()), whatever the result
activeSyncsAfter(ts, success) == activeSyncs \ {ts}

\* Mutant: the queue is not looked at when a result comes in.
PopIfNoTargetNever == UNCHANGED <<syncQueue, nextSyncTarget, workerChan>>

\* what is left of scheduleProcessResult when no related bucket is kept
PopIfNoTarget ==
    IF nextSyncTarget = NilBucket /\ syncQueue # <<>>
    THEN PopNext(syncQueue)
    ELSE UNCHANGED <<syncQueue, nextSyncTarget, workerChan>>

\* case res := <-syncResults: worker w hands over its result
scheduleProcessResult(w) ==
    /\ AtSelect
    /\ worker[w].pc = "reporting"
    /\ worker' = [worker EXCEPT ![w] = Idle]
    /\ LET ts == worker[w].ts
           success == worker[w].success
       IN /\ bootstrapState' = bootstrapAfter(success)
          /\ activeSyncs' = activeSyncsAfter(ts, success)
          /\ IF RelatedToAny(activeSyncTips, ts)
             THEN LET i == FirstRelated(activeSyncTips, ts)
                      relbucket == activeSyncTips[i]
                  IN /\ activeSyncTips' = removeBucket(activeSyncTips, i)
                     /\ \/ /\ success
                           /\ nextSyncTarget = NilBucket
                           /\ nextSyncTarget' = relbucket
                           /\ workerChan' = TRUE
                           /\ UNCHANGED syncQueue
                        \/ /\ success
                           /\ nextSyncTarget # NilBucket
                           /\ syncQueue' = Append(syncQueue, relbucket)
                           /\ UNCHANGED <<nextSyncTarget, workerChan>>
                        \/ /\ ~ success
                           /\ PopIfNoTarget
             ELSE PopIfNoTarget /\ UNCHANGED activeSyncTips
    /\ UNCHANGED <<peerHeads, incomingTipSets, schedulerTarget, stop, scheduler, calls>>

\* the next target once the current one is sent; its other tips are let go
TakeNextTarget ==
    IF syncQueue # <<>>
    THEN /\ nextSyncTarget' = syncQueue[BestBucket(syncQueue)]
         /\ syncQueue' = removeBucket(syncQueue, BestBucket(syncQueue))
         /\ UNCHANGED workerChan
    ELSE /\ nextSyncTarget' = NilBucket
         /\ workerChan' = FALSE
         /\ UNCHANGED syncQueue

\* case workerChan <- nextSyncTarget.heaviestTipSet(), received by worker w
scheduleWorkSent(w) ==
    /\ AtSelect
    /\ workerChan
    /\ worker[w].pc = "idle"
    /\ LET hts == heaviestTipSet(nextSyncTarget) IN
       /\ worker' = [worker EXCEPT ![w] = [pc |-> "syncing", ts |-> hts,
                                           success |-> FALSE]]
       /\ activeSyncs' = activeSyncs \cup {hts}
    /\ TakeNextTarget
    /\ UNCHANGED <<peerHeads, bootstrapState, incomingTipSets, schedulerTarget,
                   activeSyncTips, stop, scheduler, calls>>

\* case <-stop
schedulerExit ==
    /\ AtSelect
    /\ stop
    /\ scheduler' = "exited"
    /\ UNCHANGED <<peerHeads, bootstrapState, incomingTipSets, schedulerTarget,
                   schedVars, worker, stop, calls>>

-----------------------------------------------------------------------------
\* syncWorker w: doSync returns, with or without an error, and the worker blocks
\* on reporting the result.
syncWorker(w, success) ==
    /\ worker[w].pc = "syncing"
    /\ worker' = [worker EXCEPT ![w].pc = "reporting", ![w].success = success]
    /\ UNCHANGED <<peerHeads, bootstrapState, incomingTipSets, schedulerTarget,
                   schedVars, stop, scheduler, calls>>

Stop ==
    /\ ~ stop
    /\ stop' = TRUE
    /\ UNCHANGED <<peerHeads, bootstrapState, incomingTipSets, schedulerTarget,
                   schedVars, worker, scheduler, calls>>

Next ==
    \/ \E p \in Peers, ts \in TipSets : SetPeerHead(p, ts)
    \/ scheduleIncoming
    \/ \E w \in Workers : sendBootstrapTarget(w)
    \/ \E w \in Workers : scheduleProcessResult(w)
    \/ \E w \in Workers : scheduleWorkSent(w)
    \/ schedulerExit
    \/ \E w \in Workers, success \in BOOLEAN : syncWorker(w, success)
    \/ Stop

Spec == Init /\ [][Next]_vars

(***************************************************************************)
(* Fairness.  A Go select takes some ready case, at random among them, and *)
(* a runnable goroutine runs: a case that stays ready is eventually taken. *)
(* doSync returns, because the requests it makes time out (external).      *)
(* Nothing makes a peer announce a head or a caller stop the manager.      *)
(***************************************************************************)
Fairness ==
    /\ WF_vars(scheduleIncoming)
    /\ WF_vars(\E w \in Workers : sendBootstrapTarget(w))
    /\ WF_vars(\E w \in Workers : scheduleWorkSent(w))
    /\ \A w \in Workers : WF_vars(scheduleProcessResult(w))
    /\ \A w \in Workers : WF_vars(\E success \in BOOLEAN : syncWorker(w, success))

FairSpec == Spec /\ Fairness

-----------------------------------------------------------------------------
(* Properties *)

\* The values the fields of SyncManager take.  The buckets in a bucket set are
\* never empty: heaviestTipSet of a bucket in use is never nil.
TypeOK ==
    /\ peerHeads \in [Peers -> TipSets \cup {NoTs}]
    /\ bootstrapState \in BSStates
    /\ incomingTipSets \in TipSets \cup {NoTs}
    /\ schedulerTarget \in TipSets \cup {NoTs}
    /\ activeSyncs \in SUBSET TipSets
    /\ syncQueue \in Seq(Buckets)
    /\ activeSyncTips \in Seq(Buckets)
    /\ nextSyncTarget \in Buckets \cup {NilBucket}
    /\ workerChan \in BOOLEAN
    /\ worker \in [Workers -> WorkerStates]
    /\ \A w \in Workers : worker[w].pc # "idle" => worker[w].ts \in TipSets
    /\ stop \in BOOLEAN
    /\ scheduler \in {"running", "exited"}
    /\ calls \in 0..MaxCalls

\* The channel the select offers work on is open exactly when there is a bucket
\* to take the work from, so a worker is never handed the nil tipset.
WorkerChanHasTarget == workerChan <=> nextSyncTarget # NilBucket

\* An entry of activeSyncs stands for a sync some worker is still busy with.
\* A left-over entry would bucket every child of that tipset for ever.
ActiveSyncsAreRunning ==
    \A ts \in activeSyncs : \E w \in Workers : worker[w].pc # "idle" /\ worker[w].ts = ts

\* The scheduler's one blocking send, of the bootstrap target, happens while all
\* workers wait for work.  If they could all be blocked on reporting results, the
\* scheduler and the workers would wait for each other.
BootstrapSendFindsWorker ==
    schedulerTarget # NoTs => \A w \in Workers : worker[w].pc = "idle"

\* Once bootstrapping is over, buckets wait in the queue only behind a next target.
\* (A queue without a target would not be looked at until another sync ends.)
QueueHasTarget ==
    bootstrapState = "Complete" /\ syncQueue # <<>> => nextSyncTarget # NilBucket

\* Until the bootstrap target is scheduled there is no work anywhere, and the target
\* is on offer exactly while it is selected: what the scheduler takes for the
\* bootstrap target is the tipset SetPeerHead selected, not a later announcement.
QuietBeforeBootstrap ==
    /\ bootstrapState \in {"Init", "Selected"} =>
        /\ \A w \in Workers : worker[w].pc = "idle"
        /\ schedulerTarget = NoTs
        /\ activeSyncs = {}
        /\ syncQueue = <<>> /\ activeSyncTips = <<>> /\ nextSyncTarget = NilBucket
    /\ bootstrapState = "Init" => incomingTipSets = NoTs
    /\ bootstrapState = "Selected" => incomingTipSets # NoTs

\* What the scheduler keeps stays consistent over every order of announcements, sends and
\* late results: work is offered exactly when there is a target, the queue is never left
\* without one, an active sync has its worker, and the blocking send of the bootstrap
\* target, the first work there is, finds all workers waiting for it.
SchedulerConsistent ==
    /\ WorkerChanHasTarget /\ QueueHasTarget
    /\ ActiveSyncsAreRunning
    /\ QuietBeforeBootstrap /\ BootstrapSendFindsWorker

BootstrapStep ==
    \/ bootstrapState = "Init" /\ bootstrapState' = "Selected"
    \/ bootstrapState = "Selected" /\ bootstrapState' = "Scheduled"
    \/ bootstrapState = "Scheduled" /\ bootstrapState' = "Complete"

\* Bootstrapping only moves forward, one state at a time: no interleaving of
\* SetPeerHead, the scheduler and late results selects a second bootstrap target or
\* takes the node back to bootstrapping.
BootstrapMovesForward == [][BootstrapStep]_bootstrapState

\* After bootstrap, whatever arrived is worked off: the manager comes to rest
\* with an empty queue, no target and all workers idle (or it is stopped).
EventuallyWorkedOff ==
    bootstrapState = "Complete" ~>
        \/ syncQueue = <<>> /\ nextSyncTarget = NilBucket
           /\ \A w \in Workers : worker[w].pc = "idle"
        \/ stop

\* SetPeerHead holds sm.lk while it waits for the scheduler, and returns.
SetPeerHeadReturns == incomingTipSets # NoTs ~> (incomingTipSets = NoTs \/ stop)
=============================================================================
