-------------------------- MODULE SyncManagerProofs --------------------------
(***************************************************************************)
(* Safety of the sync scheduler for every block tree, set of peers and     *)
(* number of workers.                                                      *)
(***************************************************************************)
EXTENDS SyncManager, SetLemmas, SequenceTheorems, TLAPS

\* the time limit of the SMT solver covers the preparation of the next obligations
USE SMTT(60)

-----------------------------------------------------------------------------
(* Facts about buckets *)

\* heaviestTipSet finds a tipset in every bucket that is not empty.
LEMMA FirstHeaviestInDomain ==
    ASSUME NEW tips \in Buckets
    PROVE  FirstHeaviest(tips) \in 1..Len(tips)
<1> DEFINE S == {tips[i] : i \in 1..Len(tips)}
<1>1. tips \in Seq(TipSets) /\ Len(tips) \in Nat \ {0} /\ DOMAIN tips = 1..Len(tips)
  BY EmptySeq DEF Buckets, NilBucket
<1>2. S \in SUBSET TipSets /\ S # {}
  BY <1>1
<1>3. PICK t \in S : \A u \in S : Weight[u] <= Weight[t]
  BY <1>2, HeaviestExists, ZenonT(60)
<1> DEFINE I == {i \in 1..Len(tips) : Weight[tips[i]] = Weight[t]}
<1>4. I \in SUBSET Nat /\ I # {}
  BY <1>1, <1>3
<1>5. PICK i \in I : \A j \in I : i <= j
  BY <1>4, LeastElement, ZenonT(60)
<1>6. \A j \in DOMAIN tips :
        /\ Weight[tips[j]] <= Weight[tips[i]]
        /\ j < i => Weight[tips[j]] < Weight[tips[i]]
  BY <1>1, <1>3, <1>5, TipSetsAssumption
<1> QED
  BY <1>1, <1>5, <1>6, ZenonT(60) DEF FirstHeaviest

\* heaviestTipSet returns a tipset of its bucket.
LEMMA HeaviestIsTipSet ==
    ASSUME NEW b \in Buckets
    PROVE  heaviestTipSet(b) \in TipSets
BY FirstHeaviestInDomain DEF heaviestTipSet, Buckets

\* Heaviest and Pop choose a bucket that the set has.
LEMMA BestBucketInDomain ==
    ASSUME NEW sbs \in Seq(Buckets), sbs # <<>>
    PROVE  BestBucket(sbs) \in 1..Len(sbs)
<1>1. Len(sbs) \in Nat \ {0} /\ DOMAIN sbs = 1..Len(sbs)
  BY EmptySeq
<1>2. \A i \in 1..Len(sbs) : heaviestTipSet(sbs[i]) \in TipSets
  BY <1>1, HeaviestIsTipSet
<1>3. BucketHeads(sbs) \in Seq(TipSets) /\ Len(BucketHeads(sbs)) = Len(sbs)
  BY <1>1, <1>2 DEF BucketHeads
<1>4. BucketHeads(sbs) \in Buckets
  BY <1>1, <1>3 DEF Buckets, NilBucket
<1> QED
  BY <1>3, <1>4, FirstHeaviestInDomain DEF BestBucket

\* removeBucket leaves a set of buckets.
LEMMA RemoveBucketType ==
    ASSUME NEW sbs \in Seq(Buckets), NEW i \in 1..Len(sbs)
    PROVE  removeBucket(sbs, i) \in Seq(Buckets)
<1>1. SubSeq(sbs, 1, i - 1) \in Seq(Buckets)
  BY SubSeqProperties, ElementOfSeq
<1>2. SubSeq(sbs, i + 1, Len(sbs)) \in Seq(Buckets)
  BY SubSeqProperties, ElementOfSeq
<1> QED
  BY <1>1, <1>2, ConcatProperties DEF removeBucket

\* add keeps a bucket a bucket.
LEMMA AddType ==
    ASSUME NEW b \in Buckets, NEW ts \in TipSets
    PROVE  add(b, ts) \in Buckets
BY AppendProperties DEF add, Buckets, NilBucket

\* The bucket that a related tipset is inserted into is one that the set has.
LEMMA FirstRelatedInDomain ==
    ASSUME NEW sbs \in Seq(Buckets), NEW ts \in TipSets, RelatedToAny(sbs, ts)
    PROVE  FirstRelated(sbs, ts) \in 1..Len(sbs)
<1> DEFINE I == {i \in 1..Len(sbs) : sameChainAs(sbs[i], ts)}
<1>1. DOMAIN sbs = 1..Len(sbs) /\ Len(sbs) \in Nat
  OBVIOUS
<1>2. I \in SUBSET Nat /\ I # {}
  BY <1>1 DEF RelatedToAny
<1>3. PICK i \in I : \A j \in I : i <= j
  BY <1>2, LeastElement, ZenonT(60)
<1>4. \A j \in DOMAIN sbs : j < i => ~ sameChainAs(sbs[j], ts)
  BY <1>1, <1>3
<1> QED
  BY <1>1, <1>3, <1>4 DEF FirstRelated

\* Insert leaves a set of buckets that is not empty.
LEMMA InsertType ==
    ASSUME NEW sbs \in Seq(Buckets), NEW ts \in TipSets
    PROVE  Insert(sbs, ts) \in Seq(Buckets) /\ Insert(sbs, ts) # <<>>
<1>1. CASE RelatedToAny(sbs, ts)
  <2> DEFINE i == FirstRelated(sbs, ts)
  <2>1. i \in 1..Len(sbs) /\ sbs[i] \in Buckets
    BY <1>1, FirstRelatedInDomain, ElementOfSeq
  <2>2. add(sbs[i], ts) \in Buckets
    BY <2>1, AddType
  <2>3. Insert(sbs, ts) = [sbs EXCEPT ![i] = add(sbs[i], ts)]
    BY <1>1 DEF Insert
  <2> HIDE DEF i
  <2> QED
    BY <2>1, <2>2, <2>3, ExceptSeq
<1>2. CASE ~ RelatedToAny(sbs, ts)
  <2>1. <<ts>> \in Buckets
    BY DEF Buckets, NilBucket
  <2> QED
    BY <1>2, <2>1, AppendProperties DEF Insert
<1> QED
  BY <1>1, <1>2

-----------------------------------------------------------------------------
(* The inductive invariant *)

Inv ==
    /\ TypeOK
    /\ WorkerChanHasTarget
    /\ ActiveSyncsAreRunning
    /\ BootstrapSendFindsWorker
    /\ QueueHasTarget
    /\ QuietBeforeBootstrap

\* A new SyncManager satisfies Inv.
LEMMA InitInv == Init => Inv
<1> SUFFICES ASSUME Init PROVE Inv
  OBVIOUS
<1>1. TypeOK
  <2>1. worker \in [Workers -> WorkerStates] /\ \A w \in Workers : worker[w].pc = "idle"
    <3>1. Idle \in WorkerStates /\ Idle.pc = "idle"
      BY DEF Idle, WorkerStates
    <3> QED
      BY <3>1 DEF Init
  <2>2. syncQueue \in Seq(Buckets) /\ activeSyncTips \in Seq(Buckets)
    BY EmptySeq DEF Init
  <2>3. calls \in 0..MaxCalls /\ peerHeads \in [Peers -> TipSets \cup {NoTs}]
    BY BoundsAssumption DEF Init
  <2> QED
    BY <2>1, <2>2, <2>3, ZenonT(60) DEF Init, TypeOK, BSStates
<1>2. \A w \in Workers : worker[w].pc = "idle"
  BY DEF Init, Idle
<1> QED
  BY <1>1, <1>2
     DEF Init, Inv, WorkerChanHasTarget, ActiveSyncsAreRunning,
         BootstrapSendFindsWorker, QueueHasTarget, QuietBeforeBootstrap

\* What scheduleProcessResult and scheduleIncoming leave behind when they pop.
LEMMA PopNextType ==
    ASSUME NEW queue \in Seq(Buckets), queue # <<>>, PopNext(queue)
    PROVE  /\ nextSyncTarget' \in Buckets
           /\ syncQueue' \in Seq(Buckets)
           /\ workerChan' = TRUE
BY BestBucketInDomain, RemoveBucketType, ElementOfSeq DEF PopNext

\* A bucket is not the nil pointer that Pop and PopRelated return for an empty set.
LEMMA BucketsNotNil == \A b \in Buckets : b # NilBucket
BY DEF Buckets

\* SetPeerHead keeps Inv, in each bootstrap state.
LEMMA SetPeerHeadInv ==
    ASSUME Inv, NEW p \in Peers, NEW ts \in TipSets, SetPeerHead(p, ts)
    PROVE  Inv'
<1> USE DEF Inv, SetPeerHead, schedVars
<1>1. TypeOK'
  BY BoundsAssumption DEF TypeOK, BSStates, selectSyncTarget
<1>2. QuietBeforeBootstrap'
  BY TipSetsAssumption DEF TypeOK, BSStates, QuietBeforeBootstrap, selectSyncTarget
<1>3. QueueHasTarget'
  BY DEF QueueHasTarget
<1>4. (WorkerChanHasTarget /\ ActiveSyncsAreRunning /\ BootstrapSendFindsWorker)'
  BY DEF WorkerChanHasTarget, ActiveSyncsAreRunning, BootstrapSendFindsWorker
<1> QED
  BY <1>1, <1>2, <1>3, <1>4

\* scheduleIncoming keeps Inv: a related target joins activeSyncTips, another one the queue.
LEMMA ScheduleIncomingInv == Inv /\ scheduleIncoming => Inv'
<1> SUFFICES ASSUME Inv, scheduleIncoming PROVE Inv'
  OBVIOUS
<1> DEFINE ts == incomingTipSets
<1>0. /\ ts \in TipSets /\ incomingTipSets' = NoTs /\ schedulerTarget = NoTs
      /\ UNCHANGED <<peerHeads, worker, stop, scheduler, calls>>
  BY DEF Inv, TypeOK, scheduleIncoming, AtSelect
<1>b. ~ IsBootstrapTarget => bootstrapState \in {"Scheduled", "Complete"}
  BY <1>0, TipSetsAssumption
     DEF Inv, TypeOK, BSStates, QuietBeforeBootstrap, IsBootstrapTarget
<1>1. CASE /\ IsBootstrapTarget
           /\ bootstrapState' = "Scheduled"
           /\ schedulerTarget' = ts
           /\ UNCHANGED schedVars
  BY <1>0, <1>1
     DEF Inv, TypeOK, WorkerChanHasTarget, ActiveSyncsAreRunning, BSStates, schedVars,
         BootstrapSendFindsWorker, QueueHasTarget, QuietBeforeBootstrap, IsBootstrapTarget
<1>2. CASE /\ ~ IsBootstrapTarget
           /\ activeSyncTips' = Insert(activeSyncTips, ts)
           /\ UNCHANGED <<syncQueue, nextSyncTarget, workerChan>>
           /\ UNCHANGED <<bootstrapState, schedulerTarget, activeSyncs>>
  <2>1. activeSyncTips' \in Seq(Buckets)
    BY <1>0, <1>2, InsertType DEF Inv, TypeOK
  <2> QED
    BY <1>0, <1>b, <1>2, <2>1
       DEF Inv, TypeOK, WorkerChanHasTarget, ActiveSyncsAreRunning,
           BootstrapSendFindsWorker, QueueHasTarget, QuietBeforeBootstrap
<1>3. CASE /\ ~ IsBootstrapTarget
           /\ EnqueueIncoming(ts)
           /\ UNCHANGED activeSyncTips
           /\ UNCHANGED <<bootstrapState, schedulerTarget, activeSyncs>>
  <2>1. Insert(syncQueue, ts) \in Seq(Buckets) /\ Insert(syncQueue, ts) # <<>>
    BY <1>0, InsertType DEF Inv, TypeOK
  <2>2. nextSyncTarget # NilBucket => add(nextSyncTarget, ts) \in Buckets
    BY <1>0, AddType DEF Inv, TypeOK
  <2>3. PopNext(Insert(syncQueue, ts)) => /\ nextSyncTarget' \in Buckets
                                          /\ syncQueue' \in Seq(Buckets)
                                          /\ workerChan' = TRUE
    BY <2>1, PopNextType, ZenonT(60)
  <2> HIDE DEF ts
  <2>4. /\ nextSyncTarget' \in Buckets \cup {NilBucket}
        /\ syncQueue' \in Seq(Buckets)
        /\ workerChan' \in BOOLEAN
        /\ workerChan' <=> nextSyncTarget' # NilBucket
        /\ bootstrapState # "Scheduled" => nextSyncTarget' # NilBucket
    <3>1. /\ nextSyncTarget \in Buckets \cup {NilBucket}
          /\ syncQueue \in Seq(Buckets)
          /\ workerChan \in BOOLEAN
          /\ workerChan <=> nextSyncTarget # NilBucket
      BY DEF Inv, TypeOK, WorkerChanHasTarget
    <3>2. CASE bootstrapState = "Scheduled"
      BY <1>3, <2>1, <3>1, <3>2 DEF EnqueueIncoming
    <3>3. CASE bootstrapState # "Scheduled" /\ nextSyncTarget # NilBucket
      BY <1>3, <2>1, <2>2, <3>1, <3>3, BucketsNotNil DEF EnqueueIncoming
    <3>4. CASE bootstrapState # "Scheduled" /\ nextSyncTarget = NilBucket
      BY <1>3, <2>3, <3>4, BucketsNotNil, ZenonT(60) DEF EnqueueIncoming
    <3> QED
      BY <3>2, <3>3, <3>4
  <2> QED
    BY <1>0, <1>b, <1>3, <2>4
       DEF Inv, TypeOK, WorkerChanHasTarget, ActiveSyncsAreRunning,
           BootstrapSendFindsWorker, QueueHasTarget, QuietBeforeBootstrap
<1> QED
  BY <1>1, <1>2, <1>3 DEF scheduleIncoming

\* Handing the bootstrap target to a worker keeps Inv.
LEMMA SendBootstrapTargetInv ==
    ASSUME Inv, NEW w \in Workers, sendBootstrapTarget(w)
    PROVE  Inv'
<1>1. /\ schedulerTarget \in TipSets /\ schedulerTarget' = NoTs
      /\ worker' = [worker EXCEPT ![w] = [pc |-> "syncing", ts |-> schedulerTarget,
                                          success |-> FALSE]]
      /\ UNCHANGED <<peerHeads, bootstrapState, incomingTipSets, activeSyncs, syncQueue,
                     activeSyncTips, nextSyncTarget, workerChan, stop, scheduler, calls>>
  BY DEF Inv, TypeOK, sendBootstrapTarget, schedVars
<1>2. worker' \in [Workers -> WorkerStates]
      /\ \A v \in Workers : worker'[v].pc # "idle" => worker'[v].ts \in TipSets
  BY <1>1 DEF Inv, TypeOK, WorkerStates
<1>3. bootstrapState \notin {"Init", "Selected"}
  BY <1>1, TipSetsAssumption DEF Inv, QuietBeforeBootstrap
<1>4. ActiveSyncsAreRunning'
  <2>1. \A v \in Workers : worker[v].pc = "idle"
    BY <1>1, TipSetsAssumption DEF Inv, BootstrapSendFindsWorker
  <2>2. activeSyncs = {}
    BY <2>1 DEF Inv, ActiveSyncsAreRunning
  <2> QED
    BY <1>1, <2>2 DEF ActiveSyncsAreRunning
<1> QED
  BY <1>1, <1>2, <1>3, <1>4
     DEF Inv, TypeOK, WorkerChanHasTarget, BootstrapSendFindsWorker, QueueHasTarget,
         QuietBeforeBootstrap

\* PopIfNoTarget leaves no bucket waiting without a target.
LEMMA PopIfNoTargetType ==
    ASSUME Inv, PopIfNoTarget
    PROVE  /\ nextSyncTarget' \in Buckets \cup {NilBucket}
           /\ syncQueue' \in Seq(Buckets)
           /\ workerChan' \in BOOLEAN
           /\ workerChan' <=> nextSyncTarget' # NilBucket
           /\ syncQueue' # <<>> => nextSyncTarget' # NilBucket
<1>0. /\ nextSyncTarget \in Buckets \cup {NilBucket}
      /\ syncQueue \in Seq(Buckets)
      /\ workerChan \in BOOLEAN
      /\ workerChan <=> nextSyncTarget # NilBucket
  BY DEF Inv, TypeOK, WorkerChanHasTarget
<1>1. CASE nextSyncTarget = NilBucket /\ syncQueue # <<>>
  <2>1. PopNext(syncQueue)
    BY <1>1 DEF PopIfNoTarget
  <2> QED
    BY <1>0, <1>1, <2>1, PopNextType, BucketsNotNil, ZenonT(60)
<1>2. CASE ~ (nextSyncTarget = NilBucket /\ syncQueue # <<>>)
  BY <1>0, <1>2 DEF PopIfNoTarget
<1> QED
  BY <1>1, <1>2

\* scheduleProcessResult keeps Inv, for a sync that succeeded and for one that failed.
LEMMA ScheduleProcessResultInv ==
    ASSUME Inv, NEW w \in Workers, scheduleProcessResult(w)
    PROVE  Inv'
<1> DEFINE ts == worker[w].ts
           success == worker[w].success
           i == FirstRelated(activeSyncTips, ts)
<1>1. /\ ts \in TipSets /\ success \in BOOLEAN
      /\ schedulerTarget = NoTs /\ schedulerTarget' = NoTs
      /\ worker' = [worker EXCEPT ![w] = Idle]
      /\ activeSyncs' = activeSyncs \ {ts}
      /\ bootstrapState' = IF success THEN "Complete" ELSE bootstrapState
      /\ UNCHANGED <<peerHeads, incomingTipSets, stop, scheduler, calls>>
  BY DEF Inv, TypeOK, WorkerStates, scheduleProcessResult, AtSelect, bootstrapAfter,
         activeSyncsAfter
<1>2. bootstrapState \in {"Scheduled", "Complete"}
  BY DEF Inv, TypeOK, BSStates, QuietBeforeBootstrap, scheduleProcessResult
<1>3. /\ worker' \in [Workers -> WorkerStates]
      /\ \A v \in Workers : worker'[v].pc # "idle" => worker'[v].ts \in TipSets
      /\ \A v \in Workers : v # w => worker'[v] = worker[v]
  <2>1. Idle \in WorkerStates /\ Idle.pc = "idle"
    BY DEF Idle, WorkerStates
  <2> QED
    BY <1>1, <2>1 DEF Inv, TypeOK
<1>4. ActiveSyncsAreRunning'
  <2> SUFFICES ASSUME NEW t \in activeSyncs'
               PROVE  \E v \in Workers : worker'[v].pc # "idle" /\ worker'[v].ts = t
    BY DEF ActiveSyncsAreRunning
  <2>1. t \in activeSyncs /\ t # ts
    BY <1>1
  <2>2. PICK v \in Workers : worker[v].pc # "idle" /\ worker[v].ts = t
    BY <2>1 DEF Inv, ActiveSyncsAreRunning
  <2> QED
    BY <1>3, <2>1, <2>2
<1>5. /\ activeSyncTips' \in Seq(Buckets)
      /\ nextSyncTarget' \in Buckets \cup {NilBucket}
      /\ syncQueue' \in Seq(Buckets)
      /\ workerChan' \in BOOLEAN
      /\ workerChan' <=> nextSyncTarget' # NilBucket
      /\ bootstrapState' = "Complete" /\ syncQueue' # <<>> => nextSyncTarget' # NilBucket
  <2>0. /\ nextSyncTarget \in Buckets \cup {NilBucket}
        /\ syncQueue \in Seq(Buckets) /\ activeSyncTips \in Seq(Buckets)
        /\ workerChan \in BOOLEAN
        /\ workerChan <=> nextSyncTarget # NilBucket
    BY DEF Inv, TypeOK, WorkerChanHasTarget
  <2>1. CASE RelatedToAny(activeSyncTips, ts)
    <3>1. i \in 1..Len(activeSyncTips) /\ activeSyncTips[i] \in Buckets
      BY <1>1, <2>0, <2>1, FirstRelatedInDomain, ElementOfSeq
    <3>2. activeSyncTips' = removeBucket(activeSyncTips, i)
      BY <2>1 DEF scheduleProcessResult
    <3>3. activeSyncTips' \in Seq(Buckets)
      BY <2>0, <3>1, <3>2, RemoveBucketType
    <3>4. CASE success /\ nextSyncTarget = NilBucket
      <4>1. nextSyncTarget' = activeSyncTips[i] /\ workerChan' = TRUE /\ UNCHANGED syncQueue
        BY <2>1, <3>4 DEF scheduleProcessResult
      <4> QED
        BY <2>0, <3>1, <3>3, <4>1, BucketsNotNil
    <3>5. CASE success /\ nextSyncTarget # NilBucket
      <4>1. /\ syncQueue' = Append(syncQueue, activeSyncTips[i])
            /\ UNCHANGED <<nextSyncTarget, workerChan>>
        BY <2>1, <3>5 DEF scheduleProcessResult
      <4> QED
        BY <2>0, <3>1, <3>3, <3>5, <4>1, AppendProperties
    <3>6. CASE ~ success
      <4>1. PopIfNoTarget
        BY <2>1, <3>6 DEF scheduleProcessResult
      <4> QED
        BY <3>3, <4>1, PopIfNoTargetType
    <3> QED
      BY <3>4, <3>5, <3>6
  <2>2. CASE ~ RelatedToAny(activeSyncTips, ts)
    <3>1. PopIfNoTarget /\ UNCHANGED activeSyncTips
      BY <2>2 DEF scheduleProcessResult
    <3> QED
      BY <2>0, <3>1, PopIfNoTargetType
  <2> QED
    BY <2>1, <2>2
<1> QED
  BY <1>1, <1>2, <1>3, <1>4, <1>5
     DEF Inv, TypeOK, BSStates, WorkerChanHasTarget, BootstrapSendFindsWorker,
         QueueHasTarget, QuietBeforeBootstrap

\* Handing the next target to a worker keeps Inv: popSyncTarget moves a bucket, not a tipset.
LEMMA ScheduleWorkSentInv ==
    ASSUME Inv, NEW w \in Workers, scheduleWorkSent(w)
    PROVE  Inv'
<1> DEFINE hts == heaviestTipSet(nextSyncTarget)
<1>1. /\ schedulerTarget = NoTs /\ schedulerTarget' = NoTs
      /\ workerChan /\ worker[w].pc = "idle"
      /\ worker' = [worker EXCEPT ![w] = [pc |-> "syncing", ts |-> hts, success |-> FALSE]]
      /\ activeSyncs' = activeSyncs \cup {hts}
      /\ UNCHANGED <<peerHeads, bootstrapState, incomingTipSets, activeSyncTips, stop,
                     scheduler, calls>>
  BY DEF scheduleWorkSent, AtSelect
<1>2. nextSyncTarget # NilBucket
  BY <1>1 DEF Inv, WorkerChanHasTarget
<1>3. hts \in TipSets
  BY <1>2, HeaviestIsTipSet DEF Inv, TypeOK
<1>4. bootstrapState \notin {"Init", "Selected"}
  BY <1>2 DEF Inv, QuietBeforeBootstrap
<1> HIDE DEF hts
<1>5. /\ worker' \in [Workers -> WorkerStates]
      /\ \A v \in Workers : worker'[v].pc # "idle" => worker'[v].ts \in TipSets
      /\ \A v \in Workers : v # w => worker'[v] = worker[v]
      /\ worker'[w].pc = "syncing" /\ worker'[w].ts = hts
  BY <1>1, <1>3 DEF Inv, TypeOK, WorkerStates
<1>6. ActiveSyncsAreRunning'
  <2> SUFFICES ASSUME NEW t \in activeSyncs'
               PROVE  \E v \in Workers : worker'[v].pc # "idle" /\ worker'[v].ts = t
    BY DEF ActiveSyncsAreRunning
  <2>1. CASE t = hts
    BY <1>5, <2>1
  <2>2. CASE t \in activeSyncs
    <3>1. PICK v \in Workers : worker[v].pc # "idle" /\ worker[v].ts = t
      BY <2>2 DEF Inv, ActiveSyncsAreRunning
    <3> QED
      BY <1>1, <1>5, <3>1
  <2> QED
    BY <1>1, <2>1, <2>2
<1>7. /\ nextSyncTarget' \in Buckets \cup {NilBucket}
      /\ syncQueue' \in Seq(Buckets)
      /\ workerChan' \in BOOLEAN
      /\ workerChan' <=> nextSyncTarget' # NilBucket
      /\ syncQueue' # <<>> => nextSyncTarget' # NilBucket
  <2>0. syncQueue \in Seq(Buckets)
    BY DEF Inv, TypeOK
  <2>1. CASE syncQueue # <<>>
    <3>1. PopNext(syncQueue)
      BY <1>1, <2>1 DEF scheduleWorkSent, TakeNextTarget, PopNext
    <3> QED
      BY <2>0, <2>1, <3>1, PopNextType, BucketsNotNil, ZenonT(60)
  <2>2. CASE syncQueue = <<>>
    BY <2>0, <2>2, ZenonT(60) DEF scheduleWorkSent, TakeNextTarget
  <2> QED
    BY <2>1, <2>2
<1> QED
  BY <1>1, <1>3, <1>4, <1>5, <1>6, <1>7
     DEF Inv, TypeOK, WorkerChanHasTarget, BootstrapSendFindsWorker, QueueHasTarget,
         QuietBeforeBootstrap

\* A worker that finishes a sync keeps Inv.
LEMMA SyncWorkerInv ==
    ASSUME Inv, NEW w \in Workers, NEW success \in BOOLEAN, syncWorker(w, success)
    PROVE  Inv'
<1>1. /\ worker[w].pc = "syncing"
      /\ worker' = [worker EXCEPT ![w].pc = "reporting", ![w].success = success]
      /\ UNCHANGED <<peerHeads, bootstrapState, incomingTipSets, schedulerTarget,
                     activeSyncs, syncQueue, activeSyncTips, nextSyncTarget, workerChan,
                     stop, scheduler, calls>>
  BY DEF syncWorker, schedVars
<1>2. /\ worker' \in [Workers -> WorkerStates]
      /\ \A v \in Workers : worker'[v].ts = worker[v].ts
      /\ \A v \in Workers : worker'[v].pc = "idle" <=> worker[v].pc = "idle"
  BY <1>1, ZenonT(60) DEF Inv, TypeOK, WorkerStates
<1> QED
  BY <1>1, <1>2
     DEF Inv, TypeOK, WorkerChanHasTarget, ActiveSyncsAreRunning,
         BootstrapSendFindsWorker, QueueHasTarget, QuietBeforeBootstrap

\* No step of the callers, the scheduler or the workers leaves the invariant.
LEMMA NextInv == Inv /\ [Next]_vars => Inv'
<1> SUFFICES ASSUME Inv, [Next]_vars PROVE Inv'
  OBVIOUS
<1>1. CASE schedulerExit \/ Stop
  <2>1. stop' \in BOOLEAN /\ scheduler' \in {"running", "exited"}
    BY <1>1, ZenonT(60) DEF schedulerExit, Stop, Inv, TypeOK
  <2>2. UNCHANGED <<peerHeads, bootstrapState, incomingTipSets, schedulerTarget,
                    activeSyncs, syncQueue, activeSyncTips, nextSyncTarget, workerChan,
                    worker, calls>>
    BY <1>1 DEF schedulerExit, Stop, schedVars
  <2> QED
    BY <2>1, <2>2
       DEF Inv, TypeOK, WorkerChanHasTarget, ActiveSyncsAreRunning,
           BootstrapSendFindsWorker, QueueHasTarget, QuietBeforeBootstrap
<1>2. CASE UNCHANGED vars
  BY <1>2
     DEF vars, schedVars, Inv, TypeOK, WorkerChanHasTarget, ActiveSyncsAreRunning,
         BootstrapSendFindsWorker, QueueHasTarget, QuietBeforeBootstrap
<1> QED
  BY <1>1, <1>2, SetPeerHeadInv, ScheduleIncomingInv, SendBootstrapTargetInv,
     ScheduleProcessResultInv, ScheduleWorkSentInv, SyncWorkerInv
     DEF Next

-----------------------------------------------------------------------------
(* Theorems *)

\* The scheduler's fields keep their types; in particular no bucket is ever empty.
THEOREM TypeCorrect == Spec => []TypeOK
BY InitInv, NextInv, PTL DEF Spec, Inv

\* The select never offers the nil tipset to a worker.
THEOREM NoNilTarget == Spec => []WorkerChanHasTarget
BY InitInv, NextInv, PTL DEF Spec, Inv

\* activeSyncs never holds a tipset that no worker is busy with.
THEOREM NoStaleActiveSync == Spec => []ActiveSyncsAreRunning
BY InitInv, NextInv, PTL DEF Spec, Inv

\* The scheduler's blocking send of the bootstrap target cannot deadlock with the workers.
THEOREM BootstrapSendSafe == Spec => []BootstrapSendFindsWorker
BY InitInv, NextInv, PTL DEF Spec, Inv

\* After bootstrap no bucket waits in the queue while there is no next target.
THEOREM QueueNeverForgotten == Spec => []QueueHasTarget
BY InitInv, NextInv, PTL DEF Spec, Inv

\* Nothing is queued or active until the selected bootstrap target is scheduled.
THEOREM QuietUntilBootstrap == Spec => []QuietBeforeBootstrap
BY InitInv, NextInv, PTL DEF Spec, Inv

\* The scheduler's bookkeeping is consistent in every reachable state.
THEOREM SchedulerAlwaysConsistent == Spec => []SchedulerConsistent
<1>1. Inv => SchedulerConsistent
  BY DEF Inv, SchedulerConsistent
<1> QED
  BY <1>1, InitInv, NextInv, PTL DEF Spec

\* The bootstrap state goes through Init, Selected, Scheduled, Complete and never back.
THEOREM BootstrapForward == Spec => BootstrapMovesForward
<1>1. Inv /\ [Next]_vars => [BootstrapStep]_bootstrapState
  <2> SUFFICES ASSUME Inv, [Next]_vars, bootstrapState' # bootstrapState PROVE BootstrapStep
    OBVIOUS
  <2>1. CASE \E p \in Peers, ts \in TipSets : SetPeerHead(p, ts)
    BY <2>1 DEF SetPeerHead, BootstrapStep
  <2>2. CASE scheduleIncoming
    BY <2>2 DEF scheduleIncoming, IsBootstrapTarget, BootstrapStep
  <2>3. ASSUME NEW w \in Workers, scheduleProcessResult(w)
        PROVE  BootstrapStep
    <3>1. bootstrapState' = "Complete" /\ worker[w].pc # "idle"
      BY <2>3 DEF scheduleProcessResult, bootstrapAfter
    <3> QED
      BY <3>1 DEF Inv, TypeOK, BSStates, QuietBeforeBootstrap, BootstrapStep
  <2> QED
    BY <2>1, <2>2, <2>3, ZenonT(60)
       DEF Next, vars, sendBootstrapTarget, scheduleWorkSent, schedulerExit, syncWorker, Stop
<1> QED
  BY <1>1, InitInv, NextInv, PTL DEF Spec, BootstrapMovesForward
=============================================================================
