------------------------------ MODULE ChainStore ------------------------------
(***************************************************************************)
(* The head of the chain (chain/store/store.go, weight.go): sync workers   *)
(* put tipsets, the heaviest becomes the head under heaviestLk, the change *)
(* goes through reorgCh to reorgWorker, which works out the tipsets that   *)
(* are reverted and applied and calls its notifees one after the other:    *)
(* hcnf, which publishes to subscribers under pubLk, and a callback        *)
(* registered with SubscribeHeadChanges.                                   *)
(*                                                                         *)
(* A tipset is a set of blocks with the same parents and height.  Blocks   *)
(* are stored before they are put; loading a stored tipset does not fail.  *)
(***************************************************************************)
EXTENDS Integers, FiniteSets, FiniteSetsExt, Functions, Sequences

CONSTANTS
    Blocks, Genesis,
    BlockParents,   \* BlockParents[b]: the parent tipset, {} for Genesis
    Height, Miner, Ticket, ParentWeight, WinCount,  \* of a block
    Log2P,          \* log2P of Weight, from the power actor
    WRatioNum, WRatioDen, BlocksPerEpoch,
    Syncs,          \* goroutines that put tipsets
    ReorgCap,       \* capacity of reorgCh (32)
    MaxSetHeads,    \* bound: calls of SetHead explored
    MaxCrashes      \* bound: crashes explored

ASSUME BlocksAssumption ==
    Genesis \in Blocks /\ Height \in [Blocks -> Nat] /\ Ticket \in [Blocks -> Nat]
ASSUME BoundsAssumption == ReorgCap \in Nat \ {0} /\ MaxSetHeads \in Nat /\ MaxCrashes \in Nat

VARIABLES
    tipsets,        \* the tipset tracker: the blocks of an epoch in order of insertion
    heaviest,       \* cs.heaviest
    headKey,        \* the head in the datastore
    reorgCh,        \* queued reorgs <<old, new>>
    sync,           \* what each goroutine does: [pc, ts, set]
    reorgWorker,    \* the change being notified: [old, new, next]
    view,           \* the head as the registered callback knows it
    sub,            \* SubHeadChanges: "none", "locked" (holds pubLk), "on"
    subView,        \* the subscriber's head
    offered,        \* history: the weight of the heaviest tipset weighed
    setHeads, crashes

headVars == <<heaviest, headKey>>
subVars == <<sub, subView>>
bounds == <<setHeads, crashes>>
vars == <<tipsets, headVars, reorgCh, sync, reorgWorker, view, subVars, offered, bounds>>

NoTs == {}
Heights == {Height[b] : b \in Blocks}
IsTipSet(T) ==
    T # {} /\ \A b, c \in T : BlockParents[b] = BlockParents[c] /\ Height[b] = Height[c]
TipSets == {T \in SUBSET Blocks : IsTipSet(T)}

Parents(ts) == BlockParents[CHOOSE b \in ts : TRUE]
HeightOf(ts) == Height[CHOOSE b \in ts : TRUE]
\* NewTipSet sorts its blocks by ticket
FirstBlock(ts) == CHOOSE b \in ts : \A c \in ts : Ticket[b] <= Ticket[c]

\* ts and its ancestors
Chain[ts \in TipSets] == {ts} \cup (IF Parents(ts) = {} THEN {} ELSE Chain[Parents(ts)])

Weight(ts) ==
    ParentWeight[FirstBlock(ts)] + Log2P * 256
        + (Log2P * WRatioNum * 256 * MapThenSumSet(LAMBDA b : WinCount[b], ts))
              \div (BlocksPerEpoch * WRatioDen)

\* stored blocks have stored parents, and a block's epoch is after its parents'
ASSUME TreeAssumption ==
    /\ BlockParents[Genesis] = {} /\ Height[Genesis] = 0
    /\ \A b \in Blocks \ {Genesis} :
           BlockParents[b] \in TipSets /\ HeightOf(BlockParents[b]) < Height[b]

ASSUME WeightAssumption == \A ts \in TipSets : Weight(ts) \in Nat

Idle == [pc |-> "idle", ts |-> NoTs, set |-> FALSE]
Waiting == [old |-> NoTs, new |-> NoTs, next |-> "select"]

Init ==
    /\ tipsets = [h \in Heights |-> <<>>]
    /\ heaviest = {Genesis} /\ headKey = {Genesis}
    /\ reorgCh = <<>>
    /\ sync = [s \in Syncs |-> Idle]
    /\ reorgWorker = Waiting
    /\ view = heaviest
    /\ sub = "none" /\ subView = NoTs
    /\ offered = 0
    /\ setHeads = 0 /\ crashes = 0

-----------------------------------------------------------------------------
(* Putting tipsets *)

tracked == UNION {Range(tipsets[h]) : h \in Heights}

\* a block that ValidateTipSet has validated
AddToTipSetTracker(b) ==
    /\ b # Genesis
    /\ b \notin Range(tipsets[Height[b]])
    /\ BlockParents[b] \subseteq tracked \cup UNION Chain[heaviest]
    /\ tipsets' = [tipsets EXCEPT ![Height[b]] = Append(@, b)]
    /\ UNCHANGED <<headVars, reorgCh, sync, reorgWorker, view, subVars, offered, bounds>>

\* blocks of the tracker that go with b; of several from one miner the first
expandTipset(b) ==
    LET tsets == tipsets[Height[b]]
        joins(i) == BlockParents[tsets[i]] = BlockParents[b] /\ Miner[tsets[i]] # Miner[b]
    IN  {b} \cup {tsets[i] : i \in {i \in DOMAIN tsets :
            joins(i) /\ \A j \in 1 .. i - 1 : joins(j) => Miner[tsets[j]] # Miner[tsets[i]]}}

\* the end of a sync of ts, all of whose blocks have been validated
PutTipSet(s, ts) ==
    /\ sync[s] = Idle
    /\ ts \subseteq tracked
    /\ sync' = [sync EXCEPT ![s] = [pc |-> "weigh", ts |-> expandTipset(FirstBlock(ts)), set |-> FALSE]]
    /\ UNCHANGED <<tipsets, headVars, reorgCh, reorgWorker, view, subVars, offered, bounds>>

heaviestLkFree == \A s \in Syncs : sync[s].pc \notin {"send", "sent"}

IsHeavier(ts) == Weight(ts) > Weight(heaviest)

\* Mutant: the weights are compared without heaviestLk.
MaybeTakeHeavierUnlocked(s) ==
    /\ sync[s].pc = "weigh"
    /\ offered' = Max({offered, Weight(sync[s].ts)})
    /\ sync' = [sync EXCEPT ![s] =
                   IF IsHeavier(sync[s].ts) THEN [@ EXCEPT !.pc = "send"] ELSE Idle]
    /\ UNCHANGED <<tipsets, headVars, reorgCh, reorgWorker, view, subVars, bounds>>

MaybeTakeHeavierTipSet(s) ==
    /\ sync[s].pc = "weigh" /\ heaviestLkFree
    /\ offered' = Max({offered, Weight(sync[s].ts)})
    /\ sync' = [sync EXCEPT ![s] =
                   IF IsHeavier(sync[s].ts) THEN [@ EXCEPT !.pc = "send"] ELSE Idle]
    /\ UNCHANGED <<tipsets, headVars, reorgCh, reorgWorker, view, subVars, bounds>>

\* a repair by hand: any stored tipset becomes the head
SetHead(s, ts) ==
    /\ sync[s] = Idle /\ heaviestLkFree
    /\ setHeads < MaxSetHeads
    /\ ts \subseteq tracked \cup UNION Chain[heaviest]
    /\ setHeads' = setHeads + 1
    /\ sync' = [sync EXCEPT ![s] = [pc |-> "send", ts |-> ts, set |-> TRUE]]
    /\ offered' = 0
    /\ UNCHANGED <<tipsets, headVars, reorgCh, reorgWorker, view, subVars, crashes>>

\* Mutant: the old head is read back from the datastore.
sendReorgStored(s) ==
    /\ sync[s].pc = "send"
    /\ Len(reorgCh) < ReorgCap
    /\ reorgCh' = Append(reorgCh, <<headKey, sync[s].ts>>)
    /\ sync' = [sync EXCEPT ![s].pc = "sent"]
    /\ UNCHANGED <<tipsets, headVars, reorgWorker, view, subVars, offered, bounds>>

\* the send on reorgCh, with heaviestLk held; it blocks while the channel is full
sendReorg(s) ==
    /\ sync[s].pc = "send"
    /\ Len(reorgCh) < ReorgCap
    /\ reorgCh' = Append(reorgCh, <<heaviest, sync[s].ts>>)
    /\ sync' = [sync EXCEPT ![s].pc = "sent"]
    /\ UNCHANGED <<tipsets, headVars, reorgWorker, view, subVars, offered, bounds>>

\* the rest of takeHeaviestTipSet; a failure of writeHead is only logged
setHeaviest(s) ==
    /\ sync[s].pc = "sent"
    /\ heaviest' = sync[s].ts
    /\ headKey' \in {headKey, sync[s].ts}
    /\ sync' = [sync EXCEPT ![s] = Idle]
    /\ UNCHANGED <<tipsets, reorgCh, reorgWorker, view, subVars, offered, bounds>>

-----------------------------------------------------------------------------
(* Notification *)

\* Mutant: with the comparison turned round, tipsets above the common ancestor are
\* passed over.
ReorgOpsTurned(a, b) ==
    LET ops[left \in TipSets, right \in TipSets] ==
            IF left = right \/ Genesis \in left \cup right THEN <<<<>>, <<>>>>
            ELSE IF HeightOf(left) < HeightOf(right)
                 THEN LET r == ops[Parents(left), right] IN <<<<left>> \o r[1], r[2]>>
                 ELSE LET r == ops[left, Parents(right)] IN <<r[1], <<right>> \o r[2]>>
    IN  ops[a, b]

\* the tipsets left and entered on the way from a to b, both from the top down
reorgOps[p \in TipSets \X TipSets] ==
    LET left == p[1]
        right == p[2]
    IN  IF left = right THEN <<<<>>, <<>>>>
        ELSE IF HeightOf(left) > HeightOf(right)
             THEN LET r == reorgOps[<<Parents(left), right>>] IN <<<<left>> \o r[1], r[2]>>
             ELSE LET r == reorgOps[<<left, Parents(right)>>] IN <<r[1], <<right>> \o r[2]>>
ReorgOps(a, b) == reorgOps[<<a, b>>]

revert == ReorgOps(reorgWorker.old, reorgWorker.new)[1]
\* Mutant: the list is not reversed.
applyUnreversed == ReorgOps(reorgWorker.old, reorgWorker.new)[2]
apply ==
    LET ops == ReorgOps(reorgWorker.old, reorgWorker.new)[2]
    IN  [i \in 1 .. Len(ops) |-> ops[Len(ops) - i + 1]]

takeReorg ==
    /\ reorgWorker.next = "select"
    /\ reorgCh # <<>>
    /\ reorgWorker' = [old |-> Head(reorgCh)[1], new |-> Head(reorgCh)[2], next |-> "hcnf"]
    /\ reorgCh' = Tail(reorgCh)
    /\ UNCHANGED <<tipsets, headVars, sync, view, subVars, offered, bounds>>

pubLkFree == sub # "locked"

\* the tipset a follower is at after the change: the last one applied, or the parent
\* of the last one reverted
headAfter(at) ==
    IF apply # <<>> THEN apply[Len(apply)]
    ELSE IF revert # <<>> THEN Parents(revert[Len(revert)])
    ELSE at

hcnf ==
    /\ reorgWorker.next = "hcnf" /\ pubLkFree
    /\ subView' = IF sub = "on" THEN headAfter(subView) ELSE subView
    /\ reorgWorker' = [reorgWorker EXCEPT !.next = "callback"]
    /\ UNCHANGED <<tipsets, headVars, reorgCh, sync, view, sub, offered, bounds>>

callback ==
    /\ reorgWorker.next = "callback"
    /\ view' = headAfter(view)
    /\ reorgWorker' = Waiting
    /\ UNCHANGED <<tipsets, headVars, reorgCh, sync, subVars, offered, bounds>>

\* SubHeadChanges: subscribe, then read the head, both with pubLk held
SubHeadChanges ==
    /\ sub = "none" /\ pubLkFree
    /\ sub' = "locked"
    /\ UNCHANGED <<tipsets, headVars, reorgCh, sync, reorgWorker, view, subView, offered, bounds>>

subCurrent ==
    /\ sub = "locked" /\ heaviestLkFree
    /\ sub' = "on"
    /\ subView' = heaviest
    /\ UNCHANGED <<tipsets, headVars, reorgCh, sync, reorgWorker, view, offered, bounds>>

\* a crash, and Load on the next start
Crash ==
    /\ crashes < MaxCrashes
    /\ crashes' = crashes + 1
    /\ tipsets' = [h \in Heights |-> <<>>] /\ reorgCh' = <<>> /\ offered' = 0
    /\ heaviest' = headKey /\ headKey' = headKey
    /\ sync' = [s \in Syncs |-> Idle]
    /\ reorgWorker' = Waiting
    /\ view' = headKey
    /\ sub' = "none" /\ subView' = NoTs
    /\ setHeads' = setHeads

Next ==
    \/ \E b \in Blocks : AddToTipSetTracker(b)
    \/ \E s \in Syncs, ts \in TipSets : PutTipSet(s, ts) \/ SetHead(s, ts)
    \/ \E s \in Syncs : MaybeTakeHeavierTipSet(s) \/ sendReorg(s) \/ setHeaviest(s)
    \/ takeReorg \/ hcnf \/ callback
    \/ SubHeadChanges \/ subCurrent
    \/ Crash

Spec == Init /\ [][Next]_vars

\* goroutines that are not blocked run; for hcnf and callback, whose ENABLED is slow to
\* evaluate, weak fairness with what enables them written out
FairSpec ==
    /\ Spec
    /\ \A s \in Syncs : WF_vars(sendReorg(s)) /\ WF_vars(setHeaviest(s))
    /\ WF_vars(takeReorg) /\ WF_vars(subCurrent)
    /\ []<>(reorgWorker.next # "hcnf" \/ ~ pubLkFree) \/ []<><<hcnf>>_vars
    /\ []<>(reorgWorker.next # "callback") \/ []<><<callback>>_vars

-----------------------------------------------------------------------------
(* Properties *)

\* No two blocks of the head are from one miner: whatever order the blocks of an
\* epoch arrive in, expandTipset takes one block of each miner.
OneBlockPerMiner == \A b, c \in heaviest : Miner[b] = Miner[c] => b = c

\* No heavier tipset is forgotten: of all the tipsets weighed since the last start
\* or SetHead by goroutines that race for the head, none is heavier than the head
\* once heaviestLk is free.
NoHeavierForgotten == heaviestLkFree => offered <= Weight(heaviest)

\* A step other than SetHead or a restart moves the head only to a heavier tipset.
HeadGrows ==
    heaviest' # heaviest =>
        \/ Weight(heaviest') > Weight(heaviest)
        \/ \E s \in Syncs : sync[s].pc = "sent" /\ sync[s].set
        \/ crashes' # crashes
HeadOnlyGrows == [][HeadGrows]_vars

\* The revert list is the ancestors of the old head that the new head does not
\* have, from the top down, and the apply list those of the new head that the old
\* does not have, from the bottom up.
ReorgPath ==
    reorgWorker.next # "select" =>
        LET old == Chain[reorgWorker.old]
            new == Chain[reorgWorker.new]
        IN  /\ Range(revert) = old \ new /\ Range(apply) = new \ old
            /\ \A i \in 1 .. Len(revert) - 1 : revert[i + 1] = Parents(revert[i])
            /\ \A i \in 1 .. Len(apply) - 1 : apply[i] = Parents(apply[i + 1])

\* Refinement: the registered callback follows the head as HeadFeed promises.  A
\* head that has been sent to reorgCh counts as the head from then on.
feedHead ==
    IF \E s \in Syncs : sync[s].pc = "sent"
    THEN sync[CHOOSE s \in Syncs : sync[s].pc = "sent"].ts
    ELSE heaviest
feedChanges ==
    (IF reorgWorker.next = "select" THEN <<>> ELSE <<<<reorgWorker.old, reorgWorker.new>>>>) \o reorgCh
Feed == INSTANCE HeadFeed WITH head <- feedHead, changes <- feedChanges
ImplementsFeed == Feed!Spec

\* A tipset found to be heavier becomes the head: the goroutine that holds
\* heaviestLk gets past its send on reorgCh and sets the head.
HeavierBecomesHead ==
    \A s \in Syncs : []<>(sync[s].pc # "send")

\* Both kinds of followers, the registered callback and the subscriber, whenever it
\* subscribed, come to know the head.
FollowersCatchUp == []<>(view = heaviest /\ (sub = "on" => subView = heaviest))
=============================================================================
