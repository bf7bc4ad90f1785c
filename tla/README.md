# A TLA+ model of the Lotus node

This directory specifies parts of the Filecoin node in `src/` in TLA+, checks them on
small instances with TLC and proves some of their properties, for every instance, with
TLAPS. `PROJECT.json` lists components, runs, mutants, the source lines behind every
definition, findings, hazards and theorems.

## The system

A node keeps a block tree and follows its heaviest chain. The parts, and who calls whom:

```
 peers --hello, gossip--> Syncer --announces--> SyncManager --doSync--> Syncer.Sync
                                                                          | headers, messages (BlockSync)
                                                                          | validation (StateManager, VM)
                                                                          v
 datastore <-- head --  ChainStore  <-- PutTipSet -------------------------
                          |   \--- ChainIndex: tipset by height
                          | head changes (reorgWorker)
          +---------------+--------------+------------------+
          v                              v                  v
     MessagePool                      Events            WaitForMessage, window PoSt,
     (pending messages)               (callbacks)       block miner
                                         |
                                payment channel settler, deal adapters
```

| Part | Source | Modules |
|---|---|---|
| Sync scheduling | `chain/sync_manager.go` | `SyncManager` |
| Syncer, with the BlockSync client | `chain/sync.go`, `chain/blocksync` | `Syncer` |
| Chain store: head | `chain/store/store.go`, `weight.go` | `ChainStore`, `HeadFeed` |
| Chain index | `chain/store/index.go` | `ChainIndex` |
| Message pool | `chain/messagepool` | `MessagePool` |
| Events | `chain/events` | `TipSetCache`, `HeightEvents`, `Events` |
| State manager | `chain/stmgr/stmgr.go` | `StateCache`, `MessageWait`, `ApplyBlocks` |
| State tree and VM | `chain/state`, `chain/vm` | `StateTree`, `Vm` |
| Payment channels | `paychmgr`, `node/impl/paych` | `PaychMgr`, `Settler` |
| Block miner | `miner` | `Miner`, `SelectMessages` |
| Window PoSt | `storage/wdpost_*.go` | `WindowPoSt` |

`Forks` (a tree of tipsets, the path between two) and `Notifs` (the head and the changes
on their way to a follower) are shared by the parts that follow the head. `ChainClients`
and `MC*` put modules together for checking.

## Modules

A module keeps the names of the source. An action is what one goroutine does between two
points at which another can see it: a critical section, or a channel operation.

**SyncManager.** State: `peerHeads`, `bootstrapState`, the scheduler's `syncQueue`,
`activeSyncTips`, `activeSyncs`, `nextSyncTarget` and `workerChan`, the worker
goroutines, and the two blocked senders (a caller of `SetPeerHead`, which holds `sm.lk`
while it offers its tipset, and the scheduler when it hands out the bootstrap target).
Actions: `SetPeerHead`, `scheduleIncoming`, `sendBootstrapTarget`,
`scheduleProcessResult`, `scheduleWorkSent`, `syncWorker` (a sync that succeeds or
fails), `Stop` and `schedulerExit`. `doSync` is external here: it takes any time and has
either result. Go's choice among ready cases of a `select` is the choice among actions.

**Syncer.** `InformNewHead` and, for each of several concurrent calls of `Sync`, the
collection of headers (from the store, else from peers), `syncFork`, the fetching of
messages, `ValidateTipSet` with its blocks validated at once, the storing of the tipset's
messages after it (`persistMessages`), the bad block cache and the final put with the
tipset tracker's expansion. Whether a block is valid is a constant of the instance. Peers
answer honestly but with any number of the tipsets asked for (`collectChainSegment` is a
set of prefixes), late or not at all.

**HeadFeed** is the abstract specification of what the chain store promises to those who
follow its head: every change is queued as a pair of heads and delivered once, in order,
and consecutive changes connect. **ChainStore** is the detailed one: goroutines add
blocks to the tipset tracker, expand and weigh tipsets, take `heaviestLk`, send on the
bounded `reorgCh`, then set and store the head; `reorgWorker` computes the path between
the heads and calls its notifees, `hcnf` (under `pubLk`) and a registered callback. It
implements `HeadFeed` under the mapping `feedHead`, `feedChanges`: a head counts from the
moment its change is sent, and the change in `reorgWorker`'s hands is the first one.

**ChainIndex.** A tipset is the sequence of epochs of its chain, so that all patterns of
null rounds can be enumerated. `fillCache`, `roundDown` and `walkBack` are operators; a
lookup (`GetTipsetByHeight`) is a sequence of `indexStep`s over a cache that may drop any
entry. `IsAncestorOf` is modelled with its loop; no property is stated of it (see below).

**MessagePool.** State: the pending messages with `nextNonce` and `currentSize`, the
prune trigger and the step `runLoop` is in, `curTs` and what the current `HeadChange` has
still to remove and to add, the chain store's head and the changes on their way, the
local messages on disk. `HeadChange` takes `mp.lk` once for every message, so its steps
interleave with pruning; `curTsLk`, which it holds throughout, keeps `Add`, `Push` and
`PushWithNonce` out. The selection of `pruneMessages` is abstracted to the result it may
have (`prunedPools`): prefixes of what each sender can execute, at most `SizeLo`.
`Prune` is its three sends, with a history of the pruning it waits for.
A crash loses memory; `New` then reloads local messages in any order, with `curTs = nil`.

**TipSetCache** is the ring buffer as operators on a record. **HeightEvents** composes it
with `ChainAt` and `headChangeAt`: a notification is processed one visited height at a
time, and `ChainAt` may run while a handler does. The channel may be lost once
(`Reconnect`), and notifications from before the subscription may arrive late (`Starts`).
Where the code uses the nil tipset of an empty cache the process panics and starts again
(`ChainAtPanics`, `NewEvents`). **Events** adds `Called` and `StateChanged`: `headChange` runs `headChangeAt` and then,
unless that failed, `processHeadChangeEvent` one tipset at a time, with the confidence
queue, timeouts and reverts; the check of a new watcher and the registration of its
matcher are two steps, as in the code.

**StateCache** is `TipSetState`: callers that compute, wait on `compWait` or find a cached
result, with computations that fail or are cancelled, and the nested computation for
`GetVestedFunds`. **MessageWait** is `WaitForMessage` with its goroutine that searches
back while head changes arrive. **ApplyBlocks** executes a tipset on **Vm**, a call stack
of runtimes on the snapshot layers of **StateTree**; actor code is external, a free choice
of the next call into the runtime.

**PaychMgr** has both nodes' channel stores, the payer's calls (`PaychNewPayment`,
`PaychVoucherCreate`) step by step, the goroutines that wait for the messages of `GetPaych`
with the store's lock held, and the channel actor as an external. **Settler** submits the
best spendable voucher of each lane when a channel is settled, after checking them one by
one, and gives up at the first call that fails.

**Miner** is the mining loop, with time in half epochs, `Stop` and `Start`, and other
callers of `GetBestMiningCandidate`; a won block is filled by **SelectMessages**, a pure
algorithm. **WindowPoSt** is the scheduler over head changes and the goroutine of each
PoSt, whose proof is held back by its declarations.

**ChainClients** composes the five parts that only read the chain store; they share
nothing but the chain, so a behaviour runs one of them.

## Runs

| Run | Instance | Shows |
|---|---|---|
| `sync_scheduler` | 5 tipsets with siblings, 2 peers, 2 workers, 4 announcements | nothing nil is handed out, the queue is not forgotten, no stale active sync, the bootstrap send finds a worker; queued work is done and callers return |
| `store_head` | 4 blocks, 2 goroutines, a subscriber, 1 crash, head writes that fail | racing goroutines never lose a heavier tipset; the store implements `HeadFeed`, also after a crash; followers catch up |
| `store_reorg` | 5 blocks, forks with null rounds, channel of 1, `SetHead` | paths between heads are right; the store implements `HeadFeed` |
| `mpool_bookkeeping` | 2 senders, a replacement, a BLS message, one in two blocks of its tipset, 4 tipsets with a fork, 2 head changes, pool limits 2/1, 1 crash, 1 call of `Prune` | sizes, nonces and the prune wakeup are right under every interleaving; executed messages do not stay; `Prune` returns after a pruning of its own; an oversize pool is pruned |
| `mpool_restart` | a pool below its limit, a replacement, 3 head changes, 1 crash | nonces handed out have no gaps over reorgs; local messages come back |
| `syncer` | 19 tipsets on short and long forks with siblings, null rounds, two blocks of one miner and invalid blocks, short answers, 2 calls of `Sync`, 1 fault | what is validated rests on validated tipsets; only blocks at fault or refused are marked bad; a fork is refused only if it parts from the head's chain below all the peer sent; every `Sync` ends, and without error with a head as heavy as its target |
| `tipset_execution` | tipsets of 1 and 2 blocks, repeated, refused, failing and nested messages, 2 new actors, 3 levels of calls | tokens are conserved, awards and penalties add up; a message runs once; failed calls are undone whole; addresses resolve to what Init says |
| `events` | 9 tipsets on 3 forks, 2 handlers (heights 3 and 1, confidence 2 and 3) or 1 watcher, 4 slots, started near genesis, on the tops of two forks and after a reorg to a lower head with late notifications, 1 reconnect, panics | handlers are called, reverted and called again as the chain says; the ring buffer is the top of the chain |
| `chain_clients` | lookups over all null round patterns up to epoch 6; 3 calls of `TipSetState` by 3 callers; a wait for a message and the PoSt scheduler on 12 tipsets in 3 forks; the miner for 5 epochs, with heads up to height 2 | lookups find the right tipset; cached states are right and every call returns; a wait returns the message's execution on the chain; the PoSt is for the chain it follows; blocks are acceptable and no round is left out |
| `payments` | 4 programs of 2 payer calls, no channel or one, 1 fault | channels and lanes are handed out once; vouchers cover what is owed; a settler that does not give up redeems all vouchers without `Extra`; every call ends |

Two runs show where the code does not do what a comment says; `findings` in
`PROJECT.json` quotes the lines.

| Run | Shows |
|---|---|
| `store_lock_cycle` | a goroutine that holds `heaviestLk`, the reorg worker and a new subscriber wait for each other |
| `syncer_head_messages` | a block tracked before the messages of its tipset are stored gets into the head by another `Sync`; if the tipset fails, it stays there without them |

Every property of a passing run has a mutant in `PROJECT.json`: a small change of one
mapped definition under which TLC finds the property violated. Mutated forms are defined
in the modules, above what they replace, and marked `Mutant`.

**Bounds.** `MaxCalls`, `MaxHeads`, `MaxPrunes`, `MaxSetHeads`, `MaxCrashes`,
`MaxReconnects`, `MaxBreaks`, `MaxFaults`, `MaxFails`, `MaxStops` and `MaxTime` cap how
often the environment acts; each is in a guard of an environment action only. `MaxPending`
caps the notifications on their way, `MaxDepth` and `MaxNew` the call stack and the actors
created, `MaxPosts` says how many PoSts the instance's heads can start (checked with
`PostCurrent`). They are large enough that a head change can overlap with the one before
it and that a reorg can be undone, which is where the mutants break the invariants. The
capacity of `reorgCh` is 1 or 4 instead of 32 and the ring buffer has 4 slots instead of
twice the fork length limit, so that both are full, or wrap, in the runs. The ring buffer
is not smaller than the longest reorg of the instance, as in the code. The skip length is
2 instead of 20: with 6 epochs lookups cross three multiples of it. The fork length
threshold is 2 instead of the 900 of `Finality`, and the request window of headers 2
instead of 500, so that forks are short, just too long, and split over requests.
`store_head` has room for every change in `reorgCh`; `store_reorg` has not, and may end in
the lock cycle of `store_lock_cycle`, so it states safety only.
`MCChainClients` leaves out chains with a tipset below epoch `SkipLength` followed by null
rounds to twice that length; for these `fillCache` fails (see below).

**Deadlock.** The runs say `CHECK_DEADLOCK FALSE` where the bounded environment may run
out of things to do. That goroutines do not wait for each other is stated as liveness
(`SetPeerHeadReturns`, `FollowersCatchUp`, `EventuallyPruned`, `CallsReturn`,
`PaymentsEnd`, `SyncEnds`).

**Fairness** is weak fairness of goroutines that can run: the Go scheduler runs every
runnable goroutine and `select` picks among ready cases at random. Nothing is assumed of
peers, callers, `Stop`, `SetHead`, crashes or the arrival of blocks. A sync in progress
ends, because its requests have timeouts; so do computations of states and the miner's
calls to the node, with or without success. For `PaymentsEnd` pushed messages are executed, and
for `RoundsTried` time passes. Some fairness is written out as "infinitely often disabled
or infinitely often taken", which is weak fairness with the enabling condition spelled
out; TLC evaluates it faster.

## Proofs

TLAPS checks these for all values of the constants that satisfy the named assumptions.

**SyncManagerProofs.** `Inv` is the conjunction of the type invariant and the five safety
properties; together they are inductive. The deadlock argument
(`BootstrapSendFindsWorker`) needs `QuietBeforeBootstrap`: the scheduler's blocking send
happens only in the step out of "Selected", before any worker has work.
`SchedulerConsistent`, which `sync_scheduler` checks, is the conjunction of the five;
`BootstrapMovesForward` follows for every step from the same invariant.

**SyncerLemmas, SyncerProofs.** For any tree of tipsets and any number of calls of `Sync`.
The invariant has three parts. `StoreOK`: the head is validated, what is validated is
stored, and `ChainValidated`. `CallersOK`: while headers are collected they lead from the
target down, each the parent of the one before, towards a tipset that was validated
(`Collected`); while they are validated, those below the next one are valid already, and
so is what they all stand on (`Fetched`), whatever other calls do meanwhile; validated
here means valid with the messages stored, or in the head without them (`loose`). `BadOK`:
every bad block has its reason, so that marking the children of a bad block keeps
`BadSound`. `SyncerLemmas` says what an answer of a peer, cut at any place, adds to the
headers, and what a round of `syncFork`'s loop keeps: the tipset shared with the head's
chain is still ahead of it. From the invariant: `ChainValidated`, `BadSound`,
`ForkRefused` and `SyncedOrHeavier`, and `SyncHeadValidated`, which is what remains true
of the head (that it has its messages too is refuted by `syncer_head_messages`).

**ChainStoreProofs.** For any number of goroutines. `LockOK` (one goroutine between taking
`heaviestLk` and setting the head) and `CallOK` (that goroutine's tipset is heavier than
the head and than all weighed) make `NoHeavierForgotten` and `HeadOnlyGrows` inductive.
`OneBlockPerMiner` is proved when `SetHead` is not used, as `SetHead` accepts any tipset.
Its first section is about `ReorgOps`: by induction on the height of the two heads the
path it computes leads down to a common ancestor and up again, which gives `ReorgPath`.
`FeedInv` (the changes under way connect, from what the callback has seen to the head) and
`WorkerOK` (the change in `reorgWorker`'s hands is the first of them) show step by step
that `ChainStore` implements `HeadFeed` (`StoreImplementsFeed`) and that nothing is left
out between two deliveries (`StoreFeedConnected`).

**MessagePoolProofs.** `PoolOK` holds whenever `mp.lk` is free: size, one message per
nonce and next nonces need each other (an addition counts by whether the nonce is free).
There is one lemma for each of `addLocked`, `remove` and `pruneMessages`, and
`OversizeSignalled` follows from what an addition does to the trigger. Their conjunction
is the `PoolConsistent` of `mpool_bookkeeping`. `PruneOK` says what each send of `Prune`
has waited for, which gives `PruneHasPruned`. `LoadInv` follows the reload after a crash
message by message and gives `LocalMessagesReloaded`. `NoPendingBelowState` needs `FeedOK`
(the changes on their way lead from `curTs` to the head) and `UsedOK`: what is pending was
executed by the chain of `curTs` only if the `HeadChange` under way has still to remove it.

**StateCacheProofs.** `CacheInv`: a cached state is the tipset's, and for each tipset at
most one caller computes while the others hold the channel it will close. `CacheSpec` is
the part of `ChainClients`' specification that moves the cache's variables.

**PaychProofs.** `AllocatedOnce` for any programs of the payer: no lane is handed out
twice, also over restarts, and without failures and restarts no second channel is made.
`LanesOK` says that the lanes given are below their channel's `nextLane`, which is above
the lanes of all vouchers and never falls; `OneChannel` that while a message that creates
a channel is under way, or executed and not yet tracked, the store's lock is held for it.
Both need the stores, the chain and the callers' states to be well formed (`StoresOK`,
`ChainOK`, `CallsOK`, `SettlerOK`).

**SetLemmas** has what these share: least and greatest elements, finite sums, and the
ancestors of a tipset, defined by recursion on its height.

**Assumptions.** Heights grow from parent to child (`TreeAssumption`, `ForksAssumption`):
`chain/gen/gen.go:393` makes a block at `base.Height() + 1` or above and validation
compares timestamps with the parent's (`chain/sync.go:686`). A tipset with more blocks is
not lighter (`WeightAssumption`, `chain/store/weight.go`). Announced tipsets have one
block of a miner (`BlocksAssumption` of `Syncer`; `NewTipSet` does not check it). An
executed message is once in
a chain (`NoncesAssumption`), as `checkBlockMessages` compares nonces with the parent
state. A payer's call has at least one voucher and natural parameters
(`ProgramsAssumption`). The others give types, and finiteness of what is finite in a
node. TLC evaluates all of them on the instances.

**Only model-checked.**
- All liveness: outside the prover's reach.
- What is computed by a fold over a sequence of any length, which needs induction over
  data: vouchers' sums (`VouchersSound`, and `SettledRedeemed`, which rests on it), block
  contents (`BlockAcceptable`), receipts and balances (`ApplyBlocks`), the notifications of
  `MessageWait`, `HeightEvents` and `Events`, the index's caches (`RightTipSet`).
- `NoNonceGap`, which holds of pools below their limit and callers that use the nonces
  they are given, and `PostCurrent`, which needs chains without long null rounds: both
  are statements about their instances.

## Behaviour worth knowing that no run records

Seen with TLC in variants of the instances, or read in the code; the properties are
stated so that these cases are named in them or left out of the instances.

Sync:
- After a failed bootstrap sync with nothing queued the state stays Scheduled: later
  targets are queued and never served (`chain/sync_manager.go:314`; `chain/sync.go:62`
  says the Syncer "Fast-forwards the chain as it learns of new TipSets").
- When two children of an active sync's tipset arrive as separate buckets, its result
  takes only the first out of `activeSyncTips` (`chain/sync_manager.go:336`). A tipset
  announced again while it is being synced is synced by a second worker (`:293`).
- Any failure of validation that is not `ErrTemporal` marks the block bad, a failed read
  included (`chain/sync.go:551`); a fork that is too long has only the incoming blocks
  marked (comment at `:1300`); a fork from genesis at height 1 is refused; blocks fetched
  for a fork are not looked up in the bad block cache.
- `syncFork` takes an answer that ends above the common tipset for a fork longer than the
  threshold and has the target marked bad (`:1338`; the comment at `:1303` names the
  threshold only). Peers may send less than they are asked for, and one request never
  brings the whole threshold: it is 900 tipsets, a request has at most 800
  (`chain/blocksync/blocksync.go:29`).
- `InformNewHead` compares with the head's weight at that moment (`chain/sync.go:202`).

Chain store and index:
- `IsAncestorOf` loads the parents of `b`, not of the tipset it is at: it does not end
  when the ancestor is more than one tipset below (`chain/store/store.go:452`).
- The index fails to make an entry for a tipset below epoch 20 that is followed by null
  rounds up to epoch 40 (`chain/store/index.go:100`).

Message pool:
- During the reload `curTs` is nil, so that a local message the head tipset has executed
  is pending again (`chain/messagepool/messagepool.go:557-560`).
- A pruning between the reload and the first `curTs` panics; with more than
  `maxTxPoolSizeHi` valid local messages this can recur at every start (`:227`).
- Pruning counts nonces from the head's parent state, so that a sender with a message in
  the head tipset loses all its pending messages (`chain/messagepool/pruning.go:104`).

Events:
- A handler is not called when an earlier one for the same epoch was called before a
  reorg (`chain/events/events_height.go:93`; the comment at `:146` promises it).
- A handler that `ChainAt` calls at once is not reverted by a reorg that happens before it
  is registered, and may be called a second time (`events_height.go:163`).
- A null round below the lowest tipset of the cache is looked up in storage, which answers
  with the tipset below it (`node/impl/full/chain.go:178`): the handler is called with a
  tipset below its height (the comment at `events_height.go:150` says the next one above),
  and a walk over null rounds ends there, leaving handlers uncalled or unreverted.
- When a reorg has reverted all the cache holds, as it may soon after a start, `ChainAt`
  called by then uses a nil tipset (`events_height.go:155`), and so does the check of a new
  watcher if it is done (`utils.go:30`); and if the new head is lower, `get` fails, the rest
  of the head change is given up and its events are lost.
- An event in the first tipset applied after a reorg, at a height below that of the last
  reverted one, is never reported with confidence 0: the heights visited begin at the
  reverted tipset's (`events_called.go:149`).
- A head change that applies no tipset (`SetHead` to an ancestor) is refused as a whole,
  and the event cache keeps the old fork (`events.go:167`).
- A `matchOnce` ends the search over all watchers, not only its own
  (`events_called.go:505`). What is processed between the check and the registration of a
  matcher is missed (`:600-607`), as is a change that both forks make. A timeout filed
  under a null round never comes (`:270`); a watcher that asks for more hears its timeout
  once for every height from the last tipset's to this one's (`:149-153`); a timeout may
  come in the step that would bring the event; the handler of `Called` fails on a timeout for want of a message (`:592`).

State manager and VM:
- `WaitForMessage` returns at once, whatever the confidence, when the head itself has
  executed the message (`chain/stmgr/stmgr.go:479`; the comment at `:448` guarantees it).
- The search back for a message not yet executed may end in an error at the first tipset
  before the sender's account (`chain/stmgr/stmgr.go:604`); `WaitForMessage` then relies on
  new tipsets alone.
- An actor that is made and deleted in one tipset fails the flush of its state, as the map
  of actors does not have it (`chain/state/statetree.go:254`).
- A receipt is looked up by the message's index among those with the right nonce and
  enough funds (`chain/store/store.go:754`), while `ApplyBlocks` stores one for every
  message, refused ones included (`chain/stmgr/stmgr.go:225`): after a refused message the
  two differ.

Payment channels:
- `PaychNewPayment` on a new channel fails, as it allocates a lane of the undefined
  address; a failed wait in `waitForAddFundsMsg` is followed by the use of its nil result
  (`paychmgr/simple.go:113-118`); a restart between pushing the creation and tracking it
  leaves the channel untracked.
- `NextNonceForLane` reads without the lock (`paychmgr/paych.go:340`); two callers on one
  lane may make vouchers of equal nonce, one of which the store then refuses.
- "Submits any vouchers" (`paychmgr/settler/settler.go:51`) does not hold of every channel.
  A voucher with `Extra` is refused (`node/impl/paych/paych.go:229`), and when it is the
  best spendable one of its lane the handler gives up with those of other lanes not
  submitted (`settler.go:95-97`), as it does for any call that fails; nothing tries again.
  A payee that restarts misses a settle of the meantime, and a failed `StateWaitMsg` is
  followed by the use of its nil result (`:102-105`).
- While the handler waits for its messages, its `Events` process no head change
  (`settler.go:110`).

Mining:
- A PoSt that failed is not tried again within its deadline (`storage/wdpost_sched.go:180`);
  after a broken subscription or a failed lookup its randomness may be of a fork that was
  left, until the next deadline. So it may after any reorg below the challenge that
  reverts no tipset of an earlier deadline: over null rounds from challenge to deadline, or
  in the first deadline, which the tipsets before the first period have too.
- The proof of a PoSt waits for the messages of its declarations without a timeout
  (`wdpost_run.go:188`, `:270`); `wdpost_run.go:419` may index out of range.
- After it has won on a base that the node does not adopt, the miner waits for the head to
  move; a `Stop` and `Start` may try a round early; the guard against two blocks at a
  height is lost with the process; `Stop` twice, or before `Start`, panics.
- `SelectMessages` takes one message more than its limit.

## Not modelled

Within modelled parts: encoding, hashing, signatures and proofs; the contents of messages
beyond what the properties tell apart; datastore failures other than a head that is not
written; eviction from the BLS signature cache; republishing and the `Updates` stream,
which only read the pool; messages and receipts in the chain store, export and import;
handlers of events that return errors; peers that lie, secrets and time locks of vouchers.

Not at all, with the reason in `PROJECT.json`: gossip handlers, hello and the peer
manager (they forward to `Syncer` and `MessagePool`, whose models take any order); the
fund manager, the deal and sealing adapters (the state machines that would give them
meaning are in other repositories); wallet, repository, journal and beacon (files and
external services); types, generators, conformance drivers, node construction, API,
command line and tools, which are most of the source's lines (generated code, forwarding,
user interface) and have no state that other parts depend on.
