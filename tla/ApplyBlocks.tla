----------------------------- MODULE ApplyBlocks -----------------------------
(***************************************************************************)
(* The execution of a tipset (ApplyBlocks of chain/stmgr/stmgr.go) on Vm:  *)
(* cron for the null rounds below it, the messages of each block that no   *)
(* earlier block had, the reward of each block's miner, cron, and the      *)
(* flush of the state tree.  An error anywhere gives the tipset up.        *)
(***************************************************************************)
EXTENDS Vm

CONSTANTS
    CronID,
    Genesis,        \* the actors of the parent state, by ID
    Tipsets         \* [nulls, blocks]; a block is [miner, msgs]

VARIABLES
    stage,          \* what ApplyBlocks does next, or waits for the VM to do
    nulls,          \* null rounds left
    blocks,         \* blocks left, with the messages left of the first one
    processedMsgs,
    sums,           \* [gasReward, penalty] of the block
    awards,         \* history: the parameters of the reward messages
    receipts,       \* [msg, code], in order
    income          \* history: gas paid to the Reward actor

abVars == <<stage, nulls, blocks, processedMsgs, sums, awards, receipts, income>>
vars == <<vmVars, abVars>>

NoSums == [gasReward |-> 0, penalty |-> 0]

Init ==
    /\ tree = NewTree(Genesis)
    /\ msg = <<>> /\ holder = 0 /\ stack = <<>> /\ made = <<>> /\ ret = <<>>
    /\ base = view(tree)
    /\ \E tipset \in Tipsets : nulls = tipset.nulls /\ blocks = tipset.blocks
    /\ stage = "next" /\ processedMsgs = {} /\ sums = NoSums
    /\ awards = <<>> /\ receipts = <<>> /\ income = 0

implicit(to) ==
    [from |-> SystemID, to |-> to, value |-> 0, method |-> 1, nonce |-> 0, limit |-> 2, price |-> 0,
     implicit |-> TRUE]

runCron(next) == ApplyImplicitMessage(implicit(CronID)) /\ stage' = next

CronNullRound ==
    /\ stage = "next" /\ nulls > 0
    /\ runCron("nullCron") /\ nulls' = nulls - 1
    /\ UNCHANGED <<blocks, processedMsgs, sums, awards, receipts, income>>

atBlock == stage = "next" /\ nulls = 0 /\ blocks # <<>>
nextMsg == Head(Head(blocks).msgs)
dropMsg == [blocks EXCEPT ![1].msgs = Tail(@)]

skipped(m) == m \in processedMsgs

ApplyNext ==
    /\ atBlock /\ Head(blocks).msgs # <<>>
    /\ LET m == nextMsg
       IN  IF skipped(m)
           THEN blocks' = dropMsg /\ UNCHANGED <<vmVars, stage>>
           ELSE /\ ApplyMessage(m) \/ Refuse(m)
                /\ stage' = "message" /\ UNCHANGED blocks
    /\ UNCHANGED <<nulls, processedMsgs, sums, awards, receipts, income>>

collected == [gasReward |-> sums.gasReward + ret.gasUsed * ret.msg.price, penalty |-> sums.penalty + ret.penalty]

MessageApplied ==
    /\ stage = "message" /\ msg = <<>>
    /\ sums' = collected
    /\ receipts' = Append(receipts, [msg |-> ret.msg, code |-> ret.code])
    /\ processedMsgs' = processedMsgs \cup {nextMsg}
    /\ blocks' = dropMsg /\ stage' = "next"
    /\ UNCHANGED <<vmVars, nulls, awards, income>>

Award ==
    /\ atBlock /\ Head(blocks).msgs = <<>>
    /\ ApplyImplicitMessage(implicit(RewardID))
    /\ awards' = Append(awards, [miner |-> Head(blocks).miner, gasReward |-> sums.gasReward,
                                 penalty |-> sums.penalty])
    /\ sums' = NoSums
    /\ blocks' = Tail(blocks) /\ stage' = "award"
    /\ UNCHANGED <<nulls, processedMsgs, receipts, income>>

\* an implicit message that fails gives up the tipset
ImplicitApplied ==
    /\ stage \in {"nullCron", "award", "cron"} /\ msg = <<>>
    /\ stage' = IF ret.code = "err" THEN "failed" ELSE IF stage = "cron" THEN "flush" ELSE "next"
    /\ UNCHANGED <<vmVars, nulls, blocks, processedMsgs, sums, awards, receipts, income>>

\* a message without a gas limit
Malformed ==
    /\ atBlock /\ Head(blocks).msgs # <<>> /\ ~ skipped(nextMsg) /\ checked(nextMsg) = "malformed"
    /\ stage' = "failed"
    /\ UNCHANGED <<vmVars, nulls, blocks, processedMsgs, sums, awards, receipts, income>>

\* the error that came through every caller
FatalError ==
    /\ Len(stack) = 1 /\ isFatal
    /\ stage' = "failed" /\ msg' = <<>> /\ stack' = <<>>
    /\ tree' = IF msg.implicit THEN tree ELSE ClearSnapshot(tree)
    /\ UNCHANGED <<holder, ret, made, base, nulls, blocks, processedMsgs, sums, awards, receipts, income>>

LastCron ==
    /\ stage = "next" /\ nulls = 0 /\ blocks = <<>>
    /\ runCron("cron")
    /\ UNCHANGED <<nulls, blocks, processedMsgs, sums, awards, receipts, income>>

\* the state root of the tipset
FlushTree ==
    /\ stage = "flush"
    /\ IF canFlush(tree) THEN tree' = Flush(tree) /\ stage' = "done"
       ELSE UNCHANGED tree /\ stage' = "failed"
    /\ UNCHANGED <<msg, holder, stack, ret, made, base, nulls, blocks, processedMsgs, sums, awards, receipts, income>>

\* the VM at work
VmStep ==
    /\ RuntimeStep \/ FinishMessage \/ FinishImplicit
    /\ income' = IF msg # <<>> /\ ~ msg.implicit /\ msg' = <<>> THEN income + gasReward ELSE income
    /\ UNCHANGED <<stage, nulls, blocks, processedMsgs, sums, awards, receipts>>

Next ==
    \/ CronNullRound \/ ApplyNext \/ MessageApplied \/ Award \/ ImplicitApplied
    \/ Malformed \/ FatalError \/ LastCron \/ FlushTree
    \/ VmStep

Spec == Init /\ [][Next]_vars

-----------------------------------------------------------------------------
(* Properties *)

funds(v) == MapThenSumSet(LAMBDA id : IF v[id] = NoActor THEN 0 ELSE v[id].balance, IDs)

\* No step of any message makes or loses a token: transfers, gas, refunds, rewards,
\* deletions and reverts of snapshots included; and in the end the gas rewards awarded to
\* the miners add up to what the messages paid, and their penalties to what was refused.
Conserved ==
    /\ funds(view(tree)) + holder = funds(view(NewTree(Genesis)))
    /\ stage = "done" =>
        /\ FoldLeft(LAMBDA acc, a : acc + a.gasReward, 0, awards) = income
        /\ FoldLeft(LAMBDA acc, a : acc + a.penalty, 0, awards) =
               FoldLeft(LAMBDA acc, r : IF r.code \in {"ok", "err"} THEN acc ELSE acc + MsgGas * r.msg.price, 0, receipts)

\* A call that succeeded leaves the actors as it left them, one that failed as its caller
\* had them; a message that failed, as they were when gas and nonce were taken, but for
\* refund and reward.  What is flushed is what the messages left.
CallsAtomic ==
    [][/\ SendReturns => view(tree') = IF Top.status = "err" THEN Top.before ELSE view(tree)
       /\ FinishMessage =>
              LET paid == (LookupID(tree, msg.from) :> msg.limit * msg.price - gasReward) @@ (RewardID :> gasReward)
                  left == IF outcome.st = "err" THEN base ELSE view(tree)
              IN  view(tree') = [id \in IDs |-> IF id \in DOMAIN paid
                                                THEN [left[id] EXCEPT !.balance = @ + paid[id]] ELSE left[id]]
       /\ stage' = "done" => view(NewTree(tree'.root)) = view(tree)]_vars

\* A cached address resolution is what the Init actor's state says in its snapshot layer,
\* also after calls that registered addresses were reverted; and two actors are never given
\* one address, also when the call that made the first failed.
AddressesRight == CacheRight(tree) /\ IsInjective(made)

executed == {i \in DOMAIN receipts : receipts[i].code \in {"ok", "err"}}

\* A sender's nonce is used by one message: a message that is in several blocks, or that
\* shares its nonce with another, is executed once.
RanOnce ==
    \A i, j \in executed : i # j => receipts[i].msg.from # receipts[j].msg.from \/ receipts[i].msg.nonce # receipts[j].msg.nonce
=============================================================================
