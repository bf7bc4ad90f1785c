--------------------------- MODULE SelectMessages ---------------------------
(***************************************************************************)
(* The messages a miner puts into a block (miner/selectmessages.go): per   *)
(* sender those that can be executed one after the other, then prefixes of *)
(* them by reward per gas until the block is full.                         *)
(***************************************************************************)
EXTENDS Integers, FiniteSetsExt, SequencesExt

CONSTANTS
    Actors,             \* senders 1 .. n, in address order, to [nonce, balance] at the base
    BlockGasLimit, BlockMessageLimit

\* A message is [from, nonce, funds, gas, reward, valid]: funds is RequiredFunds, reward the
\* guessed gas at the message's price, valid whether ValidForBlockInclusion holds.

\* Mutant: the funds of messages already taken are not charged.
executableUncharged(acc, msg) ==
    IF msg.valid /\ msg.gas <= BlockGasLimit /\ msg.funds <= acc.balance /\ msg.nonce = acc.nonce
    THEN [acc EXCEPT !.nonce = @ + 1, !.msgs = Append(@, msg)]
    ELSE acc

\* a message of the sender, in the order of the nonces
executable(acc, msg) ==
    IF msg.valid /\ msg.gas <= BlockGasLimit /\ msg.funds <= acc.balance /\ msg.nonce = acc.nonce
    THEN [nonce |-> acc.nonce + 1, balance |-> acc.balance - msg.funds, msgs |-> Append(acc.msgs, msg)]
    ELSE acc

sums(msgs, value(_)) ==
    [n \in DOMAIN msgs |-> FoldLeft(LAMBDA a, m : a + value(m), 0, SubSeq(msgs, 1, n))]

\* senderMeta; a sender whose actor cannot be looked up has no messages
senderMeta(from, pending) ==
    LET own == SetToSortSeq({m \in pending : m.from = from}, LAMBDA a, b : a.nonce < b.nonce)
        msgs == IF from \notin DOMAIN Actors THEN <<>>
                ELSE FoldLeft(executable, [nonce |-> Actors[from].nonce, balance |-> Actors[from].balance, msgs |-> <<>>], own).msgs
    IN  [msgs |-> msgs, gasLimit |-> sums(msgs, LAMBDA m : m.gas), gasReward |-> sums(msgs, LAMBDA m : m.reward)]

\* <<sender, length>> of the prefix with the best reward per gas, the last one in the order
\* of the loops if several have it; none if no prefix fits
best(sel) ==
    LET fits == {c \in UNION {{f} \X DOMAIN sel.metas[f].msgs : f \in DOMAIN sel.metas} :
                    sel.metas[c[1]].gasLimit[c[2]] <= sel.left /\ c[2] - 1 + Len(sel.out) <= BlockMessageLimit}
        gasOf(c) == sel.metas[c[1]].gasLimit[c[2]]
        rewardOf(c) == sel.metas[c[1]].gasReward[c[2]]
        beats(c, d) ==
            \/ rewardOf(c) * gasOf(d) > rewardOf(d) * gasOf(c)
            \/ rewardOf(c) * gasOf(d) = rewardOf(d) * gasOf(c) /\ (c[1] > d[1] \/ (c[1] = d[1] /\ c[2] > d[2]))
    IN  {c \in fits : \A d \in fits \ {c} : beats(c, d)}

\* one round of the selecting loop; what is left of a sender keeps its sums from the start
select(sel, round) ==
    IF best(sel) = {} \/ Len(sel.out) >= BlockMessageLimit THEN sel
    ELSE LET c == CHOOSE b \in best(sel) : TRUE
             meta == sel.metas[c[1]]
             rest(s) == SubSeq(s, c[2] + 1, Len(s))
         IN  [out |-> sel.out \o SubSeq(meta.msgs, 1, c[2]),
              left |-> sel.left - meta.gasLimit[c[2]],
              metas |-> [sel.metas EXCEPT ![c[1]] =
                  [msgs |-> rest(meta.msgs), gasLimit |-> rest(meta.gasLimit), gasReward |-> rest(meta.gasReward)]]]

SelectMessages(pending) ==
    LET sel == [out |-> <<>>, left |-> BlockGasLimit,
                metas |-> [f \in {m.from : m \in pending} |-> senderMeta(f, pending)]]
    IN  FoldLeft(select, sel, [i \in 1 .. Cardinality(pending) |-> i]).out
=============================================================================
