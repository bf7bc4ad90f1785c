--------------------------- MODULE MCChainClients ---------------------------
(***************************************************************************)
(* Instance of ChainClients for TLC.  Tipsets are named by height:         *)
(*                                                                         *)
(*     g <- a1 <- a2 <-------- a4 <- a5 <- a6                              *)
(*          a1 <-------- b3 <- b4 <------- b6                              *)
(*          a1 <- c2 <-------------- c5 <- c6                              *)
(*                                                                         *)
(* The message k1 is executed by a4 and by b4, its replacement by c5.      *)
(***************************************************************************)
EXTENDS ChainClients

CONSTANTS g, a1, a2, a4, a5, a6, b3, b4, b6, c2, c5, c6, k0, k1, r1, k2, k3

MCTipSets == {g, a1, a2, a4, a5, a6, b3, b4, b6, c2, c5, c6}
MCParent == [ts \in MCTipSets |->
    CASE ts = g -> NoTs [] ts = a1 -> g [] ts \in {a2, b3, c2} -> a1 [] ts = a4 -> a2 [] ts = a5 -> a4
      [] ts = a6 -> a5 [] ts = b4 -> b3 [] ts = b6 -> b4 [] ts = c5 -> c2 [] ts = c6 -> c5]
MCHeight == [ts \in MCTipSets |->
    CASE ts = g -> 0 [] ts = a1 -> 1 [] ts \in {a2, c2} -> 2 [] ts = b3 -> 3 [] ts \in {a4, b4} -> 4
      [] ts \in {a5, c5} -> 5 [] ts \in {a6, b6, c6} -> 6]
MCWeight == [ts \in MCTipSets |->
    CASE ts = g -> 0 [] ts = a1 -> 1 [] ts = a2 -> 2 [] ts = b3 -> 3 [] ts = a4 -> 4 [] ts = b4 -> 5
      [] ts = a5 -> 6 [] ts = c2 -> 7 [] ts = c5 -> 8 [] ts = c6 -> 9 [] ts = b6 -> 10 [] ts = a6 -> 11]
MCMsgs == [ts \in MCTipSets |->
    CASE ts = a2 -> <<k0, k1, k2>> [] ts = a4 -> <<k3>> [] ts = b3 -> <<k0, k1>> [] ts = c2 -> <<k0, r1>>
      [] OTHER -> <<>>]
MCNonce == [z \in {k0, k1, r1, k2, k3} |-> CASE z = k0 -> 0 [] z \in {k1, r1} -> 1 [] z = k2 -> 2 [] z = k3 -> 3]
\* from genesis, or later with some of the changes that led there still to come
MCStarts == {<<g, <<>>>>, <<a5, <<>>>>, <<b4, <<<<a4, b4>>>>>>, <<a5, <<<<a4, b4>>, <<b4, a5>>>>>>}

\* two senders; the first one's three messages need more than its balance, a message is
\* invalid, one has a used nonce and one no sender; the pool misses at most one of them
MCActors == <<[nonce |-> 0, balance |-> 5], [nonce |-> 2, balance |-> 4]>>
Pending(f, n, fu, ga, re, ok) == [from |-> f, nonce |-> n, funds |-> fu, gas |-> ga, reward |-> re, valid |-> ok]
MCPending == {
    Pending(1, 0, 2, 1, 1, TRUE), Pending(1, 1, 2, 2, 6, TRUE), Pending(1, 2, 2, 1, 4, TRUE),
    Pending(2, 2, 1, 2, 3, TRUE), Pending(2, 3, 1, 1, 1, TRUE), Pending(2, 4, 1, 1, 9, TRUE),
    Pending(2, 5, 1, 1, 1, FALSE), Pending(2, 1, 1, 1, 9, TRUE), Pending(3, 0, 0, 1, 9, TRUE)}
MCPools == {MCPending} \cup {MCPending \ {m} : m \in MCPending}

\* every tipset at epoch 6 of a chain with any pattern of null rounds, such that no tipset
\* below epoch SkipLength, other than genesis, is followed by null rounds up to
\* 2 * SkipLength
LastEpoch == 6
Sorted(S) == [i \in 1 .. Cardinality(S) |-> CHOOSE x \in S : Cardinality({y \in S : y < x}) = i - 1]
NoEarlyGap(ts) == \A i \in 2 .. Len(ts) : ts[i - 1] \in 1 .. SkipLength - 1 => ts[i] < 2 * SkipLength
MCHeads == {ts \in {Sorted({0, LastEpoch} \cup E) : E \in SUBSET (1 .. LastEpoch - 1)} : NoEarlyGap(ts)}
MCAsked == {<<<<0, 1>>, <<0, 1, 2>>>>, <<<<0, 1, 2, 4>>, <<0, 1, 2>>>>}
=============================================================================
