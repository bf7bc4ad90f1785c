--------------------------- MODULE MCSyncManager ---------------------------
(***************************************************************************)
(* Instances of SyncManager for TLC: the block tree                        *)
(*                                                                         *)
(*     g <- a <- b1 <- c        and        a <- b2                         *)
(*                                                                         *)
(* in which b1 and b2 are siblings of equal ParentWeight.                  *)
(***************************************************************************)
EXTENDS SyncManager

CONSTANTS g, a, b1, b2, c

MCTipSets == {g, a, b1, b2, c}

MCParent == [ts \in MCTipSets |->
                CASE ts = g -> NoTs
                  [] ts = a -> g
                  [] ts \in {b1, b2} -> a
                  [] ts = c -> b1]

MCHeight == [ts \in MCTipSets |->
                CASE ts = g -> 0 [] ts = a -> 1 [] ts \in {b1, b2} -> 2 [] ts = c -> 3]

\* ParentWeight is the weight of the chain below: zero for g and for its child
MCWeight == [ts \in MCTipSets |->
                CASE ts \in {g, a} -> 0 [] ts \in {b1, b2} -> 1 [] ts = c -> 2]
=============================================================================
