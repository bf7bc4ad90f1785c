-------------------------------- MODULE Forks --------------------------------
(***************************************************************************)
(* A tree of tipsets, the head changes between them, and the store's feed  *)
(* of them as a component sees it that subscribes to them.                 *)
(***************************************************************************)
EXTENDS Integers, FiniteSetsExt, Functions, Sequences

CONSTANTS
    TipSets, NoTs,      \* NoTs is nil
    Parent, Height      \* of a tipset; Parent is NoTs for genesis

ASSUME ForksAssumption ==
    /\ NoTs \notin TipSets
    /\ Parent \in [TipSets -> TipSets \cup {NoTs}] /\ Height \in [TipSets -> Nat]
    /\ \A ts \in TipSets : Parent[ts] # NoTs => Height[Parent[ts]] < Height[ts]

Chain[ts \in TipSets] ==
    {ts} \cup (IF Parent[ts] = NoTs THEN {} ELSE Chain[Parent[ts]])

\* tipsets of a chain from the top down
TopDown(S) ==
    [i \in 1 .. Cardinality(S) |->
        CHOOSE a \in S : Cardinality({b \in S : Height[b] > Height[a]}) = i - 1]

\* the tipsets a head change reverts and applies, in the order of the notification
reverted(old, new) == TopDown(Chain[old] \ Chain[new])
applied(old, new) == LET down == TopDown(Chain[new] \ Chain[old]) IN [i \in DOMAIN down |-> down[Len(down) + 1 - i]]
==============================================================================
