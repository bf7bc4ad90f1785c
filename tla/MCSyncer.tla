------------------------------ MODULE MCSyncer ------------------------------
(***************************************************************************)
(* Forks of one and of three tipsets off a chain with a null round, a fork *)
(* at genesis, siblings that the store expands to a tipset of two blocks,  *)
(* two blocks of one miner in a round, invalid blocks that others build on *)
(* or that share a tipset with a valid one.                                *)
(***************************************************************************)
EXTENDS Syncer, TLC

CONSTANTS g, a1, a2, b2, ab2, a3, n4, x3, x4, x5, i3, j4, j5, j6, u3, f2, c2, bc2, m4

MCTipSets == {g, a1, a2, b2, ab2, a3, n4, x3, x4, x5, i3, j4, j5, j6, u3, f2, c2, bc2, m4}
MCParent == g :> NoTs @@ a1 :> g @@ a2 :> a1 @@ b2 :> a1 @@ ab2 :> a1 @@ a3 :> a2 @@ n4 :> ab2
            @@ x3 :> b2 @@ x4 :> x3 @@ x5 :> x4
            @@ i3 :> a2 @@ j4 :> i3 @@ j5 :> j4 @@ j6 :> j5 @@ u3 :> ab2 @@ f2 :> g
            @@ c2 :> a1 @@ bc2 :> a1 @@ m4 :> ab2
MCHeight == g :> 0 @@ a1 :> 1 @@ a2 :> 2 @@ b2 :> 2 @@ ab2 :> 2 @@ a3 :> 3 @@ n4 :> 4
            @@ x3 :> 3 @@ x4 :> 4 @@ x5 :> 5
            @@ i3 :> 3 @@ j4 :> 4 @@ j5 :> 5 @@ j6 :> 6 @@ u3 :> 3 @@ f2 :> 2
            @@ c2 :> 2 @@ bc2 :> 2 @@ m4 :> 4
MCWeight == g :> 1 @@ a1 :> 2 @@ a2 :> 3 @@ b2 :> 3 @@ ab2 :> 4 @@ a3 :> 4 @@ n4 :> 5
            @@ x3 :> 4 @@ x4 :> 5 @@ x5 :> 6
            @@ i3 :> 4 @@ j4 :> 5 @@ j5 :> 6 @@ j6 :> 7 @@ u3 :> 5 @@ f2 :> 2
            @@ c2 :> 3 @@ bc2 :> 4 @@ m4 :> 6
MCBlocks == g :> <<"g">> @@ a1 :> <<"a1">> @@ a2 :> <<"a2">> @@ b2 :> <<"b2">> @@ ab2 :> <<"a2", "b2">>
            @@ a3 :> <<"a3">> @@ n4 :> <<"n4">> @@ x3 :> <<"x3">> @@ x4 :> <<"x4">> @@ x5 :> <<"x5">>
            @@ i3 :> <<"i3">> @@ j4 :> <<"j4">> @@ j5 :> <<"j5">> @@ j6 :> <<"j6">> @@ u3 :> <<"u3">> @@ f2 :> <<"f2">>
            @@ c2 :> <<"c2">> @@ bc2 :> <<"c2", "b2">> @@ m4 :> <<"n4", "w4">>
MCMiner == [blk \in UNION {Cids(ts) : ts \in TipSets} |-> IF blk \in {"b2", "i3", "w4"} THEN "m2" ELSE "m1"]
MCAnnouncements == {<<n4, a2, n4>>, <<a3, x5, x3>>, <<a3, b2, x3>>, <<j6, j5, a3>>, <<j4, u3, u3>>, <<a1, f2, n4>>, <<c2, ab2, m4>>}
=============================================================================
