---------------------------- MODULE MCChainStore ----------------------------
(***************************************************************************)
(* Instances of ChainStore for TLC.  Miner m makes a1, d1 (a second block  *)
(* in the same epoch) and a3, miner n makes b1 and b2:                     *)
(*                                                                         *)
(*     epoch 0   1          2    3                                         *)
(*           g <- a1    <------- a3                                        *)
(*           g <- {b1}  <-- b2                                             *)
(*           g <- d1                                                       *)
(*                                                                         *)
(* Epoch 2 is a null round for a3.  {a1, b1} and {b1, d1} are tipsets too. *)
(***************************************************************************)
EXTENDS ChainStore

CONSTANTS g, a1, b1, d1, b2, a3, m, n

MCBlockParents ==
    [b \in Blocks |-> CASE b = g -> {} [] b \in {a1, b1, d1} -> {g} [] b = b2 -> {b1} [] b = a3 -> {a1}]
MCHeight == [b \in Blocks |-> CASE b = g -> 0 [] b \in {a1, b1, d1} -> 1 [] b = b2 -> 2 [] b = a3 -> 3]
MCMiner == [b \in Blocks |-> IF b \in {b1, b2} THEN n ELSE m]
MCTicket == [b \in Blocks |-> CASE b = a1 -> 1 [] b = b1 -> 2 [] b = d1 -> 3 [] OTHER -> 0]
MCWinCount == [b \in Blocks |-> IF b = d1 THEN 2 ELSE 1]
\* Weight of {g} is 2816, of {a1} and {b1} 5632
MCParentWeight ==
    [b \in Blocks |-> CASE b = g -> 0 [] b \in {a1, b1, d1} -> 2816 [] b \in {b2, a3} -> 5632]
=============================================================================
