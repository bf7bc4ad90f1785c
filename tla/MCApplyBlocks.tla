---------------------------- MODULE MCApplyBlocks ----------------------------
(***************************************************************************)
(* Instances of ApplyBlocks for TLC: the singletons, the account 5 of key  *)
(* ak, an actor 6, and IDs from 7 on for actors to come.  A message is in  *)
(* two blocks, or shares its nonce with one of another block.  m5 and m6   *)
(* have less gas than a message takes, as in the tests of ApplyMessage.    *)
(***************************************************************************)
EXTENDS ApplyBlocks

CONSTANTS ak, bk, xa

actor(code, balance, head) == [code |-> code, balance |-> balance, nonce |-> 0, head |-> head]

MCGenesis ==
    (0 :> actor("actor", 0, [map |-> (ak :> 5), next |-> 7])) @@ (1 :> actor("actor", 1, 0))
    @@ (2 :> actor("actor", 0, 0)) @@ (3 :> actor("actor", 0, 0))
    @@ (4 :> actor("actor", 0, 0)) @@ (5 :> actor("account", 14, ak)) @@ (6 :> actor("actor", 1, 0))

message(to, value, method, nonce, limit) ==
    [from |-> ak, to |-> to, value |-> value, method |-> method, nonce |-> nonce, limit |-> limit, price |-> 1,
     implicit |-> FALSE]

m1 == message(6, 1, 1, 0, 8)
m2 == message(bk, 1, 0, 0, 5)
m3 == message(xa, 0, 1, 0, 3)
m4 == message(6, 0, 1, 1, 5)
m5 == message(bk, 0, 0, 1, 1)
m6 == message(bk, 0, 0, 1, 0)

MCTipsets ==
    {[nulls |-> 0, blocks |-> <<[miner |-> 1, msgs |-> <<m1>>]>>],
     [nulls |-> 1, blocks |-> <<[miner |-> 1, msgs |-> <<m2>>], [miner |-> 2, msgs |-> <<m2, m4>>]>>],
     [nulls |-> 0, blocks |-> <<[miner |-> 1, msgs |-> <<m3>>], [miner |-> 2, msgs |-> <<m2, m4>>]>>],
     [nulls |-> 0, blocks |-> <<[miner |-> 1, msgs |-> <<m2, m5>>], [miner |-> 2, msgs |-> <<m2, m6>>]>>]}

\* ak is the only origin of actors
MCActorAddr(origin, nonce, n) == 100 + 10 * nonce + n

\* cron and the reward pay actor 6
MCCalls(m) ==
    IF m.implicit THEN {[to |-> 6, value |-> 1, method |-> 0]}
    ELSE [to : {bk, 6, 0}, value : {0, 1}, method : {0, 1}]
=============================================================================
