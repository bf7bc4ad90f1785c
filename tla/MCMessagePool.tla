--------------------------- MODULE MCMessagePool ---------------------------
(***************************************************************************)
(* Instances of MessagePool for TLC.  Sender s signs with secp256k1: s0,   *)
(* its replacement r0, and s1.  Sender b signs with BLS: b0.  The chain is *)
(*                                                                         *)
(*     g {} <- p {s0} <- q {s1, b0}     and     g <- f {r0, b0}            *)
(***************************************************************************)
EXTENDS MessagePool

CONSTANTS s, b, s0, r0, s1, b0, g, p, q, f

MCAddrs == {s, b}
MCMessages == {s0, r0, s1, b0}
MCFrom == [m \in MCMessages |-> IF m = b0 THEN b ELSE s]
MCNonce == [m \in MCMessages |-> IF m = s1 THEN 1 ELSE 0]
\* the price of r0 is the least that replaces s0
MCGasPrice == [m \in MCMessages |-> IF m = r0 THEN 6 ELSE 4]
MCRequiredFunds == [m \in MCMessages |-> 1]

MCTipSets == {g, p, q, f}
MCParent == [ts \in MCTipSets |-> CASE ts = g -> NoTs [] ts \in {p, f} -> g [] ts = q -> p]
MCTsMsgs == [ts \in MCTipSets |->
                CASE ts = g -> {} [] ts = p -> {s0} [] ts = q -> {s1, b0} [] ts = f -> {r0, b0}]
MCBaseNonce == [ts \in MCTipSets |-> [x \in MCAddrs |-> IF ts = q /\ x = s THEN 1 ELSE 0]]
\* in the state below q, s can pay for one message only
MCBalance == [ts \in MCTipSets |-> [x \in MCAddrs |-> IF ts = q /\ x = s THEN 1 ELSE 2]]
=============================================================================
