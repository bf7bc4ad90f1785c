------------------------------ MODULE MCEvents ------------------------------
(***************************************************************************)
(* Instances of Events for TLC.  Tipsets are named by height:              *)
(*                                                                         *)
(*     g <- a1 <- a2 <-------- a4 <- a5                                    *)
(*          a1 <-------- b3 <- b4                                          *)
(*          a1 <- c2 <-------------- c5                                    *)
(*                                                                         *)
(* Heads may move from any of them to a heavier one; c2 is heavier than a5.*)
(* Height handlers and watchers share the cache and the head changes, and  *)
(* nothing else: a behaviour has the one or the other.  Watchers without   *)
(* matchOnce share nothing: a behaviour has one.                           *)
(***************************************************************************)
EXTENDS Events

CONSTANTS g, a1, a2, a4, a5, b3, b4, c2, c5, x, y, p, q, m, o

MCTipSets == {g, a1, a2, a4, a5, b3, b4, c2, c5}
MCParent == [ts \in MCTipSets |->
    CASE ts = g -> NoTs [] ts = a1 -> g [] ts \in {a2, b3, c2} -> a1 [] ts = a4 -> a2 [] ts = a5 -> a4
      [] ts = b4 -> b3 [] ts = c5 -> c2]
MCHeight == [ts \in MCTipSets |->
    CASE ts = g -> 0 [] ts = a1 -> 1 [] ts \in {a2, c2} -> 2 [] ts = b3 -> 3 [] ts \in {a4, b4} -> 4
      [] ts \in {a5, c5} -> 5]
MCWeight == [ts \in MCTipSets |->
    CASE ts = g -> 0 [] ts = a1 -> 1 [] ts = a2 -> 2 [] ts = b3 -> 3 [] ts = a4 -> 4 [] ts = b4 -> 5
      [] ts = a5 -> 6 [] ts = c2 -> 7 [] ts = c5 -> 8]
\* epoch 3, x's height, and epoch 4, at which y is called, are null rounds on some of the
\* forks; a reorg from one fork to another takes x below its height and y only below
\* height + confidence
MCH == [z \in {x, y} |-> IF z = x THEN 3 ELSE 1]
MCConfidence == [z \in {x, y} |-> IF z = x THEN 2 ELSE 3]
\* from a1, from a4, below which epoch 3 is a null round, or from b4, with some of the
\* changes that led to it still to come, or from c2, after a change to a higher tipset
MCStarts == {<<a1, <<>>>>, <<a4, <<>>>>, <<b4, <<>>>>, <<b4, <<<<a2, b3>>, <<b3, b4>>>>>>, <<b4, <<<<a4, b4>>>>>>,
             <<c2, <<<<a4, a5>>, <<a5, c2>>>>>>}

\* p watches calls and q the state, with a timeout at the height of b4 and a4
MCKind == [w \in {p, q} |-> IF w = p THEN "msg" ELSE "state"]
MCMatches == [w \in {p, q} |-> {m}]
MCMatchOnce == [w \in {p, q} |-> FALSE]
MCConf == [w \in {p, q} |-> 1]
MCTimeout == [w \in {p, q} |-> IF w = p THEN NoTimeout ELSE 3]
MCMore == [w \in {p, q} |-> TRUE]
\* m is on every fork, executed at a2 and again, another call, at c5 and b4
MCMsgs == [ts \in MCTipSets |-> IF ts \in {a1, c2, b3} THEN {m} ELSE IF ts = a4 THEN {o} ELSE {}]
MCState == [ts \in MCTipSets |-> IF ts \in {a5, b4} THEN 1 ELSE IF ts = c2 THEN 2 ELSE 0]

\* who has not made its call yet need not make it: no other sets of them are needed
MCInit ==
    /\ EventsInit
    /\ \/ /\ \A z \in Handlers : at[z] = "new"
          /\ \A w \in Watchers : trigger[w].stage = "never"
       \/ /\ \A z \in Handlers : at[z] = "never"
          /\ Cardinality({w \in Watchers : trigger[w].stage = "new"}) = 1
MCSpec == MCInit /\ [][EventsNext]_evars /\ Fairness
=============================================================================
