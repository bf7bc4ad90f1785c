---------------------------- MODULE ChainClients ----------------------------
(***************************************************************************)
(* The parts that read the chain store and change nothing in it: lookups   *)
(* by height (ChainIndex), the state manager, which computes states        *)
(* (StateCache) and waits for messages (MessageWait), and, in the storage  *)
(* miner's process, the window PoSt scheduler (WindowPoSt) and the block   *)
(* miner (Miner).  They share only the chain, so one of them runs at a     *)
(* time.                                                                   *)
(***************************************************************************)
EXTENDS StateCache, MessageWait, WindowPoSt, Miner

CONSTANTS Heads, Asked, SkipLength, CacheSize   \* of ChainIndex

VARIABLES skipCache, lookup     \* of ChainIndex

Index == INSTANCE ChainIndex WITH Callers <- {1}

indexVars == <<skipCache, lookup>>
vars == <<head, changes, wait, cacheVars, postVars, minerVars, indexVars>>

NoCalls == left = 0
NoLookups == skipCache = <<>> /\ lookup = <<>>

Init ==
    /\ CacheInit
    /\ \/ left = MaxCalls /\ NoWait /\ NoPost /\ NoMiner /\ NoLookups
       \/ NoCalls /\ WaitInit /\ NoPost /\ NoMiner /\ NoLookups
       \/ NoCalls /\ wait = [pc |-> "off"] /\ PostInit /\ NoMiner /\ NoLookups
       \/ NoCalls /\ wait = [pc |-> "off"] /\ NoPost /\ MinerInit /\ NoLookups
       \/ NoCalls /\ NoWait /\ NoPost /\ NoMiner /\ Index!Init

Next ==
    \/ CacheNext /\ UNCHANGED <<waitVars, postVars, minerVars, indexVars>>
    \/ WaitNext /\ UNCHANGED <<cacheVars, postVars, minerVars, indexVars>>
    \/ PostNext /\ UNCHANGED <<cacheVars, wait, minerVars, indexVars>>
    \/ MinerNext /\ UNCHANGED <<cacheVars, wait, postVars, indexVars>>
    \/ lookup # <<>> /\ Index!Next /\ UNCHANGED <<cacheVars, waitVars, postVars, minerVars>>

\* Goroutines of callers and the miner's loop are scheduled, computations and the miner's
\* calls to the node end, and time passes.
Fairness ==
    /\ \A c \in Callers : WF_vars(callStep(c) /\ UNCHANGED <<waitVars, postVars, minerVars, indexVars>>)
    /\ WF_vars(mine /\ UNCHANGED <<cacheVars, wait, postVars, indexVars>>)
    /\ WF_vars(Tick /\ UNCHANGED <<cacheVars, wait, postVars, indexVars>>)

Spec == Init /\ [][Next]_vars /\ Fairness

\* GetTipsetByHeight answers right, whatever the state of the index's cache.
RightTipSet == lookup # <<>> => Index!RightTipSet
=============================================================================
