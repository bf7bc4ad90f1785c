------------------------------ MODULE StateCache ------------------------------
(***************************************************************************)
(* TipSetState of chain/stmgr/stmgr.go: the state of a tipset is computed  *)
(* by one caller while others wait on its channel in compWait, and kept in *)
(* stCache.  A computation may fail, or be cancelled with its caller, and  *)
(* may itself ask for the vested funds (GetVestedFunds), which are set up  *)
(* once, under genesisMsigLk, from the state of the genesis tipset.        *)
(*                                                                         *)
(* Every section under stlk is one step; close comes after its release.    *)
(***************************************************************************)
EXTENDS Integers, FiniteSets, Sequences

CONSTANTS
    Callers,
    Keys, GenesisKey,   \* tipset keys
    Undef,              \* cid.Undef
    MaxCalls            \* bound: calls of TipSetState from outside

VARIABLES
    stCache,        \* keys to states
    compWait,       \* keys to channels
    closed,         \* channels that were closed
    calls,          \* of each caller, innermost last: [pc, key, ch, st]
    genesisMsigLk,  \* whether it is held
    genesisMsigs,   \* whether they are set up
    cancelled,      \* callers whose context is done
    answers,        \* history: <<key, state>> that were returned without error
    computed,       \* history: computations started, by key
    failed,         \* history: whether a computation did not succeed
    channels, left  \* channels made, and calls left to make

cacheVars == <<stCache, compWait, closed, calls, genesisMsigLk, genesisMsigs, cancelled, answers,
               computed, failed, channels, left>>

\* external: the state ApplyBlocks computes for a tipset
StateOf(key) == <<"state of", key>>

ASSUME KeysAssumption == GenesisKey \in Keys /\ \A k \in Keys : StateOf(k) # Undef

CacheInit ==
    /\ stCache = <<>> /\ compWait = <<>> /\ closed = {}
    /\ calls = [c \in Callers |-> <<>>]
    /\ genesisMsigLk = FALSE /\ genesisMsigs = FALSE
    /\ cancelled = {} /\ answers = {}
    /\ computed = [k \in Keys |-> 0] /\ failed = FALSE
    /\ channels = 0

\* an assignment to a map
put(m, key, v) == [k \in DOMAIN m \cup {key} |-> IF k = key THEN v ELSE m[k]]

call(pc, key) == [pc |-> pc, key |-> key, ch |-> 0, st |-> Undef]
top(c) == calls[c][Len(calls[c])]
at(c, pc) == calls[c] # <<>> /\ top(c).pc = pc
setCall(c, f) == calls' = [calls EXCEPT ![c][Len(calls[c])] = f]

\* TipSetState returns st, or an error; the one who asked goes on
returns(c, st, err) ==
    LET outer == SubSeq(calls[c], 1, Len(calls[c]) - 1)
        next == IF err THEN "msigsErr" ELSE "msigs"
    IN  /\ calls' = [calls EXCEPT ![c] = IF outer = <<>> THEN <<>> ELSE [outer EXCEPT ![Len(outer)].pc = next]]
        /\ answers' = IF err THEN answers ELSE answers \cup {<<top(c).key, st>>}

TipSetState(c, key) ==
    /\ calls[c] = <<>> /\ left > 0
    /\ calls' = [calls EXCEPT ![c] = <<call("enter", key)>>]
    /\ left' = left - 1
    /\ UNCHANGED <<stCache, compWait, closed, genesisMsigLk, genesisMsigs, cancelled, answers, computed, failed,
                   channels>>

\* a cached state, or a channel of one's own
claim(c) ==
    LET key == top(c).key
    IN  IF key \in DOMAIN stCache
        THEN returns(c, stCache[key], FALSE) /\ UNCHANGED <<compWait, computed, channels>>
        ELSE /\ channels' = channels + 1
             /\ compWait' = put(compWait, key, channels')
             /\ setCall(c, [top(c) EXCEPT !.pc = "compute", !.ch = channels'])
             /\ computed' = [computed EXCEPT ![key] = @ + 1]
             /\ UNCHANGED answers

enter(c) ==
    /\ at(c, "enter")
    /\ IF top(c).key \in DOMAIN compWait
       THEN /\ setCall(c, [top(c) EXCEPT !.pc = "wait", !.ch = compWait[top(c).key]])
            /\ UNCHANGED <<compWait, answers, computed, channels>>
       ELSE claim(c)
    /\ UNCHANGED <<stCache, closed, genesisMsigLk, genesisMsigs, cancelled, failed, left>>

woken(c) ==
    /\ at(c, "wait") /\ top(c).ch \in closed
    /\ claim(c)
    /\ UNCHANGED <<stCache, closed, genesisMsigLk, genesisMsigs, cancelled, failed, left>>

waitCancelled(c) ==
    /\ at(c, "wait") /\ c \in cancelled
    /\ returns(c, Undef, TRUE)
    /\ UNCHANGED <<stCache, compWait, closed, genesisMsigLk, genesisMsigs, cancelled, computed, failed, channels, left>>

\* computeTipSetState succeeds, fails, or asks for the vested funds first
compute(c) ==
    /\ at(c, "compute") \/ at(c, "rest")
    /\ \/ /\ setCall(c, [top(c) EXCEPT !.pc = "deferred", !.st = StateOf(top(c).key)])
          /\ UNCHANGED failed
       \/ /\ top(c).key # GenesisKey
          /\ setCall(c, [top(c) EXCEPT !.pc = "deferred"]) /\ failed' = TRUE
       \/ /\ at(c, "compute") /\ top(c).key # GenesisKey
          /\ setCall(c, [top(c) EXCEPT !.pc = "vested"]) /\ UNCHANGED failed
    /\ UNCHANGED <<stCache, compWait, closed, genesisMsigLk, genesisMsigs, cancelled, answers, computed, channels, left>>

\* GetVestedFunds
GetVestedFunds(c) ==
    /\ at(c, "vested") /\ ~ genesisMsigLk
    /\ IF genesisMsigs THEN setCall(c, [top(c) EXCEPT !.pc = "rest"]) /\ UNCHANGED genesisMsigLk
       ELSE /\ calls' = [calls EXCEPT ![c] = Append(@, call("enter", GenesisKey))]
            /\ genesisMsigLk' = TRUE
    /\ UNCHANGED <<stCache, compWait, closed, genesisMsigs, cancelled, answers, computed, failed, channels, left>>

\* setupGenesisMsigs has its answer
setupGenesisMsigs(c) ==
    /\ at(c, "msigs") \/ at(c, "msigsErr")
    /\ genesisMsigs' = at(c, "msigs")
    /\ genesisMsigLk' = FALSE
    /\ setCall(c, [top(c) EXCEPT !.pc = IF genesisMsigs' THEN "rest" ELSE "deferred"])
    /\ failed' = (failed \/ ~ genesisMsigs')
    /\ UNCHANGED <<stCache, compWait, closed, cancelled, answers, computed, channels, left>>

\* Mutant: a failed computation leaves nobody to wait for, and is cached.
storeAny(key, st) == put(stCache, key, st)

store(key, st) == IF st = Undef THEN stCache ELSE put(stCache, key, st)

\* the deferred function, as far as it holds stlk
deferred(c) ==
    /\ at(c, "deferred")
    /\ compWait' = [k \in DOMAIN compWait \ {top(c).key} |-> compWait[k]]
    /\ stCache' = store(top(c).key, top(c).st)
    /\ setCall(c, [top(c) EXCEPT !.pc = "close"])
    /\ UNCHANGED <<closed, genesisMsigLk, genesisMsigs, cancelled, answers, computed, failed, channels, left>>

\* Mutant: waiters are only woken when there is a state.
closedIfStored(c) == IF top(c).st = Undef THEN closed ELSE closed \cup {top(c).ch}

nowClosed(c) == closed \cup {top(c).ch}

close(c) ==
    /\ at(c, "close")
    /\ closed' = nowClosed(c)
    /\ returns(c, top(c).st, top(c).st = Undef)
    /\ UNCHANGED <<stCache, compWait, genesisMsigLk, genesisMsigs, cancelled, computed, failed, channels, left>>

\* external: the caller gives up
Cancel(c) ==
    /\ calls[c] # <<>> /\ c \notin cancelled
    /\ cancelled' = cancelled \cup {c}
    /\ UNCHANGED <<stCache, compWait, closed, calls, genesisMsigLk, genesisMsigs, answers, computed, failed, channels,
                   left>>

callStep(c) ==
    \/ enter(c) \/ woken(c) \/ waitCancelled(c) \/ compute(c) \/ GetVestedFunds(c) \/ setupGenesisMsigs(c)
    \/ deferred(c) \/ close(c)

CacheNext ==
    \E c \in Callers :
        \/ \E key \in Keys : TipSetState(c, key)
        \/ callStep(c) \/ Cancel(c)

CacheSpec == CacheInit /\ [][CacheNext]_cacheVars

-----------------------------------------------------------------------------
(* Properties *)

\* TipSetState answers with the state of the tipset it was asked for, also after
\* computations of it that failed; and as long as none fails, each tipset is computed once,
\* however many ask for it.
AnswersRight ==
    /\ \A p \in answers : p[2] = StateOf(p[1])
    /\ ~ failed => \A k \in Keys : computed[k] <= 1

\* Every call returns: nobody waits for a channel that nobody closes, nor for
\* genesisMsigLk while its holder waits.
CallsReturn == \A c \in Callers : []<>(calls[c] = <<>>)
=============================================================================
