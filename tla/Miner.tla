-------------------------------- MODULE Miner --------------------------------
(***************************************************************************)
(* The block miner (miner/miner.go): its loop tries the rounds above the   *)
(* node's head, one after the other until a block is won, and sends the    *)
(* block out at its time.  Others may start and stop the loop, and ask for *)
(* the mining base, which moves it.                                        *)
(*                                                                         *)
(* Time is in half epochs: 2e is the timestamp of a block at epoch e, and  *)
(* 2e+1 is a propagation delay later.                                      *)
(***************************************************************************)
EXTENDS Notifs, SelectMessages

CONSTANTS
    Pools,      \* what MpoolPending may return
    MaxTime, MaxFails, MaxStops     \* bounds: time, calls to the node failed, calls of Stop

VARIABLES
    time,
    miner,              \* [pc, stop, lastWork, base, lastBase, until, msgs]; until: end of a sleep,
                        \* base and lastWork are one MiningBase exactly when they have one tipset
    minedBlockHeights,
    sent,               \* history: <<height, tipset below>> of blocks sent out
    fails, stops

minerVars == <<time, miner, minedBlockHeights, sent, fails, stops>>

NoBase == [ts |-> NoTs, nulls |-> 0]

MinerInit ==
    /\ \E ts \in TipSets : Parent[ts] = NoTs /\ head = ts
    /\ changes = <<>>
    /\ time = 0 /\ minedBlockHeights = {} /\ sent = {} /\ fails = 0 /\ stops = 0
    /\ miner = [pc |-> "off", stop |-> FALSE, lastWork |-> NoBase, base |-> NoBase, lastBase |-> NoBase,
                until |-> 0, msgs |-> <<>>]

\* no miner runs
NoMiner ==
    /\ time = MaxTime /\ minedBlockHeights = {} /\ sent = {} /\ fails = 0 /\ stops = 0
    /\ miner = [pc |-> "none"]

-----------------------------------------------------------------------------
(* Bases and blocks *)

GetBestMiningCandidate(m) ==
    IF m.lastWork.ts # NoTs /\ Weight[head] <= Weight[m.lastWork.ts] THEN m
    ELSE [m EXCEPT !.lastWork = [ts |-> head, nulls |-> 0]]

round(base) == Height[base.ts] + base.nulls + 1

\* Mutant: the base of the loop is a copy of lastWork.
nullRoundCopied(m) == [m EXCEPT !.base.nulls = @ + 1]

nullRound(m) ==
    [m EXCEPT !.base.nulls = @ + 1, !.lastWork.nulls = IF m.lastWork.ts = m.base.ts THEN @ + 1 ELSE @]

createBlock(pending) ==
    LET msgs == SelectMessages(pending) IN SubSeq(msgs, 1, Min({Len(msgs), BlockMessageLimit}))

\* what createBlock may choose
blocks == {createBlock(pending) : pending \in Pools}

-----------------------------------------------------------------------------
(* The loop *)

becomesMiner(m) == miner' = m /\ UNCHANGED <<head, changes, time, minedBlockHeights, sent, stops>>
fail == fails < MaxFails /\ fails' = fails + 1

\* niceSleep, and then the loop goes on from its top
niceSleep(m, d) == [m EXCEPT !.pc = "asleep", !.until = time + d]

\* the loop ends, at its top or in the sleep before the next round
stopped ==
    /\ miner.pc \in {"top", "nextRound"} /\ miner.stop
    /\ becomesMiner([miner EXCEPT !.pc = "off", !.stop = FALSE, !.base = NoBase, !.lastBase = NoBase])
    /\ UNCHANGED fails

prebase ==
    /\ miner.pc = "top" /\ ~ miner.stop
    /\ \/ LET m == GetBestMiningCandidate(miner)
          IN  becomesMiner([m EXCEPT !.pc = "waitFunc", !.until = 2 * Height[m.lastWork.ts] + 1])
          /\ UNCHANGED fails
       \/ fail /\ becomesMiner(niceSleep(miner, 0))

waitFunc ==
    /\ miner.pc = "waitFunc" /\ time >= miner.until
    /\ \/ LET m == GetBestMiningCandidate(miner)
          IN  becomesMiner(IF m.lastWork = m.lastBase THEN niceSleep(m, 2)
                           ELSE [m EXCEPT !.pc = "mineOne", !.base = m.lastWork])
          /\ UNCHANGED fails
       \/ fail /\ becomesMiner([miner EXCEPT !.pc = "top"])

\* a failure, a null round or a block
mineOne ==
    /\ miner.pc = "mineOne"
    /\ \/ fail /\ becomesMiner(niceSleep(miner, 0))
       \/ LET m == nullRound([miner EXCEPT !.lastBase = miner.base])
          IN  becomesMiner([m EXCEPT !.pc = "nextRound", !.until = 2 * (Height[m.base.ts] + m.base.nulls) + 1])
          /\ UNCHANGED fails
       \/ /\ \E msgs \in blocks :
              becomesMiner([miner EXCEPT !.pc = "won", !.lastBase = miner.base, !.msgs = msgs])
          /\ UNCHANGED fails

\* at the block's time; SyncSubmitBlock may fail, which is only logged
submitBlock ==
    /\ miner.pc = "won" /\ time >= 2 * round(miner.base)
    /\ minedBlockHeights' = minedBlockHeights \cup {round(miner.base)}
    /\ sent' = IF round(miner.base) \in minedBlockHeights THEN sent
               ELSE sent \cup {<<round(miner.base), miner.base.ts>>}
    /\ miner' = [miner EXCEPT !.pc = "top", !.msgs = <<>>]
    /\ UNCHANGED <<head, changes, time, fails, stops>>

wakeUp ==
    /\ \/ miner.pc \in {"asleep", "nextRound"} /\ time >= miner.until
       \/ miner.pc = "asleep" /\ miner.stop
    /\ becomesMiner([miner EXCEPT !.pc = "top", !.until = 0])
    /\ UNCHANGED fails

mine == stopped \/ prebase \/ waitFunc \/ mineOne \/ submitBlock \/ wakeUp

-----------------------------------------------------------------------------
(* The others *)

Start ==
    /\ miner.pc = "off"
    /\ becomesMiner([miner EXCEPT !.pc = "top"])
    /\ UNCHANGED fails

\* (a second Stop, or one before Start, closes a channel that is closed or nil)
Stop ==
    /\ miner.pc \notin {"off", "none"} /\ ~ miner.stop /\ stops < MaxStops
    /\ miner' = [miner EXCEPT !.stop = TRUE] /\ stops' = stops + 1
    /\ UNCHANGED <<head, changes, time, minedBlockHeights, sent, fails>>

\* the API's MiningBase
MiningBase ==
    /\ miner.pc # "none"
    /\ becomesMiner(GetBestMiningCandidate(miner))
    /\ UNCHANGED fails

\* external: the clock, and the node's head, which has no blocks of the future.  The last head
\* comes early enough for every sleep to end after it, also of a round tried before its time (after Start).
Tick == time < MaxTime /\ time' = time + 1 /\ UNCHANGED <<head, changes, miner, minedBlockHeights, sent, fails, stops>>
NewHead(ts) ==
    /\ miner.pc # "none" /\ Weight[ts] > Weight[head] /\ 2 * Height[ts] <= time /\ time + 5 <= MaxTime
    /\ head' = ts /\ UNCHANGED <<changes, minerVars>>

MinerNext == mine \/ Start \/ Stop \/ MiningBase \/ Tick \/ \E ts \in TipSets : NewHead(ts)

-----------------------------------------------------------------------------
(* Properties *)

\* A block's messages pass the node's checks (sync.go:986-1010) and can pay: from each
\* sender the next nonces in order, its balance enough for all of them, and within the
\* limits of a block, although what is left of a sender after a round keeps its sums and the
\* selecting loop may overshoot the limit of messages.  Of one height one block is sent out,
\* whichever base it was won on, also after the loop was stopped and has forgotten what it
\* tried.
BlockAcceptable ==
    /\ \A b, c \in sent : b[1] = c[1] => b = c
    /\ miner.pc = "won" =>
        /\ Len(miner.msgs) <= BlockMessageLimit
        /\ FoldLeft(LAMBDA a, m : a + m.gas, 0, miner.msgs) <= BlockGasLimit
        /\ \A f \in {m.from : m \in Range(miner.msgs)} :
              LET own == SelectSeq(miner.msgs, LAMBDA m : m.from = f)
              IN  /\ f \in DOMAIN Actors
                  /\ \A n \in DOMAIN own : own[n].valid /\ own[n].nonce = Actors[f].nonce + n - 1
                  /\ FoldLeft(LAMBDA a, m : a + m.funds, 0, own) <= Actors[f].balance

\* on the node's head, with all rounds tried or a block sent out for the present one
upToDate ==
    /\ miner.lastWork.ts = head
    /\ round(miner.lastWork) \in minedBlockHeights \/ 2 * round(miner.lastWork) - 1 > MaxTime

\* The miner catches up: when time has passed it works on the node's head, and has tried
\* every round up to then on it or sent out a block for the round it is at.  Calls to the
\* node that fail, MiningBase moving the base meanwhile and heads it skipped do not make it
\* miss a round.  (After a block it waits for the next head.)
RoundsTried == <>[](miner.pc \in {"none", "off"} \/ upToDate)
==============================================================================
