------------------------------- MODULE Syncer -------------------------------
(***************************************************************************)
(* Syncer (chain/sync.go): tipsets announced by peers are handed to the    *)
(* sync manager (see SyncManager), whose workers call Sync: headers are    *)
(* collected back to the head's chain, from the store or over BlockSync,   *)
(* every tipset is validated from the bottom up with its messages, and the *)
(* target is put into the chain store (see ChainStore).  Blocks are named  *)
(* by their CIDs; peers serve what collectChainSegment answers, which may  *)
(* be less than they were asked for.                                       *)
(***************************************************************************)
EXTENDS Forks

CONSTANTS
    Blocks, Weight,         \* of a tipset: its blocks in order, and its weight
    Miner,                  \* of a block
    Genesis,
    Invalid, Unsorted,      \* blocks that fail validation; of these, beacon entries out of order
    Mixed,                  \* tipsets whose blocks differ in their beacon entries
    Callers,                \* goroutines that call Sync: sync workers, and announcements of own blocks
    ForkLengthThreshold, Window,    \* tipsets asked for to resolve a fork, and at once otherwise
    Announcements,          \* bound: the tipsets announced, a set of sequences of them
    MaxFaults               \* bound: failures of node and network

VARIABLES
    head,       \* the heaviest tipset
    headers,    \* blocks whose headers are in the store
    messages,   \* blocks whose messages are in the store
    validated,  \* blocks found valid
    tracker,    \* blocks in the store's tipset tracker
    bad,        \* the bad block cache
    targets,    \* tipsets handed to the sync manager
    sync,       \* of each caller: [pc, ts, known, set, accepted, i, have, res], where have
                \* is the first tipset with fetched messages; after "long", the tips of syncFork
    coming,     \* announcements to come, in any order
    faults,
    blamed,     \* history: targets refused as too long a fork, blocks whose own validation the node failed
    loose       \* history: blocks that came into the head without their messages

vars == <<head, headers, messages, validated, tracker, bad, targets, sync, coming, faults, blamed, loose>>
stored == <<head, headers, messages, validated, tracker>>

Idle == [pc |-> "idle", ts |-> NoTs, known |-> NoTs, set |-> <<>>, accepted |-> {}, i |-> 0, have |-> 0, res |-> "none"]

Cids(ts) == Range(Blocks[ts])

\* the blocks with the parents and the height of ts
beside(ts) == UNION {Cids(u) : u \in {t \in TipSets : Parent[t] = Parent[ts] /\ Height[t] = Height[ts]}}

OnePerMiner(S) == \A a, b \in S : Miner[a] = Miner[b] => a = b
Miners(ts) == {Miner[b] : b \in Cids(ts)}

ASSUME GenesisAssumption ==
    /\ Genesis \in TipSets /\ Height[Genesis] = 0 /\ Cids(Genesis) \cap Invalid = {}
    /\ \A ts \in TipSets : Parent[ts] = NoTs <=> ts = Genesis

\* A block has one parent and one height.  A tipset has one block of a miner, and valid
\* blocks of different miners with the same parent and height are a tipset.
ASSUME BlocksAssumption ==
    /\ \A ts \in TipSets : Blocks[ts] \in Seq(Cids(ts)) /\ Blocks[ts] # <<>>
    /\ \A t, u \in TipSets : Cids(t) \cap Cids(u) # {} => Parent[t] = Parent[u] /\ Height[t] = Height[u]
    /\ \A ts \in TipSets : OnePerMiner(Cids(ts))
    /\ \A ts \in TipSets : \A S \in SUBSET (beside(ts) \ Invalid) :
        S # {} /\ OnePerMiner(S) => \E t \in TipSets : Cids(t) = S

\* Every block adds its WinCount to the weight of its tipset, and the WinCount is
\* drawn for the miner and the round.
ASSUME WeightAssumption ==
    /\ Weight \in [TipSets -> Nat]
    /\ \A t, u \in TipSets : Parent[t] = Parent[u] /\ Height[t] = Height[u] /\ Miners(t) \subseteq Miners(u)
                              => Weight[t] <= Weight[u]

ASSUME InvalidAssumption ==
    /\ Unsorted \subseteq Invalid
    /\ Mixed \subseteq {ts \in TipSets : Cids(ts) \cap Invalid # {}}

ASSUME SizesAssumption ==
    /\ ForkLengthThreshold \in Nat \ {0} /\ Window \in Nat \ {0}
    /\ Announcements \subseteq Seq(TipSets)

Init ==
    /\ head = Genesis
    /\ headers = Cids(Genesis) /\ messages = Cids(Genesis)
    /\ validated = Cids(Genesis) /\ tracker = Cids(Genesis)
    /\ bad = {} /\ targets = {} /\ blamed = {} /\ loose = {}
    /\ sync = [c \in Callers |-> Idle]
    /\ coming \in Announcements /\ faults = 0

ParentWeight(ts) == IF ts = Genesis THEN 0 ELSE Weight[Parent[ts]]
hasBad(ts) == Cids(ts) \cap bad # {}

fault == faults < MaxFaults /\ faults' = faults + 1

\* the tipsets of a chain from the top down
segments[ts \in TipSets] == <<ts>> \o (IF Parent[ts] = NoTs THEN <<>> ELSE segments[Parent[ts]])

\* what a peer may answer: the tipsets from ts down, fewer than asked for when its limit
\* is lower (StatusPartial, which GetBlocks takes like StatusOK)
collectChainSegment(ts, length) ==
    LET chain == segments[ts] IN {SubSeq(chain, 1, n) : n \in 1 .. Min({length, Len(chain)})}

-----------------------------------------------------------------------------
(* Announcements *)

\* Mutant: the messages are checked and not stored.
metaUnkept(ts) == {}

\* the blocks of ts whose messages the loop of InformNewHead stores: those before a bad one
ValidateMsgMeta(ts) == {Blocks[ts][i] : i \in {j \in DOMAIN Blocks[ts] : \A k \in 1 .. j : Blocks[ts][k] \notin bad}}

\* Sync up to collectChain
begun(ts) ==
    IF ParentWeight(head) > ParentWeight(ts) \/ ts \in {Genesis, head}
    THEN [Idle EXCEPT !.pc = "ended", !.ts = ts, !.res = "ignored"]
    ELSE [Idle EXCEPT !.pc = "collect", !.ts = ts]

free(c) == sync[c].pc \in {"idle", "ended"}

InformNewHead(ts) ==
    /\ \E i \in DOMAIN coming : coming[i] = ts /\ coming' = SubSeq(coming, 1, i - 1) \o SubSeq(coming, i + 1, Len(coming))
    /\ messages' = messages \cup ValidateMsgMeta(ts)
    /\ \/ /\ hasBad(ts)
          /\ UNCHANGED <<headers, targets, sync>>
       \/ /\ ~ hasBad(ts)     \* from a peer
          /\ headers' = headers \cup Cids(ts)
          /\ targets' = IF ParentWeight(ts) < ParentWeight(head) THEN targets ELSE targets \cup {ts}
          /\ UNCHANGED sync
       \/ /\ ~ hasBad(ts)     \* a block of this node, made on a tipset it has executed
          /\ Len(Blocks[ts]) = 1 /\ Parent[ts] # NoTs /\ Cids(Parent[ts]) \subseteq validated \cap messages
          /\ \E c \in Callers : free(c) /\ sync' = [sync EXCEPT ![c] = begun(ts)]
          /\ UNCHANGED <<headers, targets>>
    /\ UNCHANGED <<head, validated, tracker, bad, faults, blamed, loose>>

\* a worker takes a target
Sync(c) ==
    /\ free(c)
    /\ \E ts \in targets : targets' = targets \ {ts} /\ sync' = [sync EXCEPT ![c] = begun(ts)]
    /\ UNCHANGED <<stored, bad, coming, faults, blamed, loose>>

-----------------------------------------------------------------------------
(* Headers *)

Last(set) == set[Len(set)]
goes(c, s) == sync' = [sync EXCEPT ![c] = s]
ended(s, res) == [s EXCEPT !.pc = "ended", !.res = res, !.accepted = {}, !.i = 0, !.have = 0]

\* the start of collectHeaders: known is read once
collectChain(c) ==
    /\ sync[c].pc = "collect"
    /\ LET ts == sync[c].ts
           s == [sync[c] EXCEPT !.known = head, !.set = <<ts>>]
       IN  \/ /\ hasBad(Parent[ts])
              /\ bad' = bad \cup Cids(ts)
              /\ goes(c, ended(s, "bad"))
           \/ /\ ~ hasBad(Parent[ts]) /\ Blocks[ts][1] \in Unsorted
              /\ bad' = bad \cup {Blocks[ts][1]}
              /\ goes(c, ended(s, "bad"))
           \/ /\ ~ hasBad(Parent[ts]) /\ Blocks[ts][1] \notin Unsorted
              /\ goes(c, IF ts \in Mixed THEN ended(s, "beacon") ELSE [s EXCEPT !.pc = "headers"])
              /\ UNCHANGED bad
    /\ UNCHANGED <<stored, targets, coming, faults, blamed, loose>>

untilHeight(s) == Height[s.known] + 1

\* one round of the loop of collectHeaders
collectHeaders(c) ==
    /\ sync[c].pc = "headers" /\ Height[Last(sync[c].set)] > untilHeight(sync[c])
    /\ \E got \in collectChainSegment(Parent[Last(sync[c].set)],
                                      Min({Window, Height[Last(sync[c].set)] - untilHeight(sync[c])})) :
       LET s == sync[c]
           at == Parent[Last(s.set)]
           new == SubSeq(got, 1, Max({0} \cup {i \in DOMAIN got : \A j \in 1 .. i : Height[got[j]] >= untilHeight(s)}))
           refuse == bad' = bad \cup s.accepted /\ goes(c, ended(s, "bad")) /\ UNCHANGED faults
           local == Cids(at) \subseteq headers
       IN  \/ /\ hasBad(at) \/ (~ local /\ \E i \in DOMAIN new : hasBad(new[i]))
              /\ refuse
           \/ /\ ~ hasBad(at) /\ local
              /\ goes(c, [s EXCEPT !.set = Append(@, at), !.accepted = @ \cup Cids(at)])
              /\ UNCHANGED <<bad, faults>>
           \/ /\ ~ hasBad(at) /\ ~ local /\ \A i \in DOMAIN new : ~ hasBad(new[i])
              /\ goes(c, [s EXCEPT !.set = @ \o new, !.accepted = @ \cup Cids(at),
                                   !.pc = IF Len(new) < Len(got) THEN "base" ELSE @])
              /\ UNCHANGED <<bad, faults>>
           \/ /\ ~ hasBad(at) /\ ~ local     \* GetBlocks fails
              /\ fault
              /\ goes(c, ended(s, "net"))
              /\ UNCHANGED bad
    /\ UNCHANGED <<stored, targets, coming, blamed, loose>>

\* the loop of syncFork, down the tips it got and the head's chain
walk(tips) ==
    LET from[p \in (1 .. Len(tips) + 1) \X TipSets] ==
            LET cur == p[1]  nts == p[2] IN
            IF cur > Len(tips) THEN [err |-> "long", fork |-> <<>>]
            ELSE IF Height[nts] = 0 THEN [err |-> "genesis", fork |-> <<>>]
            ELSE IF nts = tips[cur] THEN [err |-> "none", fork |-> SubSeq(tips, 1, cur)]
            ELSE IF Height[nts] < Height[tips[cur]] THEN from[<<cur + 1, nts>>]
            ELSE from[<<cur, Parent[nts]>>]
    IN  from

\* Mutant: the target's fork is taken to start at the head's parent.
forkAssumed(tips, known) == [err |-> "none", fork |-> <<>>]

\* Mutant: the last tip is not compared.
forkShort(tips, known) ==
    IF known = Genesis THEN [err |-> "load", fork |-> <<>>]
    ELSE walk(SubSeq(tips, 1, Len(tips) - 1))[<<1, Parent[known]>>]

\* the fragment of the tips above the head's chain
syncFork(tips, known) ==
    IF known = Genesis THEN [err |-> "load", fork |-> <<>>]
    ELSE walk(tips)[<<1, Parent[known]>>]

\* headers are persisted and messages are next
persisted(s, set) == [s EXCEPT !.pc = "messages", !.set = set, !.accepted = {}, !.i = Len(set), !.have = Len(set) + 1]

\* the end of collectHeaders, and PersistBlockHeaders
linkHeaders(c) ==
    /\ \/ sync[c].pc = "base"
       \/ sync[c].pc = "headers" /\ Height[Last(sync[c].set)] <= untilHeight(sync[c])
    /\ LET s == sync[c]
           base == Last(s.set)
           linked == Parent[base] \in {s.known, Parent[s.known]}
           keep(set) == /\ headers' = headers \cup UNION {Cids(set[i]) : i \in DOMAIN set}
                        /\ goes(c, persisted(s, set))
                        /\ UNCHANGED <<bad, blamed, faults>>
       IN  \/ linked /\ keep(s.set)
           \/ /\ ~ linked /\ base # Genesis
              /\ \E tips \in collectChainSegment(Parent[base], ForkLengthThreshold) :
                 LET link == syncFork(tips, s.known)
                     refused == IF link.err = "long" THEN Cids(s.ts) ELSE {}
                 IN  \/ link.err = "none" /\ keep(s.set \o link.fork)
                     \/ /\ link.err # "none"
                        /\ bad' = bad \cup refused /\ blamed' = blamed \cup refused
                        /\ goes(c, [ended(s, link.err) EXCEPT !.have = Len(tips)])
                        /\ UNCHANGED <<headers, faults>>
           \/ /\ ~ linked            \* GetBlocks fails
              /\ base = Genesis \/ faults < MaxFaults
              /\ faults' = IF base = Genesis THEN faults ELSE faults + 1
              /\ goes(c, ended(s, "net"))
              /\ UNCHANGED <<headers, bad, blamed>>
    /\ UNCHANGED <<head, messages, validated, tracker, targets, coming, loose>>

-----------------------------------------------------------------------------
(* Messages and validation *)

\* the first of the tipsets whose messages are asked for with those of set[i]
batchStart(i) == i + 1 - Min({Window, i - 1})

\* TryFillTipSet fails for tipset s.set[s.i]
unfilled(s) == s.pc = "messages" /\ s.i > 0 /\ s.i < s.have /\ ~ Cids(s.set[s.i]) \subseteq messages

\* its messages are fetched
fetchMessages(c) ==
    LET s == sync[c] IN
    /\ unfilled(s)
    /\ \/ goes(c, [s EXCEPT !.have = batchStart(s.i)]) /\ UNCHANGED faults
       \/ fault /\ goes(c, ended(s, "net"))
    /\ UNCHANGED <<stored, bad, targets, coming, blamed, loose>>

\* ValidateBlock: the parents' state must be at hand
validBlock(ts, b) ==
    b \in validated \/ (b \notin Invalid /\ Cids(Parent[ts]) \subseteq headers \cap messages)

\* the callback of iterFullTipsets, and the next index unless the messages were fetched
ValidateTipSet(c) ==
    LET s == sync[c]
        ts == s.set[s.i]
        blks == IF ts = Genesis THEN {} ELSE Cids(ts)
        good == {b \in blks : validBlock(ts, b)}
    IN
    /\ s.pc = "messages" /\ s.i > 0 /\ ~ unfilled(s)
    /\ \/ /\ good = blks
          /\ validated' = validated \cup blks /\ tracker' = tracker \cup blks
          /\ goes(c, IF s.i < s.have THEN [s EXCEPT !.i = @ - 1] ELSE [s EXCEPT !.pc = "persist"])
          /\ UNCHANGED <<bad, blamed, faults>>
       \/ /\ good # blks
          /\ validated' = validated \cup good /\ tracker' = tracker \cup good
          /\ bad' = bad \cup (blks \ good)
          /\ goes(c, ended(s, "invalid"))
          /\ UNCHANGED <<blamed, faults>>
       \/ \E b \in good \ validated :      \* b is from the future, or the node fails
          /\ fault
          /\ \E failed \in {{}, {b}} : bad' = bad \cup failed \cup (blks \ good) /\ blamed' = blamed \cup failed
          /\ validated' = validated \cup (good \ {b}) /\ tracker' = tracker \cup (good \ {b})
          /\ goes(c, ended(s, "invalid"))
    /\ UNCHANGED <<head, headers, messages, targets, coming, loose>>

\* Mutant: messages fetched over BlockSync are dropped once validated.
persistNothing(c) ==
    /\ sync[c].pc = "persist"
    /\ goes(c, [sync[c] EXCEPT !.pc = "messages", !.i = @ - 1])
    /\ UNCHANGED <<stored, bad, targets, coming, faults, blamed, loose>>

\* the fetched messages are stored once their tipset was validated
persistMessages(c) ==
    LET s == sync[c] IN
    /\ s.pc = "persist"
    /\ \/ /\ messages' = messages \cup Cids(s.set[s.i])
          /\ goes(c, [s EXCEPT !.pc = "messages", !.i = @ - 1])
          /\ UNCHANGED faults
       \/ /\ fault
          /\ goes(c, ended(s, "store"))
          /\ UNCHANGED messages
    /\ UNCHANGED <<head, headers, validated, tracker, bad, targets, coming, blamed, loose>>

-----------------------------------------------------------------------------
(* The new head *)

\* the tipset of the first block of ts and the tracker's blocks beside it, one of each miner
expandTipset(ts) ==
    LET first == Blocks[ts][1]
        all == {first} \cup (tracker \cap beside(ts))
    IN  {t \in TipSets : first \in Cids(t) /\ Cids(t) \subseteq all /\ {Miner[b] : b \in all} \subseteq Miners(t)}

\* Mutant: the new tipset is compared with the head that headers were collected for.
heavierThanKnown(s, ts) == Weight[ts] > Weight[s.known]

MaybeTakeHeavierTipSet(s, ts) == Weight[ts] > Weight[head]

PutTipSet(c) ==
    LET s == sync[c] IN
    /\ s.pc = "messages" /\ s.i = 0
    /\ headers' = headers \cup Cids(s.ts)
    /\ \E ts \in expandTipset(s.ts) : head' = IF MaybeTakeHeavierTipSet(s, ts) THEN ts ELSE head
    /\ loose' = loose \cup (Cids(head') \ messages)
    /\ goes(c, ended(s, "ok"))
    /\ UNCHANGED <<messages, validated, tracker, bad, targets, coming, faults, blamed>>

Step(c) ==
    \/ collectChain(c) \/ collectHeaders(c) \/ linkHeaders(c)
    \/ fetchMessages(c) \/ ValidateTipSet(c) \/ persistMessages(c) \/ PutTipSet(c)

Next ==
    \/ \E ts \in TipSets : InformNewHead(ts)
    \/ \E c \in Callers : Sync(c) \/ Step(c)

\* goroutines run on, and requests of BlockSync end or time out
\* (a step other than fetchMessages is enabled whenever the caller is in Sync)
Fairness ==
    \A c \in Callers :
        /\ WF_vars(fetchMessages(c))
        /\ []<>(free(c) \/ unfilled(sync[c])) \/ []<><<Step(c)>>_vars

Spec == Init /\ [][Next]_vars /\ Fairness

-----------------------------------------------------------------------------
(* Properties *)

\* The blocks of ts, or of a tipset below it, include one of S.
above(ts, S) == \E t \in Chain[ts] : Cids(t) \cap S # {}

\* Nothing is validated on top of a tipset that was not: when a block is found
\* valid (sync.go:616), the blocks of its parent tipset were, and their headers
\* and messages are stored, whatever was collected, refused or fetched before.
ChainValidated ==
    \A ts \in TipSets \ {Genesis} :
        Cids(ts) \cap validated # {} => Cids(Parent[ts]) \subseteq validated \cap headers \cap messages

\* The head can be executed: its headers and messages are stored and its blocks
\* were found valid, the ones the store's tracker added to the target included.
HeadComplete == Cids(head) \subseteq validated \cap headers \cap messages

\* A block is marked bad only for what it is or stands on: it is invalid, or was
\* itself refused (a target whose fork ErrForkTooLong ended, a block during whose own
\* validation the node failed), or it is built on such a block or on one that the
\* tracker put into the head without messages.  Neither the valid siblings of a block
\* that failed nor, with acceptedBlocks, a block that is not above a bad one are marked.
BadSound ==
    \A ts \in TipSets : \A b \in bad \cap Cids(ts) :
        b \in Invalid \cup blamed \/ above(Parent[ts], Invalid \cup blamed \cup loose)

\* A fork is refused as longer than the threshold (sync.go:1338) only if the tipset it
\* shares with the head's chain lies below every tip the peer answered with, null
\* rounds on either side or not.  The peer may answer with fewer tips than
\* ForkLengthThreshold: the code does not tell a short answer from a long fork.
ForkRefused ==
    \A c \in Callers : sync[c].res = "long" =>
        \A ts \in Chain[Last(sync[c].set)] \cap Chain[sync[c].known] :
            Cardinality(Chain[Last(sync[c].set)] \ Chain[ts]) > sync[c].have

\* Once Sync has returned without error the head is at least as heavy as the
\* target, and no other caller's Sync moves it to a lighter tipset later.
SyncedOrHeavier == \A c \in Callers : sync[c].res = "ok" => Weight[head] >= Weight[sync[c].ts]

\* Every Sync ends: the loop that fills tipsets with messages (sync.go:1367)
\* makes no progress on a target without messages, and none is ever handed over.
SyncEnds == \A c \in Callers : sync[c].pc \notin {"idle", "ended"} ~> sync[c].pc = "ended"
=============================================================================
