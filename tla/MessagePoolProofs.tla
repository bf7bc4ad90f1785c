-------------------------- MODULE MessagePoolProofs --------------------------
(***************************************************************************)
(* The bookkeeping of the message pool is right for every set of senders   *)
(* and messages, every chain and every pool limit.  PoolOK, what every     *)
(* critical section of mp.lk preserves, is the inductive invariant; it has *)
(* one lemma for each of addLocked, remove and pruneMessages.              *)
(***************************************************************************)
EXTENDS MessagePool, SetLemmas, TLAPS

\* the time limit of the SMT solver covers the preparation of the next obligations
USE SMTT(60)

\* What holds whenever mp.lk is free.
PoolOK ==
    /\ pending \subseteq Messages
    /\ nextNonce \in [Addrs -> Nat]
    /\ currentSize \in Int
    /\ blsSigCache \subseteq Bls
    /\ pruneTrigger \in BOOLEAN
    /\ SizeMatches
    /\ OneMessagePerNonce
    /\ NextNonceAbovePending

\* An addition that takes the pool over its limit fills the trigger.
TriggerKept ==
    /\ pruneTrigger => pruneTrigger'
    /\ currentSize' > SizeHi => pruneTrigger' \/ currentSize > SizeHi

\* Subsets of the messages, and their nonces, are finite sets.
LEMMA MessageSets ==
    ASSUME NEW S \in SUBSET Messages
    PROVE  /\ IsFiniteSet(S) /\ Cardinality(S) \in Nat
           /\ {Nonce[m] : m \in S} \in SUBSET Nat
           /\ IsFiniteSet({Nonce[m] : m \in S})
<1>1. IsFiniteSet(S)
  BY MessagesAssumption, FS_Subset
<1> QED
  BY <1>1, MessagesAssumption, FS_CardinalityType, ImageIsFinite, ZenonT(60)

\* nextNonceAfterRemove is above the nonces that are left.
LEMMA NextNonceAfterRemove ==
    ASSUME NEW left \in SUBSET Messages, NEW n \in Nat
    PROVE  /\ nextNonceAfterRemove(left, n) \in Nat
           /\ \A m \in left : Nonce[m] < nextNonceAfterRemove(left, n)
<1>1. CASE left = {}
  BY <1>1 DEF nextNonceAfterRemove
<1>2. CASE left # {}
  <2> DEFINE S == {Nonce[m] : m \in left} \cup {n}
  <2>1. S \in SUBSET Nat /\ IsFiniteSet(S) /\ S # {}
    BY MessageSets, FS_AddElement, ZenonT(60)
  <2> HIDE DEF S
  <2>2. Max(S) \in Nat /\ \A k \in S : k <= Max(S)
    BY <2>1, MaxOfFinite, ZenonT(60)
  <2>3. nextNonceAfterRemove(left, n) = Max(S) + 1
    BY <1>2 DEF nextNonceAfterRemove, S
  <2>4. \A m \in left : Nonce[m] \in S /\ Nonce[m] \in Nat
    BY MessagesAssumption DEF S
  <2> QED
    BY <2>2, <2>3, <2>4
<1> QED
  BY <1>1, <1>2

-----------------------------------------------------------------------------
(* The three changes to the pool *)

\* addLocked keeps the pool's books and fills the trigger of a pool that outgrows its limit.
LEMMA AddLockedKeepsPool ==
    ASSUME PoolOK, NEW m \in Messages, addLocked(m)
    PROVE  PoolOK' /\ TriggerKept
<1> USE DEF PoolOK
<1>1. From[m] \in Addrs /\ Nonce[m] \in Nat /\ SizeHi \in Nat
  BY MessagesAssumption, SizesAssumption
<1>2. nextNonceAfterAdd(m) \in Nat /\ nextNonceAfterAdd(m) > Nonce[m]
  BY <1>1 DEF nextNonceAfterAdd
<1>3. msgSet(From[m]) # {} => nextNonceAfterAdd(m) >= nextNonce[From[m]]
  BY <1>1 DEF nextNonceAfterAdd
<1>4. nextNonce' = [nextNonce EXCEPT ![From[m]] = nextNonceAfterAdd(m)]
  BY DEF addLocked
<1>5. nextNonce' \in [Addrs -> Nat] /\ blsSigCache' \subseteq Bls
  BY <1>2, <1>4, ZenonT(60) DEF addLocked, cached
<1>6. \A e \in pending : Nonce[e] < nextNonce'[From[e]]
  <2>1. TAKE e \in pending
  <2>2. From[e] \in Addrs /\ Nonce[e] \in Nat /\ Nonce[e] < nextNonce[From[e]]
    BY MessagesAssumption DEF NextNonceAbovePending
  <2>3. CASE From[e] = From[m]
    <3>1. msgSet(From[m]) # {}
      BY <2>3 DEF msgSet
    <3> QED
      BY <1>1, <1>2, <1>3, <1>4, <2>2, <2>3, <3>1
  <2>4. CASE From[e] # From[m]
    BY <1>4, <2>2, <2>4
  <2> QED
    BY <2>3, <2>4
<1>7. CASE ~ Accepts(m)
  <2>1. UNCHANGED <<pending, currentSize, pruneTrigger>>
    BY <1>7 DEF addLocked
  <2> QED
    BY <1>5, <1>6, <2>1
    DEF TriggerKept, SizeMatches, OneMessagePerNonce, NextNonceAbovePending
<1>8. CASE Accepts(m)
  <2>1. /\ pending' = (pending \ SameSlot(m)) \cup {m}
        /\ currentSize' = sizeAfterAdd(m)
        /\ pruneTrigger' = (pruneTrigger \/ (SameSlot(m) = {} /\ currentSize' > SizeHi))
    BY <1>8, ZenonT(60) DEF addLocked, pendingAfterAdd, signalsPrune
  <2>2. pending' \subseteq Messages
    BY <2>1
  <2>3. OneMessagePerNonce'
    BY <2>1 DEF OneMessagePerNonce, SameSlot, Slot
  <2>4. NextNonceAbovePending'
    <3>1. nextNonce'[From[m]] > Nonce[m]
      BY <1>1, <1>2, <1>4
    <3> QED
      BY <1>6, <2>1, <3>1, <1>1, <1>5 DEF NextNonceAbovePending
  <2>5. IsFiniteSet(pending) /\ Cardinality(pending) \in Nat /\ currentSize = Cardinality(pending)
    BY MessageSets, ZenonT(60) DEF SizeMatches
  <2>6. CASE SameSlot(m) = {}
    <3>1. m \notin pending
      BY <2>6 DEF SameSlot
    <3>2. pending' = pending \cup {m}
      BY <2>1, <2>6
    <3>3. Cardinality(pending') = currentSize + 1
      BY <2>5, <3>1, <3>2, FS_AddElement, ZenonT(60)
    <3>4. currentSize' = currentSize + 1 /\ (currentSize' > SizeHi => pruneTrigger')
      BY <2>1, <2>6, ZenonT(60) DEF sizeAfterAdd
    <3> QED
      BY <1>5, <2>1, <2>2, <2>3, <2>4, <2>5, <3>3, <3>4 DEF SizeMatches, TriggerKept
  <2>7. CASE SameSlot(m) # {}
    <3>1. PICK e \in pending : SameSlot(m) = {e}
      BY <2>7 DEF SameSlot, OneMessagePerNonce, Slot
    <3>2. pending' = (pending \ {e}) \cup {m}
      BY <2>1, <3>1
    <3>3. m \in pending => m = e
      BY <3>1 DEF SameSlot
    <3>4. IsFiniteSet(pending \ {e}) /\ Cardinality(pending \ {e}) = currentSize - 1
      BY <2>5, <3>1, FS_RemoveElement
    <3>5. Cardinality(pending') = currentSize
      <4>1. m \notin pending \ {e}
        BY <3>3
      <4>2. Cardinality((pending \ {e}) \cup {m}) = Cardinality(pending \ {e}) + 1
        BY <3>4, <4>1, FS_AddElement, ZenonT(60)
      <4> QED
        BY <2>5, <3>2, <3>4, <4>2
    <3>6. currentSize' = currentSize
      BY <2>1, <2>7 DEF sizeAfterAdd
    <3> QED
      BY <1>5, <2>1, <2>2, <2>3, <2>4, <3>5, <3>6 DEF SizeMatches, TriggerKept
  <2> QED
    BY <2>6, <2>7
<1> QED
  BY <1>7, <1>8

\* remove keeps the pool's books, whether or not the message is there.
LEMMA RemoveKeepsPool ==
    ASSUME PoolOK, NEW a \in Addrs, NEW n \in Nat, remove(a, n)
    PROVE  PoolOK' /\ pruneTrigger' = pruneTrigger /\ currentSize' <= currentSize
<1> USE DEF PoolOK
<1> DEFINE gone == {m \in msgSet(a) : Nonce[m] = n}
           left == msgSet(a) \ gone
<1>1. CASE msgSet(a) = {}
  <2>1. UNCHANGED poolVars
    BY <1>1 DEF remove
  <2> QED
    BY <2>1 DEF poolVars, SizeMatches, OneMessagePerNonce, NextNonceAbovePending
<1>2. CASE msgSet(a) # {}
  <2>1. /\ pending' = pending \ gone
        /\ currentSize' = sizeAfterRemove(gone)
        /\ nextNonce' = [nextNonce EXCEPT ![a] = nextNonceAfterRemove(left, n)]
        /\ UNCHANGED <<blsSigCache, pruneTrigger>>
    BY <1>2 DEF remove
  <2>2. gone \subseteq pending /\ left \in SUBSET Messages /\ left \subseteq pending
    BY DEF msgSet
  <2>3. /\ nextNonceAfterRemove(left, n) \in Nat
        /\ \A m \in left : Nonce[m] < nextNonceAfterRemove(left, n)
    BY <2>2, NextNonceAfterRemove
  <2>4. \A m \in pending \ gone : From[m] = a => m \in left
    BY DEF msgSet
  <2>5. pending' \subseteq Messages /\ nextNonce' \in [Addrs -> Nat]
    BY <2>1, <2>3
  <2> HIDE DEF left
  <2>6. NextNonceAbovePending'
    <3>1. SUFFICES ASSUME NEW m \in pending \ gone
                   PROVE  Nonce[m] < nextNonce'[From[m]]
      BY <2>1 DEF NextNonceAbovePending
    <3>2. From[m] \in Addrs /\ Nonce[m] < nextNonce[From[m]]
      BY MessagesAssumption DEF NextNonceAbovePending
    <3>3. CASE From[m] = a
      BY <2>1, <2>3, <2>4, <3>3
    <3>4. CASE From[m] # a
      BY <2>1, <3>2, <3>4
    <3> QED
      BY <3>3, <3>4
  <2>7. OneMessagePerNonce'
    BY <2>1 DEF OneMessagePerNonce
  <2>8. IsFiniteSet(pending) /\ Cardinality(pending) \in Nat /\ currentSize = Cardinality(pending)
    BY MessageSets, ZenonT(60) DEF SizeMatches
  <2>9. Cardinality(pending') = currentSize' /\ currentSize' \in Int /\ currentSize' <= currentSize
    <3>1. CASE gone = {}
      <4>1. pending' = pending
        BY <2>1, <3>1
      <4>2. currentSize' = currentSize
        BY <2>1, <3>1 DEF sizeAfterRemove
      <4> QED
        BY <2>8, <4>1, <4>2
    <3>2. CASE gone # {}
      <4>1. PICK e \in pending : gone = {e}
        <5>1. PICK e \in gone : TRUE
          BY <3>2
        <5>2. \A x \in gone : x = e
          BY <5>1 DEF msgSet, OneMessagePerNonce, Slot
        <5>3. gone = {e}
          BY <5>1, <5>2
        <5> QED
          BY <2>2, <5>1, <5>3
      <4>2. Cardinality(pending \ {e}) = currentSize - 1
        BY <2>8, <4>1, FS_RemoveElement, ZenonT(60)
      <4>3. currentSize' = currentSize - 1
        BY <2>1, <3>2 DEF sizeAfterRemove
      <4> QED
        BY <2>1, <4>1, <4>2, <4>3
    <3> QED
      BY <3>1, <3>2
  <2> QED
    BY <2>1, <2>5, <2>6, <2>7, <2>9 DEF SizeMatches
<1> QED
  BY <1>1, <1>2

\* pruneMessages keeps the pool's books and leaves at most SizeHi messages.
LEMMA PruneKeepsPool ==
    ASSUME PoolOK, pruneMessages
    PROVE  PoolOK' /\ pruneTrigger' = pruneTrigger /\ currentSize' <= SizeHi
<1> USE DEF PoolOK
<1>1. PICK kept \in prunedPools :
        /\ pending' = kept
        /\ currentSize' = currentSize - Cardinality(pending \ kept)
        /\ nextNonce' = [a \in Addrs |->
               LET gone == msgSet(a) \ kept IN
               IF gone = {} THEN nextNonce[a]
               ELSE nextNonceAfterRemove(msgSet(a) \cap kept, Max({Nonce[m] : m \in gone}))]
        /\ UNCHANGED <<blsSigCache, pruneTrigger>>
  BY ZenonT(60) DEF pruneMessages
<1>2. kept \subseteq pending /\ Cardinality(kept) <= SizeLo
  BY DEF prunedPools
<1>3. /\ IsFiniteSet(pending) /\ IsFiniteSet(kept)
      /\ Cardinality(kept) \in Nat
      /\ Cardinality(pending) \in Nat /\ currentSize = Cardinality(pending)
  BY <1>2, MessageSets, ZenonT(60) DEF SizeMatches
<1>4. currentSize' = Cardinality(kept)
  <2>1. Cardinality(pending \ kept) = Cardinality(pending) - Cardinality(pending \cap kept)
    BY <1>3, FS_Difference, ZenonT(60)
  <2>2. pending \cap kept = kept
    BY <1>2
  <2>3. currentSize' = Cardinality(pending) - Cardinality(pending \ kept)
    BY <1>1, <1>3
  <2>4. Cardinality(pending \ kept) = Cardinality(pending) - Cardinality(kept)
    BY <2>1, <2>2, ZenonT(60)
  <2> QED
    BY <1>3, <2>3, <2>4
<1>5. \A a \in Addrs : /\ nextNonce'[a] \in Nat
                       /\ \A m \in kept : From[m] = a => Nonce[m] < nextNonce'[a]
  <2>1. TAKE a \in Addrs
  <2> DEFINE gone == msgSet(a) \ kept
             N == {Nonce[m] : m \in gone}
             left == msgSet(a) \cap kept
  <2>2. gone \in SUBSET Messages /\ left \in SUBSET Messages
    BY DEF msgSet
  <2>3. \A m \in kept : From[m] = a => m \in left
    BY <1>2 DEF msgSet
  <2>4. CASE gone = {}
    <3>1. nextNonce'[a] = nextNonce[a]
      BY <1>1, <2>4
    <3> QED
      BY <1>2, <3>1 DEF NextNonceAbovePending
  <2>5. CASE gone # {}
    <3>1. N \in SUBSET Nat /\ IsFiniteSet(N) /\ N # {}
      BY <2>2, <2>5, MessageSets, ZenonT(60)
    <3>2. nextNonce'[a] = nextNonceAfterRemove(left, Max(N))
      BY <1>1, <2>5
    <3> HIDE DEF N, left
    <3>3. Max(N) \in Nat
      BY <3>1, MaxOfFinite, ZenonT(60)
    <3> QED
      BY <2>2, <2>3, <3>2, <3>3, NextNonceAfterRemove
  <2> QED
    BY <2>4, <2>5
<1>6. nextNonce' \in [Addrs -> Nat]
  BY <1>1, <1>5, ZenonT(60)
<1>7. NextNonceAbovePending'
  <2>1. ASSUME NEW m \in kept PROVE Nonce[m] < nextNonce'[From[m]]
    <3>1. From[m] \in Addrs
      BY <1>2, MessagesAssumption
    <3> QED
      BY <1>5, <3>1
  <2> QED
    BY <1>1, <2>1, ZenonT(60) DEF NextNonceAbovePending
<1>8. OneMessagePerNonce'
  BY <1>1, <1>2 DEF OneMessagePerNonce
<1>9. SizeMatches' /\ currentSize' \in Int /\ currentSize' <= SizeHi
  BY <1>1, <1>2, <1>3, <1>4, SizesAssumption DEF SizeMatches
<1> QED
  BY <1>1, <1>2, <1>6, <1>7, <1>8, <1>9

-----------------------------------------------------------------------------
(* The invariant *)

\* The state outside mp.lk has its type.
RestOK ==
    /\ runLoop \in {"select", "prune", "pruneTs", "pruneNil"}
    /\ curTs \in TipSets \cup {NoTs}
    /\ hcRemove \subseteq Addrs \X Nat
    /\ hcAdd \subseteq Messages
    /\ heaviest \in TipSets
    /\ headChanges \in Seq(TipSets \X TipSets)
    /\ localMsgs \subseteq Messages /\ pushing \subseteq Messages /\ toLoad \subseteq Messages
    /\ started \in BOOLEAN
    /\ heads \in Nat /\ crashes \in Nat

\* The second send of Prune waits for a pruning to start, and the third for runLoop to
\* come back to its select.
PruneOK ==
    /\ prune \in [sends : 0..3, pruning : {"none", "running", "ended"}]
    /\ prune.sends = 1 /\ prune.pruning = "none" => pruneTrigger
    /\ prune.sends >= 2 => prune.pruning # "none"
    /\ prune.sends = 2 /\ prune.pruning = "running" => pruneTrigger
    /\ prune.sends = 3 => prune.pruning = "ended"
    /\ prune.pruning = "running" => runLoop # "select"

Inv == PoolOK /\ RestOK /\ OversizeSignalled /\ PruneOK

\* A pool without local messages satisfies Inv after New.
LEMMA InitInv ==
    ASSUME Init
    PROVE  Inv
<1>1. Cardinality({}) = 0
  BY FS_EmptySet
<1>2. SizeMatches
  BY <1>1 DEF Init, EmptyPool, SizeMatches
<1>3. PoolOK
  <2>1. pruneTrigger \in BOOLEAN
    BY ZenonT(60) DEF Init, EmptyPool
  <2>2. /\ pending \subseteq Messages /\ blsSigCache \subseteq Bls
        /\ OneMessagePerNonce /\ NextNonceAbovePending
    BY DEF Init, EmptyPool, OneMessagePerNonce, NextNonceAbovePending
  <2>3. nextNonce \in [Addrs -> Nat] /\ currentSize \in Int
    BY DEF Init, EmptyPool
  <2> QED
    BY <1>2, <2>1, <2>2, <2>3 DEF PoolOK
<1>4. RestOK
  BY DEF Init, EmptyPool, RestOK
<1>5. OversizeSignalled
  BY SizesAssumption DEF Init, EmptyPool, OversizeSignalled
<1>6. PruneOK
  BY DEF Init, EmptyPool, NoPrune, PruneOK
<1> QED
  BY <1>3, <1>4, <1>5, <1>6 DEF Inv

\* A step that leaves Prune and runLoop alone and does not empty the trigger keeps PruneOK.
LEMMA SamePrune ==
    ASSUME PruneOK, UNCHANGED loopVars, pruneTrigger => pruneTrigger'
    PROVE  PruneOK'
BY DEF PruneOK, loopVars

\* A step that adds a message and leaves runLoop alone keeps what the trigger promises.
LEMMA AddKeepsSignal ==
    ASSUME OversizeSignalled, PruneOK, PoolOK, TriggerKept, UNCHANGED loopVars
    PROVE  OversizeSignalled' /\ PruneOK'
<1>1. OversizeSignalled'
  BY DEF OversizeSignalled, TriggerKept, PoolOK, loopVars
<1>2. PruneOK'
  BY SamePrune DEF TriggerKept
<1> QED
  BY <1>1, <1>2

\* So does a step that does not touch the pool or runLoop.
LEMMA SamePool ==
    ASSUME PoolOK, OversizeSignalled, PruneOK, UNCHANGED poolVars, UNCHANGED loopVars
    PROVE  PoolOK' /\ OversizeSignalled' /\ PruneOK'
<1>1. PoolOK' /\ OversizeSignalled'
  BY DEF PoolOK, OversizeSignalled, poolVars, loopVars, SizeMatches, OneMessagePerNonce,
         NextNonceAbovePending
<1>2. PruneOK'
  BY SamePrune DEF poolVars
<1> QED
  BY <1>1, <1>2

\* Every step keeps Inv.
LEMMA NextInv ==
    ASSUME Inv, [Next]_vars
    PROVE  Inv'
<1> USE DEF Inv
<1>1. ASSUME NEW m \in Network, Add(m)
      PROVE  Inv'
  <2>1. m \in Messages /\ addLocked(m) /\ UNCHANGED <<loopVars, hcVars, chainVars, localVars>>
    BY <1>1, MessagesAssumption DEF Add, addTs
  <2>2. RestOK'
    BY <2>1 DEF RestOK, loopVars, hcVars, chainVars, localVars
  <2> QED
    BY <2>1, <2>2, AddLockedKeepsPool, AddKeepsSignal
<1>2. ASSUME NEW m \in Clients, Push(m)
      PROVE  Inv'
  <2>1. m \in Messages /\ addLocked(m) /\ UNCHANGED loopVars
    BY <1>2, MessagesAssumption DEF Push, addTs
  <2>2. RestOK'
    BY <1>2, <2>1 DEF Push, RestOK, loopVars, hcVars, chainVars
  <2> QED
    BY <2>1, <2>2, AddLockedKeepsPool, AddKeepsSignal
<1>3. ASSUME NEW m \in Messages, addLocal(m)
      PROVE  Inv'
  <2>1. UNCHANGED poolVars /\ UNCHANGED loopVars
    BY <1>3 DEF addLocal
  <2>2. RestOK'
    BY <1>3 DEF addLocal, RestOK, loopVars, hcVars, chainVars
  <2> QED
    BY <2>1, <2>2, SamePool
<1>4. ASSUME NEW m \in Messages, PushWithNonce(m)
      PROVE  Inv'
  <2>1. addLocked(m) /\ UNCHANGED loopVars
    BY <1>4 DEF PushWithNonce
  <2>2. RestOK'
    BY <1>4 DEF PushWithNonce, RestOK, loopVars, hcVars, chainVars
  <2> QED
    BY <2>1, <2>2, AddLockedKeepsPool, AddKeepsSignal
<1>5. ASSUME NEW ts \in TipSets, HeadMoves(ts)
      PROVE  Inv'
  <2>1. UNCHANGED poolVars /\ UNCHANGED loopVars
    BY <1>5 DEF HeadMoves
  <2>2. <<heaviest, ts>> \in TipSets \X TipSets
    BY DEF RestOK
  <2>3. headChanges' \in Seq(TipSets \X TipSets)
    BY <1>5, <2>2 DEF HeadMoves, RestOK
  <2>4. RestOK'
    BY <1>5, <2>3 DEF HeadMoves, RestOK, loopVars, hcVars, localVars
  <2> QED
    BY <2>1, <2>4, SamePool
<1>6. ASSUME HeadChange
      PROVE  Inv'
  <2> DEFINE old == Ancestors[Head(headChanges)[1]]
             new == Ancestors[Head(headChanges)[2]]
             reverted == MessagesOf(old \ new)
             applied == MessagesOf(new \ old)
  <2>1. UNCHANGED poolVars /\ UNCHANGED loopVars
    BY <1>6 DEF HeadChange
  <2>2. /\ hcRemove' = toRemove(reverted, applied)
        /\ hcAdd' = readd(reverted, applied)
    BY <1>6 DEF HeadChange
  <2>3. reverted \subseteq Messages /\ applied \subseteq Messages
    BY DEF MessagesOf
  <2> HIDE DEF reverted, applied
  <2>4. hcRemove' \subseteq Addrs \X Nat /\ hcAdd' \subseteq Messages
    BY <2>2, <2>3, MessagesAssumption DEF toRemove, readd, Slots, Slot
  <2>5. /\ Head(headChanges) \in TipSets \X TipSets
        /\ Tail(headChanges) \in Seq(TipSets \X TipSets)
    BY <1>6 DEF HeadChange, RestOK
  <2>6. RestOK'
    <3>1. /\ curTs' = Head(headChanges)[2] /\ headChanges' = Tail(headChanges)
          /\ UNCHANGED <<loopVars, heaviest, heads, localVars>>
      BY <1>6 DEF HeadChange
    <3>2. curTs' \in TipSets
      BY <2>5, <3>1
    <3> QED
      BY <2>4, <2>5, <3>1, <3>2 DEF RestOK, loopVars, localVars
  <2> QED
    BY <2>1, <2>6, SamePool
<1>7. ASSUME headChangeRemove
      PROVE  Inv'
  <2>1. PICK s \in hcRemove : remove(s[1], s[2]) /\ hcRemove' = hcRemove \ {s}
    BY <1>7 DEF headChangeRemove
  <2>2. s[1] \in Addrs /\ s[2] \in Nat
    BY DEF RestOK
  <2>3. PoolOK' /\ pruneTrigger' = pruneTrigger /\ currentSize' <= currentSize
    BY <2>1, <2>2, RemoveKeepsPool
  <2>4. RestOK' /\ UNCHANGED loopVars
    BY <1>7, <2>1 DEF headChangeRemove, RestOK, loopVars, chainVars, localVars
  <2>5. OversizeSignalled'
    BY <2>3, <2>4, SizesAssumption DEF OversizeSignalled, PoolOK, loopVars
  <2>6. PruneOK'
    BY <2>3, <2>4, SamePrune
  <2> QED
    BY <2>3, <2>4, <2>5, <2>6
<1>8. ASSUME headChangeAdd
      PROVE  Inv'
  <2>1. PICK m \in hcAdd : addLocked(m) /\ hcAdd' = hcAdd \ {m}
    BY <1>8 DEF headChangeAdd
  <2>2. m \in Messages
    BY DEF RestOK
  <2>3. RestOK' /\ UNCHANGED loopVars
    BY <1>8, <2>1 DEF headChangeAdd, RestOK, loopVars, chainVars, localVars
  <2> QED
    BY <2>1, <2>2, <2>3, AddLockedKeepsPool, AddKeepsSignal
<1>9. ASSUME runLoopPrune
      PROVE  Inv'
  <2>1. PoolOK'
    BY <1>9, ZenonT(60) DEF runLoopPrune, PoolOK, SizeMatches, OneMessagePerNonce, NextNonceAbovePending
  <2>2. RestOK' /\ OversizeSignalled'
    BY <1>9 DEF runLoopPrune, RestOK, loopVars, hcVars, chainVars, localVars, OversizeSignalled
  <2>3. PruneOK'
    BY <1>9 DEF runLoopPrune, PruneOK, RestOK
  <2> QED
    BY <2>1, <2>2, <2>3
<1>10. ASSUME pruneReadTs
       PROVE  Inv'
  <2>1. PoolOK'
    BY <1>10 DEF pruneReadTs, poolVars, PoolOK, SizeMatches, OneMessagePerNonce, NextNonceAbovePending
  <2>2. RestOK' /\ OversizeSignalled'
    BY <1>10 DEF pruneReadTs, RestOK, loopVars, hcVars, chainVars, localVars, OversizeSignalled
  <2>3. PruneOK'
    BY <1>10 DEF pruneReadTs, PruneOK, RestOK, poolVars
  <2> QED
    BY <2>1, <2>2, <2>3
<1>11. ASSUME pruneExcessMessages
       PROVE  Inv'
  <2>1. RestOK' /\ runLoop' = "select"
    BY <1>11 DEF pruneExcessMessages, RestOK, hcVars, chainVars, localVars
  <2>4. pruneTrigger' = pruneTrigger
    BY <1>11, ZenonT(60) DEF pruneExcessMessages, pruneMessages, poolVars
  <2>5. PruneOK'
    BY <1>11, <2>4 DEF pruneExcessMessages, PruneOK
  <2>2. CASE prunesFrom
    <3>1. PoolOK' /\ currentSize' <= SizeHi
      BY <1>11, <2>2, PruneKeepsPool DEF pruneExcessMessages
    <3>2. OversizeSignalled'
      BY <3>1, SizesAssumption DEF OversizeSignalled, PoolOK
    <3> QED
      BY <2>1, <2>5, <3>1, <3>2
  <2>3. CASE ~ prunesFrom
    <3>1. UNCHANGED poolVars
      BY <1>11, <2>3 DEF pruneExcessMessages
    <3>2. PoolOK'
      BY <3>1 DEF poolVars, PoolOK, SizeMatches, OneMessagePerNonce, NextNonceAbovePending
    <3>3. OversizeSignalled'
      BY <2>3, <3>1, SizesAssumption DEF prunesFrom, poolVars, OversizeSignalled, PoolOK
    <3> QED
      BY <2>1, <2>5, <3>2, <3>3
  <2> QED
    BY <2>2, <2>3
<1>12. ASSUME Restart, crashes' = crashes + 1 \/ UNCHANGED crashes
       PROVE  Inv'
  <2>1. PoolOK'
    <3>1. Cardinality({}) = 0
      BY FS_EmptySet
    <3>2. SizeMatches'
      BY <1>12, <3>1 DEF Restart, SizeMatches
    <3>3. pruneTrigger' \in BOOLEAN
      BY <1>12, ZenonT(60) DEF Restart
    <3>4. /\ pending' \subseteq Messages /\ blsSigCache' \subseteq Bls
          /\ OneMessagePerNonce' /\ NextNonceAbovePending'
      BY <1>12 DEF Restart, OneMessagePerNonce, NextNonceAbovePending
    <3>5. nextNonce' \in [Addrs -> Nat] /\ currentSize' \in Int
      BY <1>12 DEF Restart
    <3> QED
      BY <3>2, <3>3, <3>4, <3>5 DEF PoolOK
  <2>2. RestOK'
    <3>1. headChanges' \in Seq(TipSets \X TipSets)
      BY <1>12 DEF Restart
    <3>2. started' \in BOOLEAN
      BY <1>12, ZenonT(60) DEF Restart
    <3>3. hcRemove' \subseteq Addrs \X Nat /\ hcAdd' \subseteq Messages /\ pushing' \subseteq Messages
      BY <1>12 DEF Restart
    <3>4. crashes' \in Nat
      BY <1>12 DEF Restart, RestOK
    <3> QED
      BY <1>12, <3>1, <3>2, <3>3, <3>4 DEF Restart, RestOK
  <2>3. OversizeSignalled'
    BY <1>12, SizesAssumption DEF Restart, OversizeSignalled
  <2>4. PruneOK'
    BY <1>12 DEF Restart, NoPrune, PruneOK
  <2> QED
    BY <2>1, <2>2, <2>3, <2>4
<1>13. ASSUME NEW m \in Messages, loadLocal(m)
       PROVE  Inv'
  <2>1. addLocked(m) \/ UNCHANGED poolVars
    BY <1>13 DEF loadLocal, addTs
  <2>2. RestOK' /\ UNCHANGED loopVars
    <3>1. /\ toLoad' = toLoad \ {m}
          /\ UNCHANGED <<loopVars, hcVars, chainVars, localMsgs, pushing, started, crashes>>
      BY <1>13 DEF loadLocal
    <3> QED
      BY <3>1 DEF RestOK, loopVars, hcVars, chainVars
  <2>3. CASE addLocked(m)
    BY <2>2, <2>3, AddLockedKeepsPool, AddKeepsSignal
  <2>4. CASE UNCHANGED poolVars
    BY <2>2, <2>4, SamePool
  <2> QED
    BY <2>1, <2>3, <2>4
<1>14. ASSUME finishNew
       PROVE  Inv'
  <2>1. UNCHANGED poolVars /\ UNCHANGED loopVars
    BY <1>14 DEF finishNew
  <2>2. RestOK'
    BY <1>14 DEF finishNew, RestOK, loopVars, chainVars
  <2> QED
    BY <2>1, <2>2, SamePool
<1>15. ASSUME UNCHANGED vars
       PROVE  Inv'
  <2>1. UNCHANGED poolVars /\ UNCHANGED loopVars
    BY <1>15 DEF vars
  <2>2. RestOK'
    BY <1>15 DEF vars, RestOK, loopVars, hcVars, chainVars, localVars
  <2> QED
    BY <2>1, <2>2, SamePool
<1>16. ASSUME Prune
       PROVE  Inv'
  <2>1. PoolOK'
    <3>1. pruneTrigger' \in BOOLEAN
      BY <1>16, ZenonT(60) DEF Prune
    <3> QED
      BY <1>16, <3>1 DEF Prune, PoolOK, SizeMatches, OneMessagePerNonce, NextNonceAbovePending
  <2>2. RestOK' /\ OversizeSignalled'
    BY <1>16 DEF Prune, RestOK, hcVars, chainVars, localVars, OversizeSignalled
  <2>3. prune.sends < 3
    BY <1>16, SizesAssumption DEF Prune, PruneSends, PruneOK
  <2>4. PruneOK'
    BY <1>16, <2>3 DEF Prune, PruneOK
  <2> QED
    BY <2>1, <2>2, <2>4
<1> QED
  BY <1>1, <1>2, <1>3, <1>4, <1>5, <1>6, <1>7, <1>8, <1>9, <1>10, <1>11, <1>12, <1>13,
     <1>14, <1>15, <1>16 DEF Next, Crash, prunePanic

\* Inv is an inductive invariant of the pool.
THEOREM PoolInvariant == Spec => []Inv
<1>1. Init => Inv
  BY InitInv
<1>2. Inv /\ [Next]_vars => Inv'
  BY NextInv
<1> QED
  BY <1>1, <1>2, PTL DEF Spec

-----------------------------------------------------------------------------
(* What follows for the properties *)

\* Every variable of the pool keeps its type.
THEOREM PoolTypeCorrect == Spec => []TypeOK
<1>1. Inv => TypeOK
  BY DEF Inv, PoolOK, RestOK, PruneOK, PruneSends, TypeOK
<1> QED
  BY <1>1, PoolInvariant, PTL

\* mp.currentSize counts the pending messages.
THEOREM PoolSizeMatches == Spec => []SizeMatches
<1>1. Inv => SizeMatches
  BY DEF Inv, PoolOK
<1> QED
  BY <1>1, PoolInvariant, PTL

\* A sender has at most one pending message per nonce.
THEOREM PoolOnePerNonce == Spec => []OneMessagePerNonce
<1>1. Inv => OneMessagePerNonce
  BY DEF Inv, PoolOK
<1> QED
  BY <1>1, PoolInvariant, PTL

\* msgSet.nextNonce is above every pending nonce of its sender.
THEOREM PoolNextNonce == Spec => []NextNonceAbovePending
<1>1. Inv => NextNonceAbovePending
  BY DEF Inv, PoolOK
<1> QED
  BY <1>1, PoolInvariant, PTL

\* The wakeup of the pruning of an oversize pool is never lost.
THEOREM PoolPruneSignalled == Spec => []OversizeSignalled
<1>1. Inv => OversizeSignalled
  BY DEF Inv
<1> QED
  BY <1>1, PoolInvariant, PTL

\* The pool's bookkeeping is consistent in every reachable state.
THEOREM PoolAlwaysConsistent == Spec => []PoolConsistent
BY PoolSizeMatches, PoolOnePerNonce, PoolNextNonce, PoolPruneSignalled, PTL DEF PoolConsistent

\* When the third send of Prune goes through, a pruning has run since its first send.
THEOREM PruneIsSynchronous == Spec => []PruneHasPruned
<1>1. Inv => PruneHasPruned
  BY DEF Inv, PruneOK, PruneSends, PruneHasPruned
<1> QED
  BY <1>1, PoolInvariant, PTL

-----------------------------------------------------------------------------
(* The reload of local messages *)

\* Until New returns, nobody but loadLocal changes the pool: there is no head yet to
\* prune for, no head change and no call.
LoadInv ==
    ~ started =>
        /\ curTs = NoTs /\ hcRemove = {} /\ hcAdd = {} /\ pushing = {}
        /\ runLoop # "pruneTs"
        /\ LocalMessagesReloaded

\* A replacement costs more than what it replaces.
LEMMA RbfIsMore ==
    ASSUME NEW p \in Nat
    PROVE  RbfPrice(p) \in Nat /\ RbfPrice(p) > p
BY DEF RbfPrice

\* A message has its place, or one it cannot replace has.
Placed(m) == \E e \in SameSlot(m) : e = m \/ GasPrice[m] < RbfPrice(GasPrice[e])

\* addLocked gives a message its place, and takes it from none that was placed.
LEMMA AddPlaces ==
    ASSUME NEW m \in Messages, addLocked(m), pending \subseteq Messages
    PROVE  Placed(m)' /\ \A n \in Messages : Placed(n) => Placed(n)'
<1>1. \A k \in Messages : GasPrice[k] \in Nat /\ RbfPrice(GasPrice[k]) \in Nat /\ RbfPrice(GasPrice[k]) > GasPrice[k]
  BY MessagesAssumption, RbfIsMore
<1>2. CASE ~ Accepts(m)
  <2>1. pending' = pending
    BY <1>2 DEF addLocked
  <2>2. PICK e \in SameSlot(m) : e # m /\ ~ (GasPrice[m] >= RbfPrice(GasPrice[e]))
    BY <1>2 DEF Accepts
  <2>3. GasPrice[m] < RbfPrice(GasPrice[e])
    BY <1>1, <2>2 DEF SameSlot
  <2> QED  BY <2>1, <2>2, <2>3 DEF Placed, SameSlot
<1>3. CASE Accepts(m)
  <2>1. pending' = (pending \ SameSlot(m)) \cup {m}
    BY <1>3 DEF addLocked, pendingAfterAdd
  <2>2. Placed(m)'
    BY <2>1 DEF Placed, SameSlot
  <2>3. ASSUME NEW n \in Messages, Placed(n) PROVE Placed(n)'
    <3>1. PICK e \in SameSlot(n) : e = n \/ GasPrice[n] < RbfPrice(GasPrice[e])
      BY <2>3 DEF Placed
    <3>2. e \in Messages /\ e \in pending /\ From[e] = From[n] /\ Nonce[e] = Nonce[n]
      BY <3>1 DEF SameSlot
    <3>3. CASE e \notin SameSlot(m) \/ e = m
      BY <2>1, <3>1, <3>2, <3>3 DEF Placed, SameSlot
    <3>4. CASE e \in SameSlot(m) /\ e # m
      <4>1. From[m] = From[n] /\ Nonce[m] = Nonce[n] /\ GasPrice[m] >= RbfPrice(GasPrice[e])
        BY <1>3, <3>2, <3>4 DEF SameSlot, Accepts
      <4>2. GasPrice[n] < RbfPrice(GasPrice[e])
        BY <1>1, <3>1, <3>2
      <4>3. GasPrice[n] < RbfPrice(GasPrice[m])
        BY <1>1, <3>2, <4>1, <4>2
      <4> QED  BY <2>1, <4>1, <4>3 DEF Placed, SameSlot
    <3> QED  BY <3>3, <3>4
  <2> QED  BY <2>2, <2>3
<1> QED  BY <1>2, <1>3

\* Before the pool has started, a step that loads one message or none and leaves the chain
\* and the local messages alone keeps what is loaded.
LEMMA LoadStep ==
    ASSUME Inv, LoadInv, ~ started, ~ started', runLoop' # "pruneTs",
           curTs' = curTs, hcRemove' = hcRemove, hcAdd' = hcAdd, pushing' = pushing,
           heaviest' = heaviest, localMsgs' = localMsgs,
           (pending' = pending /\ toLoad' = toLoad) \/ \E m \in Messages : loadLocal(m)
    PROVE  LoadInv'
<1>0. localMsgs \subseteq Messages /\ pending \subseteq Messages /\ heaviest \in TipSets
  BY ZenonT(60) DEF Inv, RestOK, PoolOK
<1>1. /\ curTs = NoTs /\ hcRemove = {} /\ hcAdd = {} /\ pushing = {} /\ LocalMessagesReloaded
      /\ localMsgs \subseteq Messages /\ pending \subseteq Messages /\ heaviest \in TipSets
  BY <1>0, ZenonT(60) DEF LoadInv
<1>2. LocalMessagesReloaded'
  <2>1. CASE pending' = pending /\ toLoad' = toLoad
    BY <1>1, <2>1 DEF LocalMessagesReloaded, getStateNonce, getStateBalance, StateTs, SameSlot
  <2>2. ASSUME NEW m \in Messages, loadLocal(m) PROVE LocalMessagesReloaded'
    <3> DEFINE Gone(n) == \/ Nonce[n] < getStateNonce(From[n], NoTs)
                          \/ RequiredFunds[n] > getStateBalance(From[n], NoTs)
    <3>1. \A n \in localMsgs \ toLoad : Gone(n) \/ Placed(n)
      BY <1>1, ZenonT(60) DEF LocalMessagesReloaded, Placed
    <3>2. toLoad' = toLoad \ {m}
      BY <2>2, ZenonT(60) DEF loadLocal
    <3>3. \A n \in Messages : Gone(n) => Gone(n)'
      <4>1. StateTs(NoTs)' = StateTs(NoTs)
        BY <1>1, ZenonT(60) DEF StateTs
      <4>2. \A n \in Messages : /\ getStateNonce(From[n], NoTs)' = getStateNonce(From[n], NoTs)
                                /\ getStateBalance(From[n], NoTs)' = getStateBalance(From[n], NoTs)
        BY <4>1, ZenonT(60) DEF getStateNonce, getStateBalance
      <4> QED  BY <4>2, ZenonT(60)
    <3>4. (Gone(m) \/ Placed(m)') /\ \A n \in Messages : Placed(n) => Placed(n)'
      <4>1. CASE addTs(m, curTs)
        BY <1>1, <4>1, AddPlaces, ZenonT(60) DEF addTs
      <4>2. CASE /\ UNCHANGED poolVars
                 /\ \/ getStateNonce(From[m], curTs) > Nonce[m]
                    \/ getStateBalance(From[m], curTs) < RequiredFunds[m]
        <5>1. \A n \in Messages : Placed(n) => Placed(n)'
          <6>1. pending' = pending
            BY <4>2, ZenonT(60) DEF poolVars
          <6> QED  BY <6>1, ZenonT(60) DEF Placed, SameSlot
        <5>2. From[m] \in Addrs /\ Nonce[m] \in Nat /\ RequiredFunds[m] \in Nat
          BY MessagesAssumption
        <5>3. getStateNonce(From[m], NoTs) \in Nat /\ getStateBalance(From[m], NoTs) \in Nat
          BY <1>1, <5>2, ChainAssumption DEF getStateNonce, getStateBalance, StateTs
        <5>4. \/ getStateNonce(From[m], NoTs) > Nonce[m]
              \/ getStateBalance(From[m], NoTs) < RequiredFunds[m]
          BY <1>1, <4>2, ZenonT(60)
        <5>5. Gone(m)
          BY ONLY <5>2, <5>3, <5>4, SMTT(60) DEF Gone
        <5> QED  BY <5>1, <5>5, ZenonT(60)
      <4> QED  BY <2>2, <4>1, <4>2, ZenonT(60) DEF loadLocal
    <3> HIDE DEF Gone
    <3>5. \A n \in localMsgs' \ toLoad' : Gone(n)' \/ Placed(n)'
      BY <1>1, <3>1, <3>2, <3>3, <3>4, ZenonT(60)
    <3> QED  BY <3>5, ZenonT(60) DEF LocalMessagesReloaded, Placed, Gone
  <2> QED  BY <2>1, <2>2
<1> QED  BY <1>1, <1>2 DEF LoadInv

\* Every step keeps what loadLocal has loaded.
LEMMA NextLoad ==
    ASSUME Inv, LoadInv, [Next]_vars
    PROVE  LoadInv'
<1> SUFFICES ASSUME ~ started' PROVE LoadInv'
  BY DEF LoadInv
<1> DEFINE Loads == (pending' = pending /\ toLoad' = toLoad) \/ \E m \in Messages : loadLocal(m)
           Rest == /\ curTs' = curTs /\ hcRemove' = hcRemove /\ hcAdd' = hcAdd /\ pushing' = pushing
                   /\ heaviest' = heaviest /\ localMsgs' = localMsgs /\ started' = started
<1>1. CASE Restart
  BY <1>1 DEF Restart, LoadInv, LocalMessagesReloaded
<1>2. ASSUME Loads, Rest, runLoop' # "pruneTs" PROVE LoadInv'
  BY <1>2, LoadStep, ZenonT(60)
<1>3. CASE UNCHANGED vars
  <2>1. Loads /\ Rest /\ runLoop' = runLoop
    BY <1>3, ZenonT(60) DEF vars, poolVars, chainVars, loopVars, hcVars, localVars
  <2> QED  BY <1>2, <2>1 DEF LoadInv
<1>4. ASSUME NEW m \in Messages, loadLocal(m) PROVE LoadInv'
  <2>1. Loads /\ Rest /\ runLoop' = runLoop
    BY <1>4, ZenonT(60) DEF loadLocal, chainVars, loopVars, hcVars
  <2> QED  BY <1>2, <2>1 DEF LoadInv
<1>5. CASE runLoopPrune
  <2>1. Loads /\ Rest /\ runLoop' # "pruneTs"
    BY <1>5 DEF runLoopPrune, chainVars, hcVars, localVars
  <2> QED  BY <1>2, <2>1
<1>6. CASE pruneReadTs
  <2>1. Loads /\ Rest
    BY <1>6, ZenonT(60) DEF pruneReadTs, poolVars, chainVars, hcVars, localVars
  <2>2. runLoop' # "pruneTs"
    BY <1>6, <2>1 DEF pruneReadTs, LoadInv
  <2> QED  BY <1>2, <2>1, <2>2
<1>7. CASE pruneExcessMessages
  <2>1. Rest /\ runLoop' = "select"
    BY <1>7, ZenonT(60) DEF pruneExcessMessages, chainVars, hcVars, localVars
  <2>2. runLoop # "pruneTs"
    BY <2>1 DEF LoadInv
  <2>3. UNCHANGED <<poolVars, localVars>>
    BY <1>7, <2>2, ZenonT(60) DEF pruneExcessMessages
  <2>4. Loads
    BY <2>3, ZenonT(60) DEF poolVars, localVars
  <2> QED  BY <1>2, <2>1, <2>4
<1>8. CASE \E m \in Messages : addLocal(m)
  BY <1>8 DEF addLocal, LoadInv
<1>9. CASE headChangeRemove \/ headChangeAdd
  BY <1>9 DEF headChangeRemove, headChangeAdd, LoadInv, localVars
<1>10. CASE (\E m \in Network : Add(m)) \/ (\E m \in Clients : Push(m)) \/ (\E m \in Messages : PushWithNonce(m))
  BY <1>10 DEF Add, Push, PushWithNonce, localVars
<1>11. CASE (\E ts \in TipSets : HeadMoves(ts)) \/ HeadChange \/ Prune \/ finishNew
  BY <1>11 DEF HeadMoves, HeadChange, Prune, finishNew, localVars
<1> QED
  BY <1>1, <1>3, <1>4, <1>5, <1>6, <1>7, <1>8, <1>9, <1>10, <1>11, ZenonT(60) DEF Next, Crash, prunePanic

\* After a restart loadLocal gives every local message that is still valid its place back
\* (messagepool.go, loadLocal), or leaves it to one that cannot be replaced.
THEOREM PoolReloads == Spec => []LocalMessagesReloaded
<1>1. Init => LoadInv
  BY DEF Init, LoadInv
<1>2. Inv /\ LoadInv /\ [Next]_vars => LoadInv'
  BY NextLoad
<1>3. LoadInv => LocalMessagesReloaded
  BY DEF LoadInv, LocalMessagesReloaded
<1> QED
  BY <1>1, <1>2, <1>3, PoolInvariant, PTL DEF Spec

-----------------------------------------------------------------------------
(* Executed messages do not stay *)

\* the nonce of a after the messages of ts
NonceAt(ts, a) == BaseNonce[ts][a] + Cardinality({m \in TsMsgs[ts] : From[m] = a})

\* the chain of ts has used the nonce of m
Used(m, ts) == Nonce[m] < NonceAt(ts, From[m])

\* Head changes reach the pool in order, from curTs to the head; after a crash the
\* pool has only local messages until New returns.
FeedOK ==
    /\ started => /\ curTs \in TipSets /\ toLoad = {}
                  /\ headChanges # <<>> => Head(headChanges)[1] = curTs
                  /\ headChanges = <<>> => heaviest = curTs
                  /\ headChanges # <<>> => headChanges[Len(headChanges)][2] = heaviest
                  /\ \A i \in 1 .. Len(headChanges) - 1 : headChanges[i + 1][1] = headChanges[i][2]
    /\ ~ started => /\ curTs = NoTs /\ hcRemove = {} /\ hcAdd = {} /\ headChanges = <<>>
                    /\ crashes > 0 /\ pending \subseteq localMsgs
    /\ runLoop = "pruneNil" => crashes > 0
    /\ toLoad \subseteq localMsgs

\* A pending message that the chain of curTs has executed is one that HeadChange has
\* still to remove, or a local one reloaded; HeadChange adds no such message.
UsedOK ==
    started => /\ \A m \in pending : Used(m, curTs) => Slot(m) \in hcRemove \/ (crashes > 0 /\ m \in localMsgs)
               /\ \A m \in hcAdd : ~ Used(m, curTs)

\* The nonces on the chain of a tipset are those below the one after it.
LEMMA UsedNonces ==
    ASSUME NEW ts \in TipSets
    PROVE  /\ \A a \in Addrs : NonceAt(ts, a) \in Nat
           /\ \A m \in Messages : Used(m, ts) <=> \E n \in MessagesOf(Ancestors[ts]) : Slot(n) = Slot(m)
<1>1. ASSUME NEW a \in Addrs PROVE NonceAt(ts, a) \in Nat
  <2>1. PICK S : S = {m \in TsMsgs[ts] : From[m] = a}
    BY ZenonT(60)
  <2>2. S \in SUBSET Messages
    BY <2>1, ChainAssumption
  <2>3. Cardinality(S) \in Nat
    BY <2>2, MessageSets, ZenonT(60)
  <2>4. BaseNonce[ts][a] \in Nat
    BY ChainAssumption
  <2>5. NonceAt(ts, a) = BaseNonce[ts][a] + Cardinality(S)
    BY <2>1, ZenonT(60) DEF NonceAt
  <2> QED  BY ONLY <2>3, <2>4, <2>5, SMTT(60)
<1>2. ASSUME NEW a \in Addrs
      PROVE  {Nonce[m] : m \in {n \in MessagesOf(Ancestors[ts]) : From[n] = a}} = 0 .. NonceAt(ts, a) - 1
  BY NoncesAssumption, ZenonT(60) DEF NonceAt
<1>3. ASSUME NEW m \in Messages
      PROVE  Used(m, ts) <=> \E n \in MessagesOf(Ancestors[ts]) : Slot(n) = Slot(m)
  <2>1. From[m] \in Addrs /\ Nonce[m] \in Nat /\ NonceAt(ts, From[m]) \in Nat
    BY <1>1, MessagesAssumption
  <2>2. Used(m, ts) <=> Nonce[m] \in 0 .. NonceAt(ts, From[m]) - 1
    <3>1. Nonce[m] < NonceAt(ts, From[m]) <=> Nonce[m] \in 0 .. NonceAt(ts, From[m]) - 1
      BY ONLY <2>1, SMTT(60)
    <3> QED  BY <3>1, ZenonT(60) DEF Used
  <2>3. Used(m, ts) <=> \E n \in MessagesOf(Ancestors[ts]) : From[n] = From[m] /\ Nonce[n] = Nonce[m]
    <3>1. PICK T : T = {n \in MessagesOf(Ancestors[ts]) : From[n] = From[m]}
      BY ZenonT(60)
    <3>2. {Nonce[n] : n \in T} = 0 .. NonceAt(ts, From[m]) - 1
      BY <1>2, <2>1, <3>1, ZenonT(60)
    <3>3. Used(m, ts) <=> \E n \in T : Nonce[n] = Nonce[m]
      BY <2>2, <3>2, ZenonT(60)
    <3> QED  BY <3>1, <3>3, ZenonT(60)
  <2>4. \A n \in Messages : Slot(n) = Slot(m) <=> From[n] = From[m] /\ Nonce[n] = Nonce[m]
    BY DEF Slot
  <2>5. MessagesOf(Ancestors[ts]) \subseteq Messages
    BY ZenonT(60) DEF MessagesOf
  <2> QED  BY <2>3, <2>4, <2>5, ZenonT(60)
<1> QED  BY <1>1, <1>3, ZenonT(60)

\* What a step that leaves the chain, curTs and HeadChange's work alone may do to the rest.
SameFeed ==
    /\ curTs' = curTs /\ hcRemove' = hcRemove /\ hcAdd' = hcAdd
    /\ headChanges' = headChanges /\ heaviest' = heaviest
    /\ started' = started /\ crashes' = crashes
    /\ localMsgs \subseteq localMsgs' /\ toLoad' \subseteq toLoad
    /\ runLoop' = "pruneNil" => runLoop = "pruneNil" \/ ~ started

\* Such a step keeps the two invariants when what it adds to the pool is not executed, or
\* is local and the pool still loading.
LEMMA SameFeedKeeps ==
    ASSUME RestOK, FeedOK, UsedOK, SameFeed,
           \A m \in pending' : m \in pending \/ (IF started THEN ~ Used(m, curTs) ELSE m \in localMsgs)
    PROVE  FeedOK' /\ UsedOK'
<1>1. FeedOK'
  <2>1. CASE started
    BY <2>1, ZenonT(60) DEF FeedOK, SameFeed
  <2>2. CASE ~ started
    BY <2>2, ZenonT(60) DEF FeedOK, SameFeed
  <2> QED  BY <2>1, <2>2
<1>2. UsedOK'
  <2>1. \A m : Used(m, curTs)' <=> Used(m, curTs)
    BY ZenonT(60) DEF SameFeed, Used, NonceAt
  <2> QED  BY <2>1, ZenonT(60) DEF UsedOK, SameFeed
<1> QED  BY <1>1, <1>2

\* addLocked adds no message but its own.
LEMMA AddedOnly ==
    ASSUME NEW m, addLocked(m)
    PROVE  \A e \in pending' : e \in pending \/ e = m
  BY ZenonT(60) DEF addLocked, pendingAfterAdd

\* remove adds no message, and leaves none of its slot.
LEMMA RemovedOnly ==
    ASSUME NEW a, NEW n, remove(a, n), pending \subseteq Messages
    PROVE  \A e \in pending' : e \in pending /\ Slot(e) # <<a, n>>
<1>1. CASE msgSet(a) = {}
  BY <1>1, ZenonT(60) DEF remove, poolVars, msgSet, Slot
<1>2. CASE msgSet(a) # {}
  <2>1. pending' = pending \ {m \in msgSet(a) : Nonce[m] = n}
    BY <1>2, ZenonT(60) DEF remove
  <2> QED  BY <2>1, ZenonT(60) DEF msgSet, Slot
<1> QED  BY <1>1, <1>2

\* With a tipset, getStateNonce is the nonce after its messages.
LEMMA StateNonceIs ==
    ASSUME curTs \in TipSets, NEW a
    PROVE  getStateNonce(a, curTs) = NonceAt(curTs, a)
<1>1. curTs # NoTs
  BY ChainAssumption
<1> QED  BY <1>1, ZenonT(60) DEF getStateNonce, StateTs, NonceAt

\* A message that the checks of Add or the nonce of PushWithNonce let in is not executed.
LEMMA NewNotUsed ==
    ASSUME RestOK, FeedOK, started, NEW m \in Messages, getStateNonce(From[m], curTs) <= Nonce[m]
    PROVE  ~ Used(m, curTs)
<1>1. curTs \in TipSets
  BY ZenonT(60) DEF FeedOK
<1>2. From[m] \in Addrs /\ Nonce[m] \in Nat
  BY MessagesAssumption
<1>3. NonceAt(curTs, From[m]) \in Nat
  BY <1>1, <1>2, UsedNonces, ZenonT(60)
<1>4. NonceAt(curTs, From[m]) <= Nonce[m]
  BY <1>1, StateNonceIs, ZenonT(60)
<1>5. ~ (Nonce[m] < NonceAt(curTs, From[m]))
  BY ONLY <1>2, <1>3, <1>4, SMTT(60)
<1> QED  BY <1>5, ZenonT(60) DEF Used

\* HeadChange from o to n removes what n has used and o has not, and adds nothing used.
Switches(o, n, rev, app) ==
    /\ \A m \in Messages : Used(m, n) /\ ~ Used(m, o) => Slot(m) \in toRemove(rev, app)
    /\ \A m \in readd(rev, app) : ~ Used(m, n)

\* So it is when it reverts and applies the tipsets that only one of the two chains has.
LEMMA ChainSwitch ==
    ASSUME NEW o \in TipSets, NEW n \in TipSets, NEW rev, NEW app,
           rev = MessagesOf(Ancestors[o] \ Ancestors[n]), app = MessagesOf(Ancestors[n] \ Ancestors[o])
    PROVE  Switches(o, n, rev, app)
<1>1. ASSUME NEW m \in Messages, Used(m, n), ~ Used(m, o) PROVE Slot(m) \in toRemove(rev, app)
  <2>1. PICK k \in MessagesOf(Ancestors[n]) : Slot(k) = Slot(m)
    BY <1>1, UsedNonces, ZenonT(60)
  <2>2. \A r \in MessagesOf(Ancestors[o]) : Slot(r) # Slot(m)
    BY <1>1, UsedNonces, ZenonT(60)
  <2>3. k \in app
    BY <2>1, <2>2, ZenonT(60) DEF MessagesOf
  <2>4. \A r \in rev : Slot(r) # Slot(m)
    BY <2>2, ZenonT(60) DEF MessagesOf
  <2> QED  BY <2>1, <2>3, <2>4, ZenonT(60) DEF toRemove, Slots
<1>2. ASSUME NEW m \in readd(rev, app), Used(m, n) PROVE FALSE
  <2>1. m \in rev /\ Slot(m) \notin Slots(app)
    BY <1>2, ZenonT(60) DEF readd
  <2>2. m \in Messages
    BY <2>1, ZenonT(60) DEF MessagesOf
  <2>3. PICK t \in Ancestors[o] : t \notin Ancestors[n] /\ m \in TsMsgs[t]
    BY <2>1, ZenonT(60) DEF MessagesOf
  <2>4. PICK k \in MessagesOf(Ancestors[n]) : Slot(k) = Slot(m)
    BY <1>2, <2>2, UsedNonces, ZenonT(60)
  <2>5. PICK u \in Ancestors[n] : k \in TsMsgs[u]
    BY <2>4, ZenonT(60) DEF MessagesOf
  <2>6. CASE u \in Ancestors[o]
    <3>1. From[m] = From[k] /\ Nonce[m] = Nonce[k]
      BY <2>4 DEF Slot
    <3>2. t = u
      BY <2>3, <2>5, <2>6, <3>1, NoncesAssumption, ZenonT(60)
    <3> QED  BY <2>3, <2>5, <3>2, ZenonT(60)
  <2>7. CASE u \notin Ancestors[o]
    <3>1. k \in app
      BY <2>4, <2>5, <2>7, ZenonT(60) DEF MessagesOf
    <3> QED  BY <2>1, <2>4, <3>1, ZenonT(60) DEF Slots
  <2> QED  BY <2>6, <2>7
<1> QED  BY <1>1, <1>2, ZenonT(60) DEF Switches

\* HeadChange moves curTs one change on.
LEMMA HeadChangeFeed ==
    ASSUME RestOK, FeedOK, HeadChange
    PROVE  FeedOK' /\ Head(headChanges) = <<curTs, curTs'>> /\ curTs \in TipSets /\ curTs' \in TipSets
<1>1. PICK q : q = headChanges
  BY ZenonT(60)
<1>2. q \in Seq(TipSets \X TipSets) /\ q # <<>> /\ headChanges' = Tail(q) /\ curTs' = Head(q)[2]
  BY <1>1, ZenonT(60) DEF RestOK, HeadChange
<1>3. /\ started /\ curTs \in TipSets /\ toLoad = {} /\ Head(q)[1] = curTs /\ q[Len(q)][2] = heaviest
      /\ \A i \in 1 .. Len(q) - 1 : q[i + 1][1] = q[i][2]
  BY <1>1, <1>2, ZenonT(60) DEF FeedOK, HeadChange
<1>4. Head(q) \in TipSets \X TipSets /\ Head(q) = q[1]
  BY <1>2
<1>5. Head(q) = <<curTs, curTs'>> /\ curTs' \in TipSets
  BY <1>2, <1>3, <1>4
<1>6. /\ started' = started /\ heaviest' = heaviest /\ toLoad' = toLoad /\ localMsgs' = localMsgs
      /\ crashes' = crashes /\ runLoop' = runLoop
  BY ZenonT(60) DEF HeadChange, localVars, loopVars
<1>0. /\ started' /\ curTs' \in TipSets /\ toLoad' = {} /\ toLoad' \subseteq localMsgs'
      /\ runLoop' = "pruneNil" => crashes' > 0
  BY <1>3, <1>5, <1>6, ZenonT(60) DEF FeedOK
<1>7. PICK r : r = Tail(q)
  BY ZenonT(60)
<1>8. /\ r \in Seq(TipSets \X TipSets) /\ Len(r) = Len(q) - 1 /\ Len(r) \in Nat
      /\ \A i \in 1 .. Len(r) : r[i] = q[i + 1]
  BY <1>2, <1>7
<1> DEFINE Queued(x) == /\ x # <<>> => Head(x)[1] = curTs'
                        /\ x = <<>> => heaviest' = curTs'
                        /\ x # <<>> => x[Len(x)][2] = heaviest'
                        /\ \A i \in 1 .. Len(x) - 1 : x[i + 1][1] = x[i][2]
<1> HIDE DEF Queued
<1>9. ASSUME r = <<>> PROVE Queued(r)
  <2>1. Len(q) = 1
    BY <1>8, <1>9
  <2>2. heaviest = curTs'
    BY <1>2, <1>3, <1>4, <2>1
  <2>3. \A i \in 1 .. Len(r) - 1 : r[i + 1][1] = r[i][2]
    BY <1>9
  <2> QED  BY <1>6, <1>9, <2>2, <2>3, ZenonT(60) DEF Queued
<1>10. ASSUME r # <<>> PROVE Queued(r)
  <2>1. Len(r) >= 1 /\ Head(r) = r[1]
    BY <1>8, <1>10
  <2>2. Head(r)[1] = curTs'
    <3>1. 1 \in 1 .. Len(q) - 1 /\ 1 \in 1 .. Len(r) /\ 1 + 1 = 2
      BY ONLY <1>8, <2>1, SMTT(60)
    <3> QED  BY <1>2, <1>3, <1>4, <1>8, <2>1, <3>1, ZenonT(60)
  <2>3. r[Len(r)][2] = heaviest
    <3>1. Len(r) \in 1 .. Len(r) /\ Len(r) + 1 = Len(q)
      BY <1>2, <1>8, <2>1
    <3> QED  BY <1>3, <1>8, <3>1, ZenonT(60)
  <2>4. ASSUME NEW i \in 1 .. Len(r) - 1 PROVE r[i + 1][1] = r[i][2]
    <3>1. i \in 1 .. Len(r) /\ i + 1 \in 1 .. Len(r) /\ i + 1 \in 1 .. Len(q) - 1
      BY ONLY <1>8, SMTT(60)
    <3> QED  BY <1>3, <1>8, <3>1, ZenonT(60)
  <2> QED  BY <1>6, <1>10, <2>2, <2>3, <2>4, ZenonT(60) DEF Queued
<1>11. Queued(headChanges')
  BY <1>2, <1>7, <1>9, <1>10, ZenonT(60)
<1>12. FeedOK'
  BY <1>0, <1>11, ZenonT(60) DEF FeedOK, Queued
<1> QED  BY <1>1, <1>3, <1>5, <1>12, ZenonT(60)

\* HeadChange's work is all that the pool needs to follow.
LEMMA HeadChangeUsed ==
    ASSUME PoolOK, RestOK, FeedOK, UsedOK, HeadChange
    PROVE  FeedOK' /\ UsedOK'
<1>1. PICK o \in TipSets : o = curTs
  BY HeadChangeFeed, ZenonT(60)
<1>2. PICK n \in TipSets : n = curTs'
  BY HeadChangeFeed, ZenonT(60)
<1>3. Head(headChanges)[1] = o /\ Head(headChanges)[2] = n
  BY <1>1, <1>2, HeadChangeFeed
<1>4. PICK rev : rev = MessagesOf(Ancestors[o] \ Ancestors[n])
  BY ZenonT(60)
<1>5. PICK app : app = MessagesOf(Ancestors[n] \ Ancestors[o])
  BY ZenonT(60)
<1>6. hcRemove' = toRemove(rev, app) /\ hcAdd' = readd(rev, app)
  <2> DEFINE O == Ancestors[Head(headChanges)[1]]
             N == Ancestors[Head(headChanges)[2]]
  <2>1. /\ hcRemove' = toRemove(MessagesOf(O \ N), MessagesOf(N \ O))
        /\ hcAdd' = readd(MessagesOf(O \ N), MessagesOf(N \ O))
    BY ZenonT(60) DEF HeadChange
  <2>2. rev = MessagesOf(O \ N) /\ app = MessagesOf(N \ O)
    BY <1>3, <1>4, <1>5, ZenonT(60)
  <2> HIDE DEF O, N
  <2> QED  BY <2>1, <2>2, ZenonT(60)
<1>7. /\ started /\ hcRemove = {} /\ pending' = pending /\ localMsgs' = localMsgs /\ crashes' = crashes
      /\ pending \subseteq Messages
  BY ZenonT(60) DEF HeadChange, CurTsFree, poolVars, localVars, PoolOK
<1>8. \A m : (Used(m, curTs) <=> Used(m, o)) /\ (Used(m, curTs)' <=> Used(m, n))
  BY <1>1, <1>2, ZenonT(60) DEF Used, NonceAt
<1>9. /\ \A m \in Messages : Used(m, n) /\ ~ Used(m, o) => Slot(m) \in hcRemove'
      /\ \A m \in hcAdd' : ~ Used(m, n)
  <2>1. Switches(o, n, rev, app)
    BY <1>4, <1>5, ChainSwitch, ZenonT(60)
  <2> QED  BY <1>6, <2>1, ZenonT(60) DEF Switches
<1>10. UsedOK'
  BY <1>7, <1>8, <1>9, ZenonT(60) DEF UsedOK
<1> QED  BY <1>10, HeadChangeFeed, ZenonT(60)

\* What HeadChange removes and adds keeps the two invariants.
LEMMA HeadChangeWork ==
    ASSUME PoolOK, RestOK, FeedOK, UsedOK, headChangeRemove \/ headChangeAdd
    PROVE  FeedOK' /\ UsedOK'
<1>1. started
  BY ZenonT(60) DEF FeedOK, headChangeRemove, headChangeAdd
<1>2. /\ curTs' = curTs /\ heaviest' = heaviest /\ headChanges' = headChanges /\ localMsgs' = localMsgs
      /\ toLoad' = toLoad /\ started' = started /\ crashes' = crashes /\ runLoop' = runLoop
  BY ZenonT(60) DEF headChangeRemove, headChangeAdd, chainVars, localVars, loopVars
<1>3. FeedOK'
  BY <1>1, <1>2, ZenonT(60) DEF FeedOK
<1>4. \A m : Used(m, curTs)' <=> Used(m, curTs)
  BY <1>2, ZenonT(60) DEF Used, NonceAt
<1>5. pending \subseteq Messages
  BY ZenonT(60) DEF PoolOK
<1>6. CASE headChangeRemove
  <2>1. PICK s \in hcRemove : remove(s[1], s[2]) /\ hcRemove' = hcRemove \ {s}
    BY <1>6, ZenonT(60) DEF headChangeRemove
  <2>2. s = <<s[1], s[2]>>
    <3>1. s \in Addrs \X Nat
      BY <2>1, ZenonT(60) DEF RestOK
    <3> QED  BY <3>1
  <2>3. \A e \in pending' : e \in pending /\ Slot(e) # s
    BY <1>5, <2>1, <2>2, RemovedOnly, ZenonT(60)
  <2>4. hcAdd' = hcAdd
    BY <1>6, ZenonT(60) DEF headChangeRemove
  <2>5. UsedOK'
    BY <1>2, <1>4, <2>1, <2>3, <2>4, ZenonT(60) DEF UsedOK
  <2> QED  BY <1>3, <2>5, ZenonT(60)
<1>7. CASE headChangeAdd
  <2>1. PICK m \in hcAdd : addLocked(m) /\ hcAdd' = hcAdd \ {m}
    BY <1>7, ZenonT(60) DEF headChangeAdd
  <2>2. \A e \in pending' : e \in pending \/ e = m
    BY <2>1, AddedOnly, ZenonT(60)
  <2>3. hcRemove' = hcRemove
    BY <1>7, ZenonT(60) DEF headChangeAdd
  <2>4. UsedOK'
    BY <1>1, <1>2, <1>4, <2>1, <2>2, <2>3, ZenonT(60) DEF UsedOK
  <2> QED  BY <1>3, <2>4, ZenonT(60)
<1> QED  BY <1>6, <1>7

\* So does a restart after a crash.
LEMMA RestartUsed ==
    ASSUME RestOK, FeedOK, Restart, crashes' \in Nat, crashes' > 0
    PROVE  FeedOK' /\ UsedOK'
  BY ZenonT(60) DEF FeedOK, UsedOK, Restart

\* A new head of the chain store joins the queue at its end.
LEMMA HeadMovesUsed ==
    ASSUME RestOK, FeedOK, UsedOK, NEW ts \in TipSets, HeadMoves(ts)
    PROVE  FeedOK' /\ UsedOK'
<1>1. PICK q : q = headChanges
  BY ZenonT(60)
<1>2. PICK h : h = heaviest
  BY ZenonT(60)
<1>3. q \in Seq(TipSets \X TipSets) /\ h \in TipSets /\ headChanges' = Append(q, <<h, ts>>) /\ heaviest' = ts
  BY <1>1, <1>2, ZenonT(60) DEF RestOK, HeadMoves
<1>4. /\ curTs \in TipSets /\ toLoad = {}
      /\ q # <<>> => Head(q)[1] = curTs
      /\ q = <<>> => h = curTs
      /\ q # <<>> => q[Len(q)][2] = h
      /\ \A i \in 1 .. Len(q) - 1 : q[i + 1][1] = q[i][2]
  BY <1>1, <1>2, ZenonT(60) DEF FeedOK, HeadMoves
<1>5. /\ curTs' = curTs /\ hcRemove' = hcRemove /\ hcAdd' = hcAdd /\ pending' = pending
      /\ localMsgs' = localMsgs /\ toLoad' = toLoad /\ started /\ started' = started
      /\ crashes' = crashes /\ runLoop' = runLoop
  BY ZenonT(60) DEF HeadMoves, hcVars, poolVars, localVars, loopVars
<1>6. UsedOK'
  <2>1. \A m : Used(m, curTs)' <=> Used(m, curTs)
    BY <1>5, ZenonT(60) DEF Used, NonceAt
  <2> QED  BY <1>5, <2>1, ZenonT(60) DEF UsedOK
<1>7. PICK r : r = Append(q, <<h, ts>>)
  BY ZenonT(60)
<1>8. /\ Len(r) = Len(q) + 1 /\ Len(q) \in Nat /\ r[Len(q) + 1] = <<h, ts>> /\ r # <<>> /\ Head(r) = r[1]
      /\ \A i \in 1 .. Len(q) : r[i] = q[i]
  BY <1>3, <1>7
<1>9. r[1][1] = curTs
  <2>1. CASE q = <<>>
    BY <1>4, <1>8, <2>1
  <2>2. CASE q # <<>>
    <3>1. 1 \in 1 .. Len(q) /\ Head(q) = q[1]
      BY <1>3, <2>2
    <3> QED  BY <1>4, <1>8, <2>2, <3>1, ZenonT(60)
  <2> QED  BY <2>1, <2>2
<1>10. ASSUME NEW i \in 1 .. Len(r) - 1 PROVE r[i + 1][1] = r[i][2]
  <2>1. i \in 1 .. Len(q)
    BY ONLY <1>8, SMTT(60)
  <2>2. CASE i = Len(q)
    <3>1. q # <<>>
      BY <1>3, <2>1, <2>2
    <3>2. q[i][2] = h
      BY <1>4, <2>2, <3>1, ZenonT(60)
    <3>3. r[i + 1][1] = h
      BY <1>8, <2>2
    <3> QED  BY <1>8, <2>1, <3>2, <3>3, ZenonT(60)
  <2>3. CASE i # Len(q)
    <3>1. i \in 1 .. Len(q) - 1 /\ i + 1 \in 1 .. Len(q)
      BY ONLY <1>8, <2>1, <2>3, SMTT(60)
    <3> QED  BY <1>4, <1>8, <2>1, <3>1, ZenonT(60)
  <2> QED  BY <2>2, <2>3
<1>11. r[Len(r)][2] = ts
  BY <1>8
<1> DEFINE Queued(x) == /\ x # <<>> /\ Head(x)[1] = curTs /\ x[Len(x)][2] = ts
                        /\ \A i \in 1 .. Len(x) - 1 : x[i + 1][1] = x[i][2]
<1>12. Queued(r)
  BY <1>8, <1>9, <1>10, <1>11, ZenonT(60)
<1> HIDE DEF Queued
<1>13. Queued(headChanges')
  BY <1>3, <1>7, <1>12, ZenonT(60)
<1>14. toLoad' \subseteq localMsgs' /\ (runLoop' = "pruneNil" => crashes' > 0)
  BY <1>5, ZenonT(60) DEF FeedOK
<1>15. FeedOK'
  BY <1>3, <1>4, <1>5, <1>13, <1>14, ZenonT(60) DEF FeedOK, Queued
<1> QED  BY <1>6, <1>15

\* Every step keeps the two invariants.
LEMMA NextUsed ==
    ASSUME Inv, FeedOK, UsedOK, [Next]_vars
    PROVE  FeedOK' /\ UsedOK'
<1>0. PoolOK /\ RestOK
  BY ZenonT(60) DEF Inv
<1> DEFINE Adds == \A e \in pending' : e \in pending \/ (IF started THEN ~ Used(e, curTs) ELSE e \in localMsgs)
<1>1. ASSUME SameFeed, Adds PROVE FeedOK' /\ UsedOK'
  BY <1>0, <1>1, SameFeedKeeps, ZenonT(60)
<1>2. ASSUME NEW m \in Messages, started, addLocked(m), getStateNonce(From[m], curTs) <= Nonce[m] PROVE Adds
  BY <1>0, <1>2, AddedOnly, NewNotUsed, ZenonT(60)
<1>3. CASE UNCHANGED vars
  <2>1. SameFeed /\ pending' = pending
    BY <1>3, ZenonT(60) DEF vars, poolVars, chainVars, loopVars, hcVars, localVars, SameFeed
  <2> QED  BY <1>1, <2>1, ZenonT(60)
<1>4. ASSUME NEW m \in Network, Add(m) PROVE FeedOK' /\ UsedOK'
  <2>1. SameFeed
    BY <1>4, ZenonT(60) DEF Add, loopVars, hcVars, chainVars, localVars, SameFeed
  <2>2. m \in Messages /\ started /\ addLocked(m) /\ getStateNonce(From[m], curTs) <= Nonce[m]
    BY <1>4, MessagesAssumption, ZenonT(60) DEF Add, addTs
  <2> QED  BY <1>1, <1>2, <2>1, <2>2, ZenonT(60)
<1>5. ASSUME NEW m \in Clients, Push(m) PROVE FeedOK' /\ UsedOK'
  <2>1. SameFeed
    BY <1>5, ZenonT(60) DEF Push, loopVars, hcVars, chainVars, SameFeed
  <2>2. m \in Messages /\ started /\ addLocked(m) /\ getStateNonce(From[m], curTs) <= Nonce[m]
    BY <1>5, MessagesAssumption, ZenonT(60) DEF Push, addTs
  <2> QED  BY <1>1, <1>2, <2>1, <2>2, ZenonT(60)
<1>6. ASSUME NEW m \in Messages, PushWithNonce(m) PROVE FeedOK' /\ UsedOK'
  <2>1. SameFeed
    BY <1>6, ZenonT(60) DEF PushWithNonce, loopVars, hcVars, chainVars, SameFeed
  <2>2. started /\ addLocked(m) /\ Nonce[m] = getNonceLocked(From[m], curTs)
    BY <1>6, ZenonT(60) DEF PushWithNonce
  <2>3. getStateNonce(From[m], curTs) <= Nonce[m]
    <3>1. PICK n \in Nat : n = getStateNonce(From[m], curTs)
      <4>1. curTs \in TipSets /\ From[m] \in Addrs
        BY <2>2, MessagesAssumption DEF FeedOK
      <4> QED  BY <4>1, StateNonceIs, UsedNonces, ZenonT(60)
    <3>2. nextNonce[From[m]] \in Nat
      BY <1>0, MessagesAssumption DEF PoolOK
    <3>3. Nonce[m] = n \/ (Nonce[m] = nextNonce[From[m]] /\ ~ (n > nextNonce[From[m]]))
      BY <2>2, <3>1, ZenonT(60) DEF getNonceLocked
    <3>4. n <= Nonce[m]
      BY ONLY <3>1, <3>2, <3>3, SMTT(60)
    <3> QED  BY <3>1, <3>4, ZenonT(60)
  <2> QED  BY <1>1, <1>2, <2>1, <2>2, <2>3, ZenonT(60)
<1>7. ASSUME NEW m \in Messages, addLocal(m) PROVE FeedOK' /\ UsedOK'
  <2>1. SameFeed /\ pending' = pending
    BY <1>7, ZenonT(60) DEF addLocal, poolVars, loopVars, hcVars, chainVars, SameFeed
  <2> QED  BY <1>1, <2>1, ZenonT(60)
<1>8. CASE runLoopPrune \/ Prune
  <2>1. SameFeed /\ pending' = pending
    <3>1. runLoop' # "pruneNil" \/ runLoop' = runLoop
      BY <1>8 DEF runLoopPrune, Prune
    <3> QED  BY <1>8, <3>1, ZenonT(60) DEF runLoopPrune, Prune, hcVars, chainVars, localVars, SameFeed
  <2> QED  BY <1>1, <2>1, ZenonT(60)
<1>9. CASE pruneReadTs
  <2>1. runLoop' = "pruneNil" => ~ started
    BY <1>9, ChainAssumption DEF pruneReadTs, FeedOK
  <2>2. SameFeed /\ pending' = pending
    BY <1>9, <2>1, ZenonT(60) DEF pruneReadTs, poolVars, hcVars, chainVars, localVars, SameFeed
  <2> QED  BY <1>1, <2>2, ZenonT(60)
<1>10. CASE pruneExcessMessages
  <2>1. runLoop' # "pruneNil"
    BY <1>10 DEF pruneExcessMessages
  <2>2. pending' \subseteq pending
    <3>1. CASE prunesFrom
      BY <1>10, <3>1, ZenonT(60) DEF pruneExcessMessages, pruneMessages, prunedPools
    <3>2. CASE ~ prunesFrom
      BY <1>10, <3>2, ZenonT(60) DEF pruneExcessMessages, poolVars
    <3> QED  BY <3>1, <3>2
  <2>3. SameFeed
    BY <1>10, <2>1, ZenonT(60) DEF pruneExcessMessages, hcVars, chainVars, localVars, SameFeed
  <2> QED  BY <1>1, <2>2, <2>3, ZenonT(60)
<1>11. ASSUME NEW m \in Messages, loadLocal(m) PROVE FeedOK' /\ UsedOK'
  <2>1. SameFeed
    BY <1>11, ZenonT(60) DEF loadLocal, loopVars, hcVars, chainVars, SameFeed
  <2>2. ~ started /\ m \in localMsgs
    BY <1>11, ZenonT(60) DEF loadLocal, FeedOK
  <2>3. \A e \in pending' : e \in pending \/ e = m
    BY <1>11, AddedOnly, ZenonT(60) DEF loadLocal, addTs, poolVars
  <2> QED  BY <1>1, <2>1, <2>2, <2>3, ZenonT(60)
<1>12. CASE Crash
  <2>1. crashes' \in Nat /\ crashes' > 0
    BY <1>0, <1>12 DEF RestOK, Crash
  <2> QED  BY <1>0, <1>12, <2>1, RestartUsed, ZenonT(60) DEF Crash
<1>13. CASE prunePanic
  <2>1. crashes' \in Nat /\ crashes' > 0
    BY <1>0, <1>13 DEF RestOK, FeedOK, prunePanic
  <2> QED  BY <1>0, <1>13, <2>1, RestartUsed, ZenonT(60) DEF prunePanic
<1>14. CASE finishNew
  <2>1. /\ started' /\ curTs' = heaviest /\ heaviest' = heaviest /\ hcAdd' = {} /\ headChanges' = <<>>
        /\ crashes' = crashes /\ crashes > 0 /\ pending' = pending /\ pending \subseteq localMsgs
        /\ localMsgs' = localMsgs /\ toLoad' = {} /\ runLoop' = runLoop
    BY <1>14, ZenonT(60) DEF finishNew, FeedOK, poolVars, loopVars, chainVars
  <2>2. curTs' \in TipSets
    BY <1>0, <2>1, ZenonT(60) DEF RestOK
  <2>3. \A i \in 1 .. Len(headChanges') - 1 : headChanges'[i + 1][1] = headChanges'[i][2]
    BY <2>1
  <2>4. FeedOK'
    BY <2>1, <2>2, <2>3, ZenonT(60) DEF FeedOK
  <2>5. UsedOK'
    BY <2>1, ZenonT(60) DEF UsedOK
  <2> QED  BY <2>4, <2>5
<1> HIDE DEF Adds
<1>15. CASE (\E ts \in TipSets : HeadMoves(ts)) \/ HeadChange \/ headChangeRemove \/ headChangeAdd
  BY <1>0, <1>15, HeadMovesUsed, HeadChangeUsed, HeadChangeWork, ZenonT(60)
<1> QED
  BY <1>3, <1>4, <1>5, <1>6, <1>7, <1>8, <1>9, <1>10, <1>11, <1>12, <1>13, <1>14, <1>15, ZenonT(60) DEF Next

\* Once started and between head changes the pool holds no message that the chain of curTs
\* has executed, but for local messages reloaded after a crash: HeadChange removes what
\* was applied and adds only what the new chain has not used (messagepool.go, HeadChange).
THEOREM PoolNothingExecuted == Spec => []NoPendingBelowState
<1>1. Init => FeedOK /\ UsedOK
  <2> SUFFICES ASSUME Init PROVE FeedOK /\ UsedOK
    OBVIOUS
  <2>1. /\ pending = {} /\ hcAdd = {} /\ headChanges = <<>> /\ heaviest = curTs /\ curTs \in TipSets
        /\ toLoad = {} /\ started = TRUE /\ runLoop = "select"
    BY ZenonT(60) DEF Init, EmptyPool
  <2>2. \A i \in 1 .. Len(headChanges) - 1 : headChanges[i + 1][1] = headChanges[i][2]
    BY <2>1
  <2>3. runLoop # "pruneNil"
    BY <2>1
  <2> QED  BY <2>1, <2>2, <2>3, ZenonT(60) DEF FeedOK, UsedOK
<1>2. Inv /\ (FeedOK /\ UsedOK) /\ [Next]_vars => (FeedOK /\ UsedOK)'
  BY NextUsed, ZenonT(60)
<1>3. FeedOK /\ UsedOK => NoPendingBelowState
  <2> SUFFICES ASSUME FeedOK, UsedOK, started, CurTsFree, NEW m \in pending, BelowState(m)
               PROVE  crashes > 0 /\ m \in localMsgs
    BY ZenonT(60) DEF NoPendingBelowState
  <2>1. curTs \in TipSets /\ hcRemove = {}
    BY ZenonT(60) DEF FeedOK, CurTsFree
  <2>2. Used(m, curTs)
    BY <2>1, StateNonceIs, ZenonT(60) DEF BelowState, Used
  <2> QED  BY <2>1, <2>2, ZenonT(60) DEF UsedOK
<1> QED
  BY <1>1, <1>2, <1>3, PoolInvariant, PTL DEF Spec
=============================================================================
