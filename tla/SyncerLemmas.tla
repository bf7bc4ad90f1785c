----------------------------- MODULE SyncerLemmas -----------------------------
(***************************************************************************)
(* Lemmas about the definitions of Syncer, for every tree of tipsets:      *)
(* chains of tipsets, what a peer answers, and the loop of syncFork; and   *)
(* the invariant of Syncer, with what keeps its parts.                     *)
(***************************************************************************)
EXTENDS Syncer, SetLemmas, SequenceTheorems, TLAPS

\* the time limit of the SMT solver covers the preparation of the next obligations
USE SMTT(60)

-----------------------------------------------------------------------------
(* Chains *)

\* The tree of tipsets, and the chains in it.
LEMMA ForkTree ==
    Tree(TipSets, NoTs, Parent, Height) /\ Ancestry(TipSets, NoTs, Parent, Chain)
<1>1. Tree(TipSets, NoTs, Parent, Height)
  BY ForksAssumption DEF Tree
<1> DEFINE Fits(C) == C = [ts \in TipSets |-> {ts} \cup (IF Parent[ts] = NoTs THEN {} ELSE C[Parent[ts]])]
<1>2. \E C : Ancestry(TipSets, NoTs, Parent, C)
  BY <1>1, LineageExists, Zenon
<1>3. \E C : Fits(C)
  BY <1>2 DEF Ancestry
<1>4. Chain = CHOOSE C : Fits(C)
  BY DEF Chain
<1> HIDE DEF Fits
<1>5. Fits(Chain)
  BY <1>3, <1>4
<1> QED  BY <1>1, <1>5 DEF Fits, Ancestry

\* The chain of a tipset has the tipset and the chain of its parent, which is lower.
LEMMA ChainOf ==
    ASSUME NEW ts \in TipSets
    PROVE  /\ Chain[ts] \subseteq TipSets /\ ts \in Chain[ts]
           /\ \A y \in Chain[ts] : (y # ts => Height[y] < Height[ts]) /\ Chain[y] \subseteq Chain[ts]
           /\ ts # Genesis => /\ Parent[ts] \in TipSets /\ Height[Parent[ts]] < Height[ts]
                              /\ Chain[ts] = {ts} \cup Chain[Parent[ts]]
<1>1. Chain[ts] = {ts} \cup (IF Parent[ts] = NoTs THEN {} ELSE Chain[Parent[ts]])
  BY ForkTree, ZenonT(60) DEF Ancestry
<1>2. /\ Chain[ts] \subseteq TipSets /\ ts \in Chain[ts]
      /\ \A y \in Chain[ts] : (y # ts => Height[y] < Height[ts]) /\ Chain[y] \subseteq Chain[ts]
  BY ForkTree, Lineage, ZenonT(60)
<1>3. ts # Genesis => Parent[ts] # NoTs
  BY GenesisAssumption
<1>4. ts # Genesis => Parent[ts] \in TipSets /\ Height[Parent[ts]] < Height[ts]
  BY <1>3, ForksAssumption
<1> QED  BY <1>1, <1>2, <1>3, <1>4

\* A chain is finite.
LEMMA ChainFinite ==
    ASSUME NEW ts \in TipSets
    PROVE  IsFiniteSet(Chain[ts])
<1> DEFINE Bad == {t \in TipSets : ~ IsFiniteSet(Chain[t])}
           M == {Height[t] : t \in Bad}
<1>1. SUFFICES ASSUME Bad # {} PROVE FALSE
  OBVIOUS
<1>2. M \in SUBSET Nat /\ M # {}
  BY <1>1, ForksAssumption
<1>3. PICK n \in M : \A k \in M : n <= k
  <2> HIDE DEF M
  <2> QED  BY <1>2, LeastElement
<1>4. PICK t \in Bad : Height[t] = n
  BY <1>3
<1>5. Chain[t] = {t} \cup (IF Parent[t] = NoTs THEN {} ELSE Chain[Parent[t]])
  BY <1>4, ForkTree, ZenonT(60) DEF Ancestry
<1>6. CASE Parent[t] = NoTs
  <2>1. Chain[t] = {t}
    BY <1>5, <1>6
  <2> QED  BY <1>4, <2>1, FS_Singleton, ZenonT(60)
<1>7. CASE Parent[t] # NoTs
  <2>1. Parent[t] \in TipSets /\ Height[Parent[t]] < Height[t]
    BY <1>4, <1>7, ForksAssumption
  <2>2. Parent[t] \notin Bad
    <3>1. Parent[t] \in Bad => Height[Parent[t]] \in M
      OBVIOUS
    <3>2. Height[Parent[t]] \in Nat /\ n \in Nat
      BY <1>2, <1>3, <2>1, ForksAssumption
    <3> HIDE DEF Bad, M
    <3> QED  BY ONLY <1>3, <1>4, <2>1, <3>1, <3>2, SMTT(60)
  <2>3. IsFiniteSet(Chain[Parent[t]])
    BY <2>1, <2>2
  <2>4. Chain[t] = Chain[Parent[t]] \cup {t}
    BY <1>5, <1>7
  <2> QED  BY <1>4, <2>3, <2>4, FS_AddElement
<1> QED  BY <1>6, <1>7

\* tipsets from the top down, each the parent of the one before
Linked(s) ==
    /\ s \in Seq(TipSets) /\ s # <<>>
    /\ \A i \in 1 .. Len(s) - 1 : s[i + 1] = Parent[s[i]]

\* A linked sequence has a first and a last tipset.
LEMMA LinkedEnds ==
    ASSUME NEW s, Linked(s)
    PROVE  /\ s \in Seq(TipSets) /\ Len(s) \in Nat /\ Len(s) >= 1 /\ DOMAIN s = 1 .. Len(s)
           /\ s[1] \in TipSets /\ Last(s) \in TipSets
           /\ \A i \in 1 .. Len(s) : s[i] \in TipSets
<1>1. s \in Seq(TipSets) /\ Len(s) \in Nat /\ DOMAIN s = 1 .. Len(s) /\ Len(s) # 0
  BY LenProperties, EmptySeq DEF Linked
<1>2. \A i \in 1 .. Len(s) : s[i] \in TipSets
  BY <1>1
<1> QED  BY <1>1, <1>2 DEF Last

\* One tipset is linked.
LEMMA LinkedOne ==
    ASSUME NEW ts \in TipSets
    PROVE  Linked(<<ts>>) /\ <<ts>>[1] = ts /\ Last(<<ts>>) = ts
BY DEF Linked, Last

\* A part of a linked sequence from its start is linked.
LEMMA LinkedPrefix ==
    ASSUME NEW s, Linked(s), NEW n \in 1 .. Len(s)
    PROVE  /\ Linked(SubSeq(s, 1, n)) /\ Len(SubSeq(s, 1, n)) = n
           /\ SubSeq(s, 1, n)[1] = s[1] /\ Last(SubSeq(s, 1, n)) = s[n]
<1>1. s \in Seq(TipSets) /\ Len(s) \in Nat /\ n \in Nat /\ n >= 1 /\ \A i \in 1 .. Len(s) : s[i] \in TipSets
  BY LinkedEnds
<1> DEFINE t == SubSeq(s, 1, n)
<1>2. \A i \in 1 .. n : s[i] \in TipSets
  BY <1>1
<1>3. t \in Seq(TipSets) /\ Len(t) = n /\ \A i \in 1 .. n : t[i] = s[i]
  BY <1>1, <1>2, SubSeqProperties
<1> HIDE DEF t
<1>4. t # <<>>
  BY <1>1, <1>3, EmptySeq
<1>5. \A i \in 1 .. n - 1 : t[i + 1] = Parent[t[i]]
  BY <1>1, <1>3 DEF Linked
<1>6. Linked(t)
  BY <1>3, <1>4, <1>5, ZenonT(60) DEF Linked
<1>7. 1 \in 1 .. n /\ n \in 1 .. n
  BY ONLY <1>1, SMTT(60)
<1>8. t[1] = s[1] /\ Last(t) = s[n]
  BY <1>3, <1>7, ZenonT(60) DEF Last
<1> QED  BY <1>3, <1>6, <1>8, ZenonT(60) DEF t

\* u is s and then t
Joined(s, t, u) ==
    /\ Linked(u) /\ u[1] = s[1] /\ Last(u) = Last(t)
    /\ Len(u) = Len(s) + Len(t)
    /\ \A i \in 1 .. Len(s) : u[i] = s[i]
    /\ \A i \in 1 .. Len(t) : u[Len(s) + i] = t[i]

\* Linked sequences that fit together are linked.
LEMMA LinkedJoin ==
    ASSUME NEW s, NEW t, Linked(s), Linked(t), t[1] = Parent[Last(s)]
    PROVE  Joined(s, t, s \o t)
<1>1. /\ s \in Seq(TipSets) /\ Len(s) \in Nat /\ Len(s) >= 1
      /\ t \in Seq(TipSets) /\ Len(t) \in Nat /\ Len(t) >= 1
  BY LinkedEnds
<1> DEFINE u == s \o t
<1>2. /\ u \in Seq(TipSets) /\ Len(u) = Len(s) + Len(t)
      /\ \A i \in 1 .. Len(s) + Len(t) : u[i] = IF i <= Len(s) THEN s[i] ELSE t[i - Len(s)]
  BY <1>1, ConcatProperties
<1> HIDE DEF u
<1>3. \A i \in 1 .. Len(s) : u[i] = s[i]
  <2> TAKE i \in 1 .. Len(s)
  <2>1. i \in 1 .. Len(s) + Len(t) /\ i <= Len(s)
    BY <1>1
  <2> QED  BY <1>2, <2>1, ZenonT(60)
<1>4. \A i \in 1 .. Len(t) : u[Len(s) + i] = t[i]
  <2> TAKE i \in 1 .. Len(t)
  <2>1. Len(s) + i \in 1 .. Len(s) + Len(t) /\ ~ (Len(s) + i <= Len(s)) /\ (Len(s) + i) - Len(s) = i
    BY <1>1
  <2> QED  BY <1>2, <2>1, ZenonT(60)
<1>5. ASSUME NEW i \in 1 .. Len(u) - 1 PROVE u[i + 1] = Parent[u[i]]
  <2>1. i \in Nat /\ i >= 1 /\ i < Len(s) + Len(t)
    BY <1>1, <1>2
  <2>2. CASE i < Len(s)
    <3>1. i \in 1 .. Len(s) - 1 /\ i \in 1 .. Len(s) /\ i + 1 \in 1 .. Len(s)
      BY ONLY <1>1, <2>1, <2>2, SMTT(60)
    <3> QED  BY <1>3, <3>1, ZenonT(60) DEF Linked
  <2>3. CASE i = Len(s)
    <3>1. u[i] = Last(s) /\ u[i + 1] = t[1]
      BY <1>1, <1>3, <1>4, <2>3 DEF Last
    <3> QED  BY <3>1
  <2>4. CASE i > Len(s)
    <3>1. PICK j \in 1 .. Len(t) - 1 : i = Len(s) + j
      <4>1. i - Len(s) \in 1 .. Len(t) - 1 /\ i = Len(s) + (i - Len(s))
        BY <1>1, <2>1, <2>4
      <4> QED  BY <4>1
    <3>2. u[i] = t[j] /\ u[i + 1] = t[j + 1]
      <4>1. j \in 1 .. Len(t) /\ j + 1 \in 1 .. Len(t) /\ i + 1 = Len(s) + (j + 1)
        BY <1>1, <3>1
      <4> QED  BY <1>4, <3>1, <4>1
    <3> QED  BY <3>1, <3>2, ZenonT(60) DEF Linked
  <2> QED  BY <1>1, <2>1, <2>2, <2>3, <2>4
<1>6. u # <<>> /\ u[1] = s[1] /\ Last(u) = Last(t)
  BY <1>1, <1>2, <1>3, <1>4, EmptySeq DEF Last
<1>7. Linked(u)
  BY <1>2, <1>5, <1>6, ZenonT(60) DEF Linked
<1> QED  BY <1>2, <1>3, <1>4, <1>6, <1>7, ZenonT(60) DEF Joined, u

\* The tipsets of a linked sequence are on the chains of those before them, and lower.
LEMMA LinkedDown ==
    ASSUME NEW s, Linked(s), NEW i \in 1 .. Len(s), NEW j \in 1 .. Len(s), i < j
    PROVE  /\ Height[s[j]] < Height[s[i]]
           /\ s[i] # Genesis /\ s[j] \in Chain[Parent[s[i]]]
<1> DEFINE Down(k) == Height[s[k]] < Height[s[i]] /\ s[i] # Genesis /\ s[k] \in Chain[Parent[s[i]]]
           Bad == {k \in Nat : i < k /\ k <= Len(s) /\ ~ Down(k)}
<1>1. Len(s) \in Nat /\ i \in Nat /\ i >= 1 /\ j \in Nat /\ \A k \in 1 .. Len(s) : s[k] \in TipSets
  BY LinkedEnds
<1>2. SUFFICES ASSUME Bad # {} PROVE FALSE
  BY <1>1
<1>3. Bad \in SUBSET Nat
  OBVIOUS
<1>4. PICK k \in Bad : \A l \in Bad : k <= l
  <2> HIDE DEF Bad
  <2> QED  BY <1>2, <1>3, LeastElement
<1>5. k \in Nat /\ i < k /\ k <= Len(s) /\ ~ Down(k)
  BY <1>4
<1> DEFINE m == k - 1
<1>6. m \in 1 .. Len(s) - 1 /\ m \in 1 .. Len(s) /\ k = m + 1 /\ k \in 1 .. Len(s) /\ i <= m
  BY <1>1, <1>5
<1> HIDE DEF m
<1>7. s[k] = Parent[s[m]] /\ s[k] \in TipSets /\ s[m] \in TipSets /\ s[i] \in TipSets
  BY <1>1, <1>6 DEF Linked
<1>8. s[m] # Genesis /\ Height[s[k]] < Height[s[m]] /\ s[k] \in Chain[s[k]] /\ s[k] \in Chain[s[m]]
  <2>1. s[m] # Genesis
    BY <1>7, GenesisAssumption, ForksAssumption
  <2>2. Height[s[k]] < Height[s[m]] /\ Chain[s[m]] = {s[m]} \cup Chain[s[k]] /\ s[k] \in Chain[s[k]]
    BY <1>7, <2>1, ChainOf
  <2> QED  BY <2>1, <2>2
<1>9. Height[s[k]] \in Nat /\ Height[s[m]] \in Nat /\ Height[s[i]] \in Nat
  BY <1>7, ForksAssumption
<1>10. CASE m = i
  BY <1>5, <1>7, <1>8, <1>10
<1>11. CASE m # i
  <2>1. m \notin Bad
    <3>1. m \in Nat /\ m < k
      BY <1>5, <1>6
    <3> HIDE DEF Bad
    <3> QED  BY <1>4, <1>5, <3>1
  <2>2. Down(m)
    BY <1>1, <1>6, <1>11, <2>1
  <2>3. Height[s[k]] < Height[s[i]]
    BY ONLY <1>8, <1>9, <2>2, SMTT(60)
  <2>4. s[k] \in Chain[Parent[s[i]]]
    <3>1. Parent[s[i]] \in TipSets
      BY <1>7, <2>2, ChainOf
    <3>2. Chain[s[m]] \subseteq Chain[Parent[s[i]]]
      BY <2>2, <3>1, ChainOf
    <3> QED  BY <1>8, <3>2
  <2> QED  BY <1>5, <2>2, <2>3, <2>4
<1> QED  BY <1>10, <1>11

\* They are all on the chain of the first.
LEMMA OnChain ==
    ASSUME NEW s, Linked(s), NEW i \in 1 .. Len(s)
    PROVE  s[i] \in Chain[s[1]]
<1>1. Len(s) \in Nat /\ Len(s) >= 1 /\ s[1] \in TipSets
  BY LinkedEnds
<1>2. CASE i = 1
  BY <1>1, <1>2, ChainOf
<1>3. CASE i # 1
  <2>1. 1 \in 1 .. Len(s) /\ 1 < i
    BY <1>1, <1>3
  <2>2. s[1] # Genesis /\ s[i] \in Chain[Parent[s[1]]]
    BY <2>1, LinkedDown
  <2>3. Chain[s[1]] = {s[1]} \cup Chain[Parent[s[1]]]
    BY <1>1, <2>2, ChainOf
  <2> QED  BY <2>2, <2>3
<1> QED  BY <1>2, <1>3

\* What is below the last of them is below all of them.
LEMMA BelowAll ==
    ASSUME NEW s, Linked(s), Last(s) # Genesis, NEW j \in 1 .. Len(s)
    PROVE  /\ s[j] \in TipSets /\ s[j] # Genesis /\ Parent[s[j]] \in TipSets
           /\ Parent[Last(s)] \in TipSets /\ Parent[Last(s)] \in Chain[Parent[s[j]]]
           /\ Chain[Parent[Last(s)]] \subseteq Chain[Parent[s[j]]]
<1>1. Len(s) \in Nat /\ Len(s) >= 1 /\ s[j] \in TipSets /\ Last(s) \in TipSets
  BY LinkedEnds
<1>2. /\ Parent[Last(s)] \in TipSets /\ Parent[Last(s)] \in Chain[Parent[Last(s)]]
      /\ Chain[Last(s)] = {Last(s)} \cup Chain[Parent[Last(s)]]
  BY <1>1, ChainOf
<1>3. CASE j = Len(s)
  <2>1. s[j] = Last(s)
    BY <1>3 DEF Last
  <2> QED  BY <1>1, <1>2, <2>1
<1>4. CASE j # Len(s)
  <2>1. Len(s) \in 1 .. Len(s) /\ j < Len(s)
    BY <1>1, <1>4
  <2>2. s[j] # Genesis /\ Last(s) \in Chain[Parent[s[j]]]
    BY <2>1, LinkedDown DEF Last
  <2>3. Parent[s[j]] \in TipSets
    BY <1>1, <2>2, ChainOf
  <2>4. Chain[Last(s)] \subseteq Chain[Parent[s[j]]]
    BY <2>2, <2>3, ChainOf
  <2> QED  BY <1>1, <1>2, <2>2, <2>3, <2>4
<1> QED  BY <1>3, <1>4

-----------------------------------------------------------------------------
(* Answers of peers *)

\* The smaller of two numbers is one of them and at most the other.
LEMMA MinOfTwo ==
    ASSUME NEW m \in Nat, NEW n \in Nat
    PROVE  Min({m, n}) \in {m, n} /\ Min({m, n}) <= m /\ Min({m, n}) <= n
<1>1. \E x \in {m, n} : \A y \in {m, n} : x <= y
  <2>1. CASE m <= n
    BY <2>1
  <2>2. CASE n <= m
    BY <2>2
  <2> QED  BY <2>1, <2>2
<1>2. Min({m, n}) \in {m, n} /\ \A y \in {m, n} : Min({m, n}) <= y
  BY <1>1, ZenonT(60) DEF Min
<1> QED  BY <1>2

\* segments gives the tipset and what it gives for its parent.
LEMMA SegmentsUnfold ==
    \A ts \in TipSets : segments[ts] = <<ts>> \o (IF Parent[ts] = NoTs THEN <<>> ELSE segments[Parent[ts]])
<1> DEFINE V == Seq(TipSets)
           below(x, f) == IF Parent[x] = NoTs THEN <<>> ELSE f[Parent[x]]
           step == [q \in TipSets \X [TipSets -> V] |-> <<q[1]>> \o below(q[1], q[2])]
           Fits(f) == f = [ts \in TipSets |-> <<ts>> \o (IF Parent[ts] = NoTs THEN <<>> ELSE f[Parent[ts]])]
<1>1. segments = CHOOSE f : Fits(f)
  BY DEF segments
<1>2. ASSUME NEW x \in TipSets, NEW f \in [TipSets -> V]
      PROVE  <<x>> \o below(x, f) \in V /\ step[<<x, f>>] = <<x>> \o below(x, f)
  <2>1. below(x, f) \in V
    <3>1. <<>> \in Seq(TipSets)
      BY EmptySeq
    <3> QED  BY <3>1, ForksAssumption
  <2>2. <<x>> \in Seq(TipSets)
    OBVIOUS
  <2> HIDE DEF below
  <2>3. <<x>> \o below(x, f) \in V
    BY <2>1, <2>2, ConcatProperties
  <2> QED  BY <2>3
<1> HIDE DEF below
<1>3. step \in [TipSets \X [TipSets -> V] -> V]
  <2>1. \A q \in TipSets \X [TipSets -> V] : <<q[1]>> \o below(q[1], q[2]) \in V
    BY <1>2, ZenonT(60)
  <2> HIDE DEF V
  <2> QED  BY <2>1
<1>4. V # {}
  <2>1. <<>> \in Seq(TipSets)
    BY EmptySeq
  <2> QED  BY <2>1, ZenonT(60)
<1>5. Height \in [TipSets -> Nat]
  BY ForksAssumption
<1>6. ASSUME NEW x \in TipSets, NEW f \in [TipSets -> V], NEW g \in [TipSets -> V],
             \A y \in TipSets : Height[y] < Height[x] => f[y] = g[y]
      PROVE  step[<<x, f>>] = step[<<x, g>>]
  <2>1. below(x, f) = below(x, g)
    BY <1>6, ForksAssumption DEF below
  <2>2. step[<<x, f>>] = <<x>> \o below(x, f) /\ step[<<x, g>>] = <<x>> \o below(x, g)
    BY <1>2, ZenonT(60)
  <2> HIDE DEF step
  <2> QED  BY <2>1, <2>2, ZenonT(60)
<1> HIDE DEF step
<1>7. Determines(TipSets, V, Height, step)
  <2> HIDE DEF V
  <2> QED  BY <1>3, <1>4, <1>5, <1>6, ZenonT(60) DEF Determines
<1>8. PICK f : Solution(TipSets, V, step, f)
  BY <1>7, RecursiveFunction, ZenonT(60)
<1>9. f \in [TipSets -> V] /\ \A x \in TipSets : f[x] = <<x>> \o below(x, f)
  <2> HIDE DEF V
  <2> QED  BY <1>2, <1>8, ZenonT(60) DEF Solution
<1>10. Fits(f)
  BY <1>9 DEF below
<1>11. Fits(segments)
  <2> HIDE DEF Fits
  <2> QED  BY <1>1, <1>10, ZenonT(60)
<1> QED  BY <1>11, ZenonT(60)

\* segments gives the chain of a tipset down to genesis.
LEMMA SegmentsLinked ==
    ASSUME NEW ts \in TipSets
    PROVE  Linked(segments[ts]) /\ segments[ts][1] = ts /\ Last(segments[ts]) = Genesis
<1> DEFINE Fits(t) == Linked(segments[t]) /\ segments[t][1] = t /\ Last(segments[t]) = Genesis
           Bad == {t \in TipSets : ~ Fits(t)}
           M == {Height[t] : t \in Bad}
<1>1. SUFFICES ASSUME Bad # {} PROVE FALSE
  OBVIOUS
<1>2. M \in SUBSET Nat /\ M # {}
  <2>1. Bad \subseteq TipSets
    OBVIOUS
  <2> HIDE DEF Bad
  <2> QED  BY <1>1, <2>1, ForksAssumption
<1>3. PICK n \in M : \A k \in M : n <= k
  <2> HIDE DEF M
  <2> QED  BY <1>2, LeastElement
<1>4. PICK t \in Bad : Height[t] = n
  <2> HIDE DEF Bad
  <2> QED  BY <1>3
<1>5. t \in TipSets /\ ~ Fits(t)
  BY <1>4
<1> HIDE DEF Fits
<1>6. segments[t] = <<t>> \o (IF Parent[t] = NoTs THEN <<>> ELSE segments[Parent[t]])
  BY <1>5, SegmentsUnfold
<1>7. CASE Parent[t] = NoTs
  <2>1. segments[t] = <<t>> \o <<>> /\ t = Genesis
    BY <1>5, <1>6, <1>7, GenesisAssumption
  <2>2. <<t>> \o <<>> = <<t>>
    BY ConcatEmptySeq, <1>5
  <2> QED  BY <1>5, <2>1, <2>2, LinkedOne DEF Fits
<1>8. CASE Parent[t] # NoTs
  <2>1. Parent[t] \in TipSets /\ Height[Parent[t]] < Height[t]
    BY <1>5, <1>8, ForksAssumption
  <2>2. Parent[t] \notin Bad
    <3>1. Parent[t] \in Bad => Height[Parent[t]] \in M
      OBVIOUS
    <3>2. Height[Parent[t]] \in Nat /\ n \in Nat
      BY <1>2, <1>3, <2>1, ForksAssumption
    <3> HIDE DEF Bad, M
    <3> QED  BY ONLY <1>3, <1>4, <2>1, <3>1, <3>2, SMTT(60)
  <2>3. Fits(Parent[t])
    BY <2>1, <2>2
  <2>4. segments[t] = <<t>> \o segments[Parent[t]]
    BY <1>6, <1>8
  <2>5. Linked(<<t>>) /\ <<t>>[1] = t /\ Last(<<t>>) = t
    BY <1>5, LinkedOne
  <2>6. Linked(segments[Parent[t]]) /\ segments[Parent[t]][1] = Parent[t] /\ Last(segments[Parent[t]]) = Genesis
    BY <2>3 DEF Fits
  <2>7. Linked(segments[t]) /\ segments[t][1] = t /\ Last(segments[t]) = Genesis
    <3>1. segments[Parent[t]][1] = Parent[Last(<<t>>)]
      BY <2>5, <2>6
    <3>2. /\ Linked(<<t>> \o segments[Parent[t]])
          /\ (<<t>> \o segments[Parent[t]])[1] = <<t>>[1]
          /\ Last(<<t>> \o segments[Parent[t]]) = Last(segments[Parent[t]])
      BY <2>5, <2>6, <3>1, LinkedJoin, ZenonT(60) DEF Joined
    <3> QED  BY <2>4, <2>5, <2>6, <3>2, ZenonT(60)
  <2> QED  BY <1>5, <2>7 DEF Fits
<1> QED  BY <1>7, <1>8

\* A peer answers with tipsets from the one it was asked for down, at least with that one.
LEMMA AnswerLinked ==
    ASSUME NEW ts \in TipSets, NEW n \in Nat \ {0}, NEW got \in collectChainSegment(ts, n)
    PROVE  Linked(got) /\ got[1] = ts
<1> DEFINE chain == segments[ts]
           most == Min({n, Len(chain)})
<1>1. Linked(chain) /\ chain[1] = ts
  BY SegmentsLinked
<1>2. PICK k \in 1 .. most : got = SubSeq(chain, 1, k)
  BY ZenonT(60) DEF collectChainSegment
<1> HIDE DEF chain
<1>3. Len(chain) \in Nat /\ Len(chain) >= 1
  BY <1>1, LinkedEnds
<1>4. most \in {n, Len(chain)} /\ most <= Len(chain)
  BY <1>3, MinOfTwo
<1>5. k \in 1 .. Len(chain)
  <2> HIDE DEF most
  <2> QED  BY <1>2, <1>3, <1>4
<1>6. Linked(SubSeq(chain, 1, k)) /\ SubSeq(chain, 1, k)[1] = ts
  BY <1>1, <1>5, LinkedPrefix
<1> QED  BY <1>2, <1>6

\* the part of what a peer answered that collectHeaders keeps
Kept(got, until) == Max({0} \cup {i \in DOMAIN got : \A j \in 1 .. i : Height[got[j]] >= until})

\* It ends before the first tipset below until.
LEMMA KeptPart ==
    ASSUME NEW got, Linked(got), NEW until \in Nat
    PROVE  /\ Kept(got, until) \in 0 .. Len(got)
           /\ Kept(got, until) < Len(got) => Height[got[Kept(got, until) + 1]] < until
<1> DEFINE P == {0} \cup {i \in DOMAIN got : \A j \in 1 .. i : Height[got[j]] >= until}
           n == Max(P)
<1>1. Len(got) \in Nat /\ DOMAIN got = 1 .. Len(got) /\ \A i \in 1 .. Len(got) : Height[got[i]] \in Nat
  BY LinkedEnds, ForksAssumption
<1>2. P \in SUBSET Nat /\ P # {} /\ P \subseteq 0 .. Len(got)
  BY <1>1
<1>3. IsFiniteSet(P)
  <2>1. IsFiniteSet(0 .. Len(got))
    BY <1>1, FS_Interval
  <2> HIDE DEF P
  <2> QED  BY <1>2, <2>1, FS_Subset, ZenonT(60)
<1>4. n \in P /\ \A i \in P : i <= n
  <2> HIDE DEF P
  <2> QED  BY <1>2, <1>3, MaxOfFinite
<1>5. n \in 0 .. Len(got) /\ n \in Nat
  <2> HIDE DEF P, n
  <2> QED  BY <1>2, <1>4
<1> HIDE DEF n
<1>6. ASSUME n < Len(got), ~ (Height[got[n + 1]] < until) PROVE FALSE
  <2>1. \A j \in 1 .. n : Height[got[j]] >= until
    BY <1>4, <1>5
  <2>2. n + 1 \in 1 .. Len(got) /\ \A j \in 1 .. n + 1 : j \in 1 .. n \/ j = n + 1
    BY <1>1, <1>5, <1>6
  <2>3. Height[got[n + 1]] >= until
    <3>1. Height[got[n + 1]] \in Nat
      BY <1>1, <2>2
    <3> QED  BY ONLY <1>6, <3>1, until \in Nat, SMTT(60)
  <2>4. \A j \in 1 .. n + 1 : Height[got[j]] >= until
    BY <2>1, <2>2, <2>3, ZenonT(60)
  <2>5. n + 1 \in P
    BY <1>1, <2>2, <2>4
  <2> HIDE DEF P
  <2> QED  BY <1>4, <1>5, <2>5
<1>7. Kept(got, until) = n
  BY DEF Kept, n
<1> QED  BY <1>5, <1>6, <1>7

\* u is set and then new, the first n of the tipsets got from below it
Extended(set, got, n, new, u) ==
    /\ Linked(u) /\ u[1] = set[1] /\ Len(new) = n /\ Len(u) = Len(set) + n
    /\ \A j \in 1 .. Len(set) : u[j] = set[j]
    /\ n > 0 => u[Len(set) + 1] = Parent[Last(set)]
    /\ n < Len(got) => Last(u) # Genesis /\ Parent[Last(u)] = got[n + 1]
    /\ \A i \in 1 .. n : new[i] = got[i]

\* The headers after a round of collectHeaders that got tipsets from a peer.
LEMMA JoinKept ==
    ASSUME NEW set, Linked(set), NEW got, Linked(got), got[1] = Parent[Last(set)],
           Last(set) # Genesis, NEW n \in 0 .. Len(got)
    PROVE  Extended(set, got, n, SubSeq(got, 1, n), set \o SubSeq(got, 1, n))
<1> DEFINE new == SubSeq(got, 1, n)
           u == set \o new
<1>1. /\ Len(got) \in Nat /\ Len(got) >= 1 /\ got \in Seq(TipSets) /\ \A i \in 1 .. Len(got) : got[i] \in TipSets
      /\ Len(set) \in Nat /\ Len(set) >= 1 /\ set \in Seq(TipSets)
  BY LinkedEnds
<1>2. CASE n = 0
  <2>1. new = <<>> /\ Len(new) = 0
    <3>1. \A i \in 1 .. 0 : got[i] \in TipSets
      OBVIOUS
    <3>2. new \in Seq(TipSets) /\ Len(new) = 0
      BY <1>2, <3>1, SubSeqProperties
    <3> HIDE DEF new
    <3> QED  BY <3>2, EmptySeq
  <2>2. u = set
    BY <1>1, <2>1, ConcatEmptySeq
  <2> HIDE DEF u, new
  <2>3. Last(u) # Genesis /\ Parent[Last(u)] = got[n + 1]
    BY <1>2, <2>2
  <2>4. Len(u) = Len(set) + n /\ ~ (n > 0) /\ \A i \in 1 .. n : FALSE
    BY <1>1, <1>2, <2>2
  <2>5. Extended(set, got, n, new, u)
    BY <2>1, <2>2, <2>3, <2>4, <1>2, ZenonT(60) DEF Extended
  <2> QED  BY <2>5 DEF u, new
<1>3. CASE n # 0
  <2>1. n \in 1 .. Len(got) /\ n \in Nat
    BY <1>1, <1>3
  <2>2. Linked(new) /\ Len(new) = n /\ new[1] = got[1] /\ Last(new) = got[n]
    BY <2>1, LinkedPrefix
  <2>3. \A i \in 1 .. n : new[i] = got[i]
    <3>1. \A i \in 1 .. n : got[i] \in TipSets
      BY <1>1, <2>1
    <3>2. \A i \in 1 .. n - 1 + 1 : new[i] = got[1 + i - 1]
      BY <2>1, <3>1, SubSeqProperties
    <3> HIDE DEF new
    <3> QED  BY <2>1, <3>2
  <2> HIDE DEF new
  <2>4. /\ Linked(u) /\ u[1] = set[1] /\ Last(u) = got[n] /\ Len(u) = Len(set) + n
        /\ \A i \in 1 .. Len(set) : u[i] = set[i]
        /\ \A i \in 1 .. Len(new) : u[Len(set) + i] = new[i]
    <3>1. new[1] = Parent[Last(set)]
      BY <2>2
    <3>2. Joined(set, new, u)
      BY <2>2, <3>1, LinkedJoin, ZenonT(60)
    <3> HIDE DEF u
    <3> QED  BY <2>2, <3>2, ZenonT(60) DEF Joined
  <2> HIDE DEF u
  <2>5. u[Len(set) + 1] = Parent[Last(set)]
    <3>1. 1 \in 1 .. Len(new)
      BY <2>1, <2>2
    <3> QED  BY <2>2, <2>4, <3>1, ZenonT(60)
  <2>6. ASSUME n < Len(got) PROVE Last(u) # Genesis /\ Parent[Last(u)] = got[n + 1]
    <3>1. n \in 1 .. Len(got) - 1 /\ n + 1 \in 1 .. Len(got) /\ n < n + 1
      BY <1>1, <2>1, <2>6
    <3>2. got[n + 1] = Parent[got[n]]
      BY <3>1 DEF Linked
    <3>3. got[n] # Genesis
      BY <2>1, <3>1, LinkedDown
    <3> QED  BY <2>4, <3>2, <3>3
  <2>7. Extended(set, got, n, new, u)
    BY <2>2, <2>3, <2>4, <2>5, <2>6, ZenonT(60) DEF Extended
  <2> QED  BY <2>7 DEF u, new
<1> QED  BY <1>2, <1>3, ZenonT(60)

-----------------------------------------------------------------------------
(* The loop of syncFork *)

Points(tips) == (1 .. Len(tips) + 1) \X TipSets
Outcomes == [err : {"long", "genesis", "none"}, fork : Seq(TipSets)]

\* one round of the loop, with f for the rest of it
Round(tips, cur, nts, f) ==
    IF cur > Len(tips) THEN [err |-> "long", fork |-> <<>>]
    ELSE IF Height[nts] = 0 THEN [err |-> "genesis", fork |-> <<>>]
    ELSE IF nts = tips[cur] THEN [err |-> "none", fork |-> SubSeq(tips, 1, cur)]
    ELSE IF Height[nts] < Height[tips[cur]] THEN f[<<cur + 1, nts>>]
    ELSE f[<<cur, Parent[nts]>>]

\* A round that is not the last goes on at a later tip or at a lower tipset.
LEMMA RoundDown ==
    ASSUME NEW tips \in Seq(TipSets), NEW cur \in 1 .. Len(tips), NEW nts \in TipSets, Height[nts] # 0
    PROVE  /\ Len(tips) \in Nat /\ cur \in Nat /\ Height[nts] \in Nat
           /\ <<cur + 1, nts>> \in Points(tips) /\ <<cur, Parent[nts]>> \in Points(tips)
           /\ Parent[nts] \in TipSets /\ Height[Parent[nts]] < Height[nts] /\ Height[Parent[nts]] \in Nat
<1>1. Len(tips) \in Nat /\ cur \in Nat /\ Height[nts] \in Nat
  BY LenProperties, ForksAssumption
<1>2. nts # Genesis
  BY GenesisAssumption
<1>3. Parent[nts] \in TipSets /\ Height[Parent[nts]] < Height[nts]
  BY <1>2, ChainOf
<1>4. cur + 1 \in 1 .. Len(tips) + 1 /\ cur \in 1 .. Len(tips) + 1
  BY <1>1
<1>5. Height[Parent[nts]] \in Nat
  BY <1>3, ForksAssumption
<1> QED  BY <1>1, <1>3, <1>4, <1>5 DEF Points

\* A prefix of a sequence of tipsets is one.
LEMMA PrefixOf ==
    ASSUME NEW tips \in Seq(TipSets), NEW n \in 1 .. Len(tips)
    PROVE  SubSeq(tips, 1, n) \in Seq(TipSets)
<1>1. Len(tips) \in Nat /\ \A i \in 1 .. Len(tips) : tips[i] \in TipSets
  BY LenProperties
<1> QED  BY <1>1, SubSeqProperties

\* The loop is the repetition of its rounds.
LEMMA WalkUnfolds ==
    ASSUME NEW tips \in Seq(TipSets)
    PROVE  \A p \in Points(tips) : walk(tips)[p] = Round(tips, p[1], p[2], walk(tips))
<1> DEFINE S == Points(tips)
           F == [S -> Outcomes]
           m == [p \in S |-> (Len(tips) + 1 - p[1]) + Height[p[2]]]
           step == [q \in S \X F |-> Round(tips, q[1][1], q[1][2], q[2])]
           Fits(f) == f = [p \in (1 .. Len(tips) + 1) \X TipSets |-> Round(tips, p[1], p[2], f)]
<1>1. walk(tips) = CHOOSE f : Fits(f)
  BY DEF walk, Round
<1>2. Len(tips) \in Nat
  BY LenProperties
<1>3. ASSUME NEW p \in S
      PROVE  p[1] \in 1 .. Len(tips) + 1 /\ p[2] \in TipSets /\ p = <<p[1], p[2]>>
  BY DEF Points
<1>4. ASSUME NEW e \in {"long", "genesis", "none"}, NEW s \in Seq(TipSets)
      PROVE  [err |-> e, fork |-> s] \in Outcomes
  BY DEF Outcomes
<1>5. ASSUME NEW p \in S, NEW f \in F
      PROVE  Round(tips, p[1], p[2], f) \in Outcomes
  <2>1. p[1] \in 1 .. Len(tips) + 1 /\ p[2] \in TipSets
    BY <1>3
  <2>2. <<>> \in Seq(TipSets)
    BY EmptySeq
  <2>3. CASE p[1] > Len(tips)
    <3>1. Round(tips, p[1], p[2], f) = [err |-> "long", fork |-> <<>>]
      BY <2>3, ZenonT(60) DEF Round
    <3> QED  BY <1>4, <2>2, <3>1, ZenonT(60)
  <2>4. CASE ~ (p[1] > Len(tips)) /\ Height[p[2]] = 0
    <3>1. Round(tips, p[1], p[2], f) = [err |-> "genesis", fork |-> <<>>]
      BY <2>4, ZenonT(60) DEF Round
    <3> QED  BY <1>4, <2>2, <3>1, ZenonT(60)
  <2>5. CASE ~ (p[1] > Len(tips)) /\ Height[p[2]] # 0
    <3>1. p[1] \in 1 .. Len(tips)
      BY <1>2, <2>1, <2>5
    <3>2. SubSeq(tips, 1, p[1]) \in Seq(TipSets)
      BY <3>1, PrefixOf
    <3>3. f[<<p[1] + 1, p[2]>>] \in Outcomes /\ f[<<p[1], Parent[p[2]]>>] \in Outcomes
      BY <2>1, <2>5, <3>1, RoundDown
    <3>4. [err |-> "none", fork |-> SubSeq(tips, 1, p[1])] \in Outcomes
      BY <1>4, <3>2, ZenonT(60)
    <3> QED  BY <2>5, <3>3, <3>4, ZenonT(60) DEF Round
  <2> QED  BY <2>3, <2>4, <2>5
<1>6. ASSUME NEW p \in S, NEW f \in F PROVE step[<<p, f>>] = Round(tips, p[1], p[2], f)
  <2> HIDE DEF S, F
  <2> QED  OBVIOUS
<1>7. step \in [S \X F -> Outcomes]
  <2>1. \A q \in S \X F : Round(tips, q[1][1], q[1][2], q[2]) \in Outcomes
    <3> HIDE DEF S, F
    <3> QED  BY <1>5, ZenonT(60)
  <2> HIDE DEF S, F
  <2> QED  BY <2>1
<1>8. Outcomes # {}
  <2>1. <<>> \in Seq(TipSets)
    BY EmptySeq
  <2> QED  BY <1>4, <2>1, ZenonT(60)
<1>9. m \in [S -> Nat]
  <2>1. \A p \in S : (Len(tips) + 1 - p[1]) + Height[p[2]] \in Nat
    <3> TAKE p \in S
    <3>1. p[1] \in 1 .. Len(tips) + 1 /\ Height[p[2]] \in Nat
      BY <1>3, ForksAssumption
    <3> QED  BY ONLY <1>2, <3>1, SMTT(60)
  <2> HIDE DEF S
  <2> QED  BY <2>1
<1>10. ASSUME NEW p \in S, NEW f \in F, NEW g \in F, \A q \in S : m[q] < m[p] => f[q] = g[q]
       PROVE  step[<<p, f>>] = step[<<p, g>>]
  <2>1. SUFFICES Round(tips, p[1], p[2], f) = Round(tips, p[1], p[2], g)
    BY <1>6
  <2>2. p[1] \in 1 .. Len(tips) + 1 /\ p[2] \in TipSets /\ m[p] = (Len(tips) + 1 - p[1]) + Height[p[2]]
    BY <1>3
  <2>3. CASE p[1] > Len(tips) \/ Height[p[2]] = 0
    BY <2>3, ZenonT(60) DEF Round
  <2>4. CASE ~ (p[1] > Len(tips)) /\ Height[p[2]] # 0
    <3> DEFINE cur == p[1]
               nts == p[2]
               q == <<cur + 1, nts>>
               r == <<cur, Parent[nts]>>
    <3>1. cur \in 1 .. Len(tips)
      BY <1>2, <2>2, <2>4
    <3>2. /\ q \in S /\ r \in S /\ Height[nts] \in Nat /\ cur \in Nat
          /\ Height[Parent[nts]] \in Nat /\ Height[Parent[nts]] < Height[nts]
      BY <2>2, <2>4, <3>1, RoundDown
    <3>3. /\ m[q] = (Len(tips) + 1 - (cur + 1)) + Height[nts]
          /\ m[r] = (Len(tips) + 1 - cur) + Height[Parent[nts]]
      <4> HIDE DEF S
      <4> QED  BY <3>2
    <3>4. m[q] < m[p] /\ m[r] < m[p]
      <4> HIDE DEF m, q, r, cur, nts
      <4>1. m[p] = (Len(tips) + 1 - cur) + Height[nts]
        BY <2>2 DEF cur, nts
      <4> QED  BY ONLY <1>2, <3>1, <3>2, <3>3, <4>1, SMTT(60)
    <3>5. f[q] = g[q] /\ f[r] = g[r]
      <4> HIDE DEF m, q, r, S, F
      <4> QED  BY <1>10, <3>2, <3>4
    <3> QED  BY <2>4, <3>5, ZenonT(60) DEF Round
  <2> QED  BY <2>3, <2>4
<1> HIDE DEF m, step
<1>11. Determines(S, Outcomes, m, step)
  BY <1>7, <1>8, <1>9, <1>10, ZenonT(60) DEF Determines
<1>12. PICK f : Solution(S, Outcomes, step, f)
  BY <1>11, RecursiveFunction, ZenonT(60)
<1>13. f \in F /\ \A p \in S : f[p] = Round(tips, p[1], p[2], f)
  BY <1>6, <1>12, ZenonT(60) DEF Solution
<1>14. Fits(f)
  BY <1>13 DEF Points
<1>15. Fits(walk(tips))
  <2> HIDE DEF Fits
  <2> QED  BY <1>1, <1>14, ZenonT(60)
<1>16. ASSUME NEW p \in S PROVE walk(tips)[p] = Round(tips, p[1], p[2], walk(tips))
  BY <1>15 DEF Points
<1> QED  BY <1>16

\* what the loop finds from tip cur and tipset nts on: a fork that ends on the
\* chain of nts, or that none of the tips is on that chain
Finds(tips, cur, nts, out) ==
    /\ out.err \in {"long", "genesis", "none"}
    /\ out.err = "none" => \E k \in 1 .. Len(tips) : out.fork = SubSeq(tips, 1, k) /\ tips[k] \in Chain[nts]
    /\ out.err = "long" => \A k \in cur .. Len(tips) : tips[k] \notin Chain[nts] /\ tips[k] # Genesis

\* The loop of syncFork finds that, for tips from the top down.
LEMMA WalkFinds ==
    ASSUME NEW tips, Linked(tips)
    PROVE  \A p \in Points(tips) : Finds(tips, p[1], p[2], walk(tips)[p])
<1> DEFINE S == Points(tips)
           Bad == {p \in S : ~ Finds(tips, p[1], p[2], walk(tips)[p])}
           m == [p \in S |-> (Len(tips) + 1 - p[1]) + Height[p[2]]]
           M == {m[p] : p \in Bad}
<1>1. tips \in Seq(TipSets) /\ Len(tips) \in Nat /\ \A i \in 1 .. Len(tips) : tips[i] \in TipSets
  BY LinkedEnds
<1>2. ASSUME NEW p \in S
      PROVE  p[1] \in 1 .. Len(tips) + 1 /\ p[2] \in TipSets /\ Height[p[2]] \in Nat
  BY ForksAssumption DEF Points
<1>3. ASSUME NEW p \in S
      PROVE  m[p] = (Len(tips) + 1 - p[1]) + Height[p[2]] /\ m[p] \in Nat
  <2>1. m[p] = (Len(tips) + 1 - p[1]) + Height[p[2]]
    <3> HIDE DEF S
    <3> QED  OBVIOUS
  <2>2. p[1] \in 1 .. Len(tips) + 1 /\ Height[p[2]] \in Nat
    BY <1>2
  <2> HIDE DEF m
  <2> QED  BY ONLY <1>1, <2>1, <2>2, SMTT(60)
<1>4. SUFFICES ASSUME Bad # {} PROVE FALSE
  <2>1. ASSUME Bad = {}, NEW q \in S PROVE Finds(tips, q[1], q[2], walk(tips)[q])
    <3>1. q \notin Bad
      BY <2>1, ZenonT(60)
    <3> QED  BY <3>1, ZenonT(60)
  <2> HIDE DEF Bad
  <2> QED  BY <2>1, ZenonT(60)
<1> HIDE DEF m
<1>5. Bad \subseteq S
  OBVIOUS
<1>6. M \in SUBSET Nat /\ M # {}
  <2> HIDE DEF Bad, S
  <2> QED  BY <1>3, <1>4, <1>5
<1>7. PICK n \in M : \A k \in M : n <= k
  <2> HIDE DEF M
  <2> QED  BY <1>6, LeastElement
<1>8. PICK p \in Bad : m[p] = n
  <2> HIDE DEF Bad
  <2> QED  BY <1>7
<1>9. p \in S /\ ~ Finds(tips, p[1], p[2], walk(tips)[p])
  <2> HIDE DEF S
  <2> QED  BY <1>8
<1>10. ASSUME NEW q \in S, m[q] < m[p] PROVE Finds(tips, q[1], q[2], walk(tips)[q])
  <2>1. q \in Bad => m[q] \in M
    <3> HIDE DEF Bad
    <3> QED  OBVIOUS
  <2>2. m[q] \in Nat /\ n \in Nat
    BY <1>3, <1>6, <1>7
  <2>3. q \notin Bad
    <3> HIDE DEF Bad, M, S
    <3> QED  BY ONLY <1>7, <1>8, <1>10, <2>1, <2>2, SMTT(60)
  <2> HIDE DEF S
  <2> QED  BY <2>3
<1> DEFINE cur == p[1]
           nts == p[2]
           out == walk(tips)[p]
<1>11. cur \in 1 .. Len(tips) + 1 /\ nts \in TipSets /\ Height[nts] \in Nat
  BY <1>2, <1>9
<1>12. out = Round(tips, cur, nts, walk(tips))
  BY <1>1, <1>9, WalkUnfolds
<1>13. ~ Finds(tips, cur, nts, out) /\ m[p] = (Len(tips) + 1 - cur) + Height[nts]
  BY <1>3, <1>9
<1> HIDE DEF Bad, M, S, cur, nts, out
<1>14. CASE cur > Len(tips)
  <2>1. out = [err |-> "long", fork |-> <<>>]
    BY <1>12, <1>14, ZenonT(60) DEF Round
  <2>2. cur .. Len(tips) = {}
    BY <1>1, <1>11, <1>14
  <2>3. out.err = "long"
    BY <2>1
  <2> QED  BY <1>13, <2>2, <2>3 DEF Finds
<1>15. CASE ~ (cur > Len(tips)) /\ Height[nts] = 0
  <2>1. out = [err |-> "genesis", fork |-> <<>>]
    BY <1>12, <1>15, ZenonT(60) DEF Round
  <2>2. out.err = "genesis"
    BY <2>1
  <2> QED  BY <1>13, <2>2 DEF Finds
<1>16. CASE ~ (cur > Len(tips)) /\ Height[nts] # 0
  <2>1. cur \in 1 .. Len(tips) /\ tips[cur] \in TipSets
    BY <1>1, <1>11, <1>16
  <2>2. /\ <<cur + 1, nts>> \in S /\ <<cur, Parent[nts]>> \in S /\ cur \in Nat
        /\ Parent[nts] \in TipSets /\ Height[Parent[nts]] < Height[nts] /\ Height[Parent[nts]] \in Nat
    BY <1>1, <1>11, <1>16, <2>1, RoundDown DEF S
  <2>3. nts # Genesis /\ Chain[nts] = {nts} \cup Chain[Parent[nts]] /\ nts \in Chain[nts]
    BY <1>11, <1>16, ChainOf, GenesisAssumption
  <2>4. Height[tips[cur]] \in Nat
    BY <2>1, ForksAssumption
  <2>5. CASE nts = tips[cur]
    <3> DEFINE fork == SubSeq(tips, 1, cur)
    <3>1. out = [err |-> "none", fork |-> fork]
      BY <1>12, <1>16, <2>5, ZenonT(60) DEF Round
    <3> HIDE DEF fork
    <3>2. out.err = "none" /\ out.fork = fork
      BY ONLY <3>1, SMTT(60)
    <3>3. tips[cur] \in Chain[nts]
      BY <2>3, <2>5
    <3> QED  BY <1>13, <2>1, <3>2, <3>3 DEF Finds, fork
  <2>6. CASE nts # tips[cur] /\ Height[nts] < Height[tips[cur]]
    <3> DEFINE q == <<cur + 1, nts>>
    <3>1. out = walk(tips)[q]
      BY <1>12, <1>16, <2>6, ZenonT(60) DEF Round
    <3>2. m[q] = (Len(tips) + 1 - (cur + 1)) + Height[nts]
      <4>1. q \in S /\ q[1] = cur + 1 /\ q[2] = nts
        BY <2>2
      <4> HIDE DEF q
      <4> QED  BY <1>3, <4>1, ZenonT(60)
    <3> HIDE DEF q
    <3>3. m[q] < m[p]
      BY ONLY <1>1, <1>11, <1>13, <2>2, <3>2, SMTT(60)
    <3>4. Finds(tips, cur + 1, nts, out)
      BY <1>10, <2>2, <3>1, <3>3 DEF q
    <3>5. tips[cur] \notin Chain[nts]
      <4>1. tips[cur] \in Chain[nts] => Height[tips[cur]] < Height[nts]
        BY <1>11, <2>6, ChainOf
      <4> QED  BY ONLY <1>11, <2>4, <2>6, <4>1, SMTT(60)
    <3>6. tips[cur] # Genesis
      BY <1>11, <2>6, GenesisAssumption
    <3>7. \A k \in cur .. Len(tips) : k = cur \/ k \in cur + 1 .. Len(tips)
      BY <1>1, <2>2
    <3> QED  BY <1>13, <3>4, <3>5, <3>6, <3>7 DEF Finds
  <2>7. CASE nts # tips[cur] /\ ~ (Height[nts] < Height[tips[cur]])
    <3> DEFINE q == <<cur, Parent[nts]>>
    <3>1. out = walk(tips)[q]
      BY <1>12, <1>16, <2>7, ZenonT(60) DEF Round
    <3>2. m[q] = (Len(tips) + 1 - cur) + Height[Parent[nts]]
      <4>1. q \in S /\ q[1] = cur /\ q[2] = Parent[nts]
        BY <2>2
      <4> HIDE DEF q
      <4> QED  BY <1>3, <4>1, ZenonT(60)
    <3> HIDE DEF q
    <3>3. m[q] < m[p]
      BY ONLY <1>1, <1>11, <1>13, <2>2, <3>2, SMTT(60)
    <3>4. Finds(tips, cur, Parent[nts], out)
      BY <1>10, <2>2, <3>1, <3>3 DEF q
    <3>5. ASSUME NEW k \in cur .. Len(tips) PROVE tips[k] # nts
      <4>1. CASE k = cur
        BY <2>7, <4>1
      <4>2. CASE k # cur
        <5>1. k \in 1 .. Len(tips) /\ cur < k
          BY <1>1, <2>1, <2>2, <4>2
        <5>2. Height[tips[k]] < Height[tips[cur]] /\ Height[tips[k]] \in Nat
          BY <1>1, <2>1, <5>1, LinkedDown, ForksAssumption
        <5> QED  BY ONLY <1>11, <2>4, <2>7, <5>2, SMTT(60)
      <4> QED  BY <4>1, <4>2
    <3> QED  BY <1>13, <2>3, <3>4, <3>5 DEF Finds
  <2> QED  BY <2>5, <2>6, <2>7
<1> QED  BY <1>14, <1>15, <1>16

\* A linked sequence has no more tipsets than a set that has all of them.
LEMMA LinkedWithin ==
    ASSUME NEW s, Linked(s), NEW T, IsFiniteSet(T), \A i \in 1 .. Len(s) : s[i] \in T
    PROVE  Len(s) <= Cardinality(T)
<1>1. s \in Seq(TipSets) /\ Len(s) \in Nat /\ DOMAIN s = 1 .. Len(s) /\ \A i \in 1 .. Len(s) : s[i] \in TipSets
  BY LinkedEnds
<1>2. s \in [1 .. Len(s) -> T]
  BY <1>1
<1>3. ASSUME NEW i \in 1 .. Len(s), NEW j \in 1 .. Len(s), s[i] = s[j] PROVE i = j
  <2>1. ASSUME NEW k \in 1 .. Len(s), NEW l \in 1 .. Len(s), k < l PROVE s[k] # s[l]
    <3>1. Height[s[l]] < Height[s[k]] /\ Height[s[k]] \in Nat
      BY <1>1, <2>1, LinkedDown, ForksAssumption
    <3> QED  BY <3>1
  <2>2. i \in Nat /\ j \in Nat /\ ~ (i < j) /\ ~ (j < i)
    BY <1>1, <1>3, <2>1
  <2> QED  BY ONLY <2>2, SMTT(60)
<1>4. s \in Injection(1 .. Len(s), T)
  BY <1>1, <1>2, <1>3 DEF Injection, IsInjective
<1>5. Cardinality(1 .. Len(s)) <= Cardinality(T)
  BY <1>4, FS_Injection, ZenonT(60)
<1>6. Cardinality(1 .. Len(s)) = Len(s)
  <2>1. 1 \in Int /\ Len(s) \in Int
    BY <1>1
  <2>2. Cardinality(1 .. Len(s)) = IF 1 > Len(s) THEN 0 ELSE Len(s) - 1 + 1
    BY <2>1, FS_Interval, ZenonT(60)
  <2> QED  BY ONLY <1>1, <2>2, SMTT(60)
<1> QED  BY <1>5, <1>6

\* What syncFork makes of the tips below base: a fragment from the parent of base down
\* to the chain of known, or "long" if the chains part below all of the tips.
LEMMA ForkLinks ==
    ASSUME NEW base \in TipSets, NEW known \in TipSets, base # Genesis,
           NEW tips, Linked(tips), tips[1] = Parent[base]
    PROVE  LET link == syncFork(tips, known) IN
           /\ link.err \in {"load", "long", "genesis", "none"}
           /\ link.err = "none" =>
                  Linked(link.fork) /\ link.fork[1] = Parent[base] /\ Last(link.fork) \in Chain[known]
           /\ link.err = "long" =>
                  /\ known # Genesis
                  /\ \A ts \in Chain[Parent[known]] : Cardinality(Chain[base] \ Chain[ts]) > Len(tips)
<1> DEFINE link == syncFork(tips, known)
           top == Parent[known]
<1>1. CASE known = Genesis
  <2>1. link = [err |-> "load", fork |-> <<>>]
    BY <1>1 DEF syncFork
  <2>2. link.err = "load"
    BY <2>1
  <2> HIDE DEF link
  <2> QED  BY <2>2 DEF link
<1>2. CASE known # Genesis
  <2>1. /\ Parent[base] \in TipSets /\ Chain[base] = {base} \cup Chain[Parent[base]]
        /\ top \in TipSets /\ Chain[known] = {known} \cup Chain[top]
    BY <1>2, ChainOf
  <2>2. Linked(tips) /\ tips[1] = Parent[base]
    OBVIOUS
  <2>3. link = walk(tips)[<<1, top>>]
    BY <1>2 DEF syncFork
  <2> HIDE DEF top, link
  <2>4. tips \in Seq(TipSets) /\ Len(tips) \in Nat /\ Len(tips) >= 1 /\ \A i \in 1 .. Len(tips) : tips[i] \in TipSets
    BY <2>2, LinkedEnds
  <2>5. <<1, top>> \in Points(tips)
    BY <2>1, <2>4 DEF Points
  <2>6. Finds(tips, 1, top, link)
    <3>1. Finds(tips, <<1, top>>[1], <<1, top>>[2], walk(tips)[<<1, top>>])
      BY <2>2, <2>5, WalkFinds, ZenonT(60)
    <3> QED  BY <2>3, <3>1
  <2>7. ASSUME link.err = "none"
        PROVE  Linked(link.fork) /\ link.fork[1] = Parent[base] /\ Last(link.fork) \in Chain[known]
    <3>1. PICK k \in 1 .. Len(tips) : link.fork = SubSeq(tips, 1, k) /\ tips[k] \in Chain[top]
      BY <2>6, <2>7, ZenonT(60) DEF Finds
    <3>2. Linked(SubSeq(tips, 1, k)) /\ SubSeq(tips, 1, k)[1] = tips[1] /\ Last(SubSeq(tips, 1, k)) = tips[k]
      BY <2>2, LinkedPrefix
    <3> QED  BY <2>1, <2>2, <3>1, <3>2
  <2>8. ASSUME link.err = "long", NEW ts \in Chain[top]
        PROVE  Cardinality(Chain[base] \ Chain[ts]) > Len(tips)
    <3> DEFINE s == <<base>> \o tips
               T == Chain[base] \ Chain[ts]
    <3>1. \A k \in 1 .. Len(tips) : tips[k] \notin Chain[top] /\ tips[k] # Genesis
      BY <2>6, <2>8 DEF Finds
    <3>3. Chain[ts] \subseteq Chain[top]
      BY <2>1, <2>8, ChainOf
    <3>4. base \notin Chain[top]
      <4>1. base \in Chain[top] => Chain[base] \subseteq Chain[top]
        BY <2>1, ChainOf
      <4>2. Parent[base] \in Chain[base]
        BY <2>1, ChainOf
      <4> QED  BY <2>2, <2>4, <3>1, <4>1, <4>2
    <3>5. \A k \in 1 .. Len(tips) : tips[k] \in Chain[base]
      <4> TAKE k \in 1 .. Len(tips)
      <4>1. CASE k = 1
        BY <2>1, <2>2, <4>1, ChainOf
      <4>2. CASE k # 1
        <5>1. 1 \in 1 .. Len(tips) /\ 1 < k
          BY <2>4, <4>2
        <5>2. tips[1] # Genesis /\ tips[k] \in Chain[Parent[tips[1]]]
          BY <2>2, <5>1, LinkedDown
        <5>3. Chain[Parent[base]] = {Parent[base]} \cup Chain[Parent[Parent[base]]]
          BY <2>1, <2>2, <5>2, ChainOf
        <5> QED  BY <2>1, <2>2, <5>2, <5>3
      <4> QED  BY <4>1, <4>2
    <3>6. Linked(s) /\ Len(s) = Len(tips) + 1 /\ \A i \in 1 .. Len(s) : s[i] = base \/ \E k \in 1 .. Len(tips) : s[i] = tips[k]
      <4>1. Linked(<<base>>) /\ Last(<<base>>) = base
        BY LinkedOne
      <4>2. Linked(s)
        BY <2>2, <4>1, LinkedJoin DEF Joined
      <4>3. <<base>> \in Seq(TipSets) /\ Len(<<base>>) = 1 /\ <<base>>[1] = base
        OBVIOUS
      <4>4. Len(s) = Len(tips) + 1 /\ \A i \in 1 .. 1 + Len(tips) : s[i] = IF i <= 1 THEN base ELSE tips[i - 1]
        <5>1. /\ Len(s) = Len(<<base>>) + Len(tips)
              /\ \A i \in 1 .. Len(<<base>>) + Len(tips) : s[i] = IF i <= Len(<<base>>) THEN <<base>>[i] ELSE tips[i - Len(<<base>>)]
          BY <2>4, <4>3, ConcatProperties, ZenonT(60)
        <5> HIDE DEF s
        <5> QED  BY <2>4, <4>3, <5>1
      <4> HIDE DEF s
      <4> QED  BY <2>4, <4>2, <4>4
    <3>7. \A i \in 1 .. Len(s) : s[i] \in T
      <4>1. base \in Chain[base]
        BY ChainOf
      <4> HIDE DEF s
      <4> QED  BY <3>1, <3>3, <3>4, <3>5, <3>6, <4>1
    <3>8. IsFiniteSet(T) /\ Cardinality(T) \in Nat
      <4>1. IsFiniteSet(Chain[base])
        BY ChainFinite
      <4>2. IsFiniteSet(T)
        BY <4>1, FS_Difference, ZenonT(60)
      <4> QED  BY <4>2, FS_CardinalityType
    <3> HIDE DEF s, T
    <3>9. Len(s) <= Cardinality(T)
      BY <3>6, <3>7, <3>8, LinkedWithin
    <3>10. Cardinality(T) > Len(tips)
      BY <2>4, <3>6, <3>8, <3>9
    <3> QED  BY <3>10 DEF T
  <2>9. link.err \in {"load", "long", "genesis", "none"}
    BY <2>6 DEF Finds
  <2> QED  BY <1>2, <2>7, <2>8, <2>9 DEF link, top
<1> QED  BY <1>1, <1>2, ZenonT(60)

-----------------------------------------------------------------------------
(* The invariant *)

Fields == {"pc", "ts", "known", "set", "accepted", "i", "have", "res"}

\* While headers are collected: they go from the target down, and known is settled.
Collected(s, V) ==
    /\ Linked(s.set) /\ s.ts # Genesis
    /\ s.set[1] = s.ts
    /\ s.known \in TipSets /\ Cids(s.known) \subseteq V

\* Only blocks of the headers collected so far were accepted.
Accepted(s) == \A b \in s.accepted : \E j \in 1 .. Len(s.set) : b \in Cids(s.set[j])

\* While tipsets are validated: their headers are stored, those below the next
\* one are settled, and so is the one below them all.
Fetched(s, V, H) ==
    /\ Linked(s.set) /\ s.i \in 0 .. Len(s.set) /\ s.have \in Int
    /\ s.set[1] = s.ts
    /\ \A j \in 1 .. Len(s.set) : Cids(s.set[j]) \subseteq H
    /\ \A j \in 1 .. Len(s.set) : j > s.i => Cids(s.set[j]) \subseteq V
    /\ Last(s.set) # Genesis => Cids(Parent[Last(s.set)]) \subseteq V

\* The chains of base and known part below n tipsets of the first.
Apart(base, known, n) ==
    \A ts \in Chain[base] \cap Chain[known] : Cardinality(Chain[base] \ Chain[ts]) > n

\* blocks found valid whose messages are stored, or that came into the head without them
settled == validated \cap (messages \cup loose)

\* A caller of Sync, with the settled blocks V, the validated ones W, the stored
\* headers H and the head hd.
CallerOK(s, V, W, H, hd) ==
    /\ DOMAIN s = Fields
    /\ s.pc \notin {"idle", "ended"} => s.ts \in TipSets /\ s.res = "none"
    /\ s.pc = "idle" => s.res = "none"
    /\ s.pc = "collect" => s.ts # Genesis /\ s.accepted = {}
    /\ s.pc \in {"headers", "base"} => Collected(s, V)
    /\ s.pc = "headers" => Accepted(s)
    /\ s.pc = "base" => Last(s.set) # Genesis /\ Height[Parent[Last(s.set)]] <= Height[s.known]
    /\ s.pc \in {"messages", "persist"} => Fetched(s, V, H)
    /\ s.pc = "persist" => s.i > 0 /\ Cids(s.set[s.i]) \subseteq W
    /\ s.res = "ok" => s.ts \in TipSets /\ Weight[hd] >= Weight[s.ts]
    /\ s.res = "long" => Apart(Last(s.set), s.known, s.have)

CallersOK ==
    /\ sync = [c \in Callers |-> sync[c]]
    /\ \A c \in Callers : CallerOK(sync[c], settled, validated, headers, head)

StoreOK ==
    /\ head \in TipSets /\ Cids(head) \subseteq settled /\ Cids(Genesis) \subseteq settled
    /\ tracker = validated /\ validated \subseteq headers /\ validated \cap Invalid = {}
    /\ targets \subseteq TipSets
    /\ ChainValidated

\* Genesis is not bad, and what is bad has a reason.
BadOK ==
    /\ bad \cap Cids(Genesis) = {}
    /\ \A ts \in TipSets : \A b \in bad \cap Cids(ts) :
        b \in Invalid \cup blamed \/ above(Parent[ts], Invalid \cup blamed \cup loose)

Inv == StoreOK /\ CallersOK /\ BadOK

\* What blocks, genesis and heights are.
LEMMA BlocksOf ==
    ASSUME NEW ts \in TipSets
    PROVE  /\ Cids(ts) # {} /\ Blocks[ts][1] \in Cids(ts)
           /\ Cids(ts) \subseteq UNION {Cids(t) : t \in TipSets}
           /\ Height[ts] \in Nat /\ (Height[ts] # 0 => ts # Genesis)
           /\ \A t \in TipSets : Cids(t) \cap Cids(ts) # {} => Parent[t] = Parent[ts] /\ Height[t] = Height[ts]
<1>1. Blocks[ts] \in Seq(Cids(ts)) /\ Blocks[ts] # <<>>
  BY BlocksAssumption
<1>2. 1 \in DOMAIN Blocks[ts]
  BY <1>1, EmptySeq, LenProperties
<1>3. Blocks[ts][1] \in Cids(ts)
  BY <1>2 DEF Cids, Range
<1>4. Height[ts] \in Nat /\ (Height[ts] # 0 => ts # Genesis)
  BY ForksAssumption, GenesisAssumption
<1>5. \A t \in TipSets : Cids(t) \cap Cids(ts) # {} => Parent[t] = Parent[ts] /\ Height[t] = Height[ts]
  BY BlocksAssumption, ZenonT(60)
<1>6. Cids(ts) \subseteq UNION {Cids(t) : t \in TipSets}
  BY ZenonT(60)
<1> QED  BY <1>3, <1>4, <1>5, <1>6

\* A step of another caller does not disturb one.
LEMMA CallerKeeps ==
    ASSUME NEW s, NEW V, NEW W, NEW H, NEW hd \in TipSets, CallerOK(s, V, W, H, hd),
           NEW V2, NEW W2, NEW H2, NEW hd2 \in TipSets,
           V \subseteq V2, W \subseteq W2, H \subseteq H2, Weight[hd] <= Weight[hd2]
    PROVE  CallerOK(s, V2, W2, H2, hd2)
<1>1. s.pc \in {"headers", "base"} => Collected(s, V2)
  BY DEF CallerOK, Collected
<1>2. s.pc \in {"messages", "persist"} => Fetched(s, V2, H2)
  BY DEF CallerOK, Fetched
<1>3. s.res = "ok" => s.ts \in TipSets /\ Weight[hd2] >= Weight[s.ts]
  <2>1. s.res = "ok" => s.ts \in TipSets /\ Weight[hd] >= Weight[s.ts]
    BY ZenonT(60) DEF CallerOK
  <2>2. Weight[hd] \in Nat /\ Weight[hd2] \in Nat /\ (s.ts \in TipSets => Weight[s.ts] \in Nat)
    BY WeightAssumption
  <2> QED  BY <2>1, <2>2
<1>4. s.pc = "persist" => s.i > 0 /\ Cids(s.set[s.i]) \subseteq W2
  BY DEF CallerOK
<1> QED  BY <1>1, <1>2, <1>3, <1>4, ZenonT(60) DEF CallerOK

\* A step of caller c to state s.
LEMMA OneCaller ==
    ASSUME CallersOK, NEW c \in Callers, NEW s, sync' = [sync EXCEPT ![c] = s],
           CallerOK(s, settled', validated', headers', head'), head \in TipSets, head' \in TipSets,
           settled \subseteq settled', validated \subseteq validated', headers \subseteq headers',
           Weight[head] <= Weight[head']
    PROVE  CallersOK'
<1>1. sync = [d \in Callers |-> sync[d]] /\ \A d \in Callers : CallerOK(sync[d], settled, validated, headers, head)
  BY ZenonT(60) DEF CallersOK
<1>2. sync' = [d \in Callers |-> sync'[d]] /\ \A d \in Callers : sync'[d] = IF d = c THEN s ELSE sync[d]
  BY <1>1
<1>3. \A d \in Callers : CallerOK(sync[d], settled', validated', headers', head')
  BY <1>1, CallerKeeps, ZenonT(60)
<1>4. \A d \in Callers : CallerOK(sync'[d], settled', validated', headers', head')
  BY <1>2, <1>3, ZenonT(60)
<1> QED  BY <1>2, <1>4, ZenonT(60) DEF CallersOK

\* A step of no caller.
LEMMA NoCaller ==
    ASSUME CallersOK, sync' = sync, head \in TipSets, UNCHANGED <<head, validated>>, headers \subseteq headers',
           settled \subseteq settled'
    PROVE  CallersOK'
<1>1. head' \in TipSets /\ validated \subseteq validated' /\ Weight[head] <= Weight[head']
  BY WeightAssumption
<1>2. sync = [d \in Callers |-> sync[d]] /\ \A d \in Callers : CallerOK(sync[d], settled, validated, headers, head)
  BY ZenonT(60) DEF CallersOK
<1>3. \A d \in Callers : CallerOK(sync[d], settled', validated', headers', head')
  BY <1>1, <1>2, CallerKeeps, ZenonT(60)
<1> QED  BY <1>2, <1>3, ZenonT(60) DEF CallersOK

\* A call that ends, other than for too long a fork.
LEMMA EndedOK ==
    ASSUME NEW s, DOMAIN s = Fields, NEW res, NEW V, NEW W, NEW H, NEW hd, res # "long",
           res = "ok" => s.ts \in TipSets /\ Weight[hd] >= Weight[s.ts]
    PROVE  CallerOK(ended(s, res), V, W, H, hd)
<1> DEFINE e == ended(s, res)
<1>1. DOMAIN e = Fields /\ e.pc = "ended" /\ e.res = res /\ e.ts = s.ts
  BY DEF ended, Fields
<1> HIDE DEF e
<1>2. CallerOK(e, V, W, H, hd)
  BY <1>1 DEF CallerOK
<1> QED  BY <1>2 DEF e

\* A call that syncFork ends, after n tips.
LEMMA ForkedOK ==
    ASSUME NEW s, DOMAIN s = Fields, NEW res, NEW n, NEW V, NEW W, NEW H, NEW hd, res # "ok",
           res = "long" => Apart(Last(s.set), s.known, n)
    PROVE  CallerOK([ended(s, res) EXCEPT !.have = n], V, W, H, hd)
<1> DEFINE e == [ended(s, res) EXCEPT !.have = n]
<1>1. /\ DOMAIN e = Fields /\ e.pc = "ended" /\ e.res = res
      /\ e.set = s.set /\ e.known = s.known /\ e.have = n
  BY DEF ended, Fields
<1> HIDE DEF e
<1>2. CallerOK(e, V, W, H, hd)
  BY <1>1 DEF CallerOK
<1> QED  BY <1>2 DEF e

\* A call that ends with an error.
LEMMA FailedOK ==
    ASSUME NEW s, DOMAIN s = Fields, NEW V, NEW W, NEW H, NEW hd, NEW res \in {"bad", "beacon", "net", "invalid", "store"}
    PROVE  CallerOK(ended(s, res), V, W, H, hd)
BY EndedOK

\* A call that goes on, by where it is.
LEMMA GoesOn ==
    ASSUME NEW s, DOMAIN s = Fields, s.ts \in TipSets, s.res = "none", NEW V, NEW W, NEW H, NEW hd,
           \/ s.pc = "headers" /\ Collected(s, V) /\ Accepted(s)
           \/ /\ s.pc = "base" /\ Collected(s, V)
              /\ Last(s.set) # Genesis /\ Height[Parent[Last(s.set)]] <= Height[s.known]
           \/ s.pc = "messages" /\ Fetched(s, V, H)
           \/ s.pc = "persist" /\ Fetched(s, V, H) /\ s.i > 0 /\ Cids(s.set[s.i]) \subseteq W
    PROVE  CallerOK(s, V, W, H, hd)
BY DEF CallerOK

\* A call of Sync begins in a state as it should be.
LEMMA BegunOK ==
    ASSUME NEW ts \in TipSets, NEW V, NEW W, NEW H, NEW hd
    PROVE  CallerOK(begun(ts), V, W, H, hd)
<1> DEFINE s == begun(ts)
<1>1. DOMAIN Idle = Fields /\ Idle.res = "none" /\ Idle.accepted = {}
  BY DEF Idle, Fields
<1>2. /\ DOMAIN s = Fields /\ s.ts = ts
      /\ \/ s.pc = "ended" /\ s.res = "ignored"
         \/ s.pc = "collect" /\ s.res = "none" /\ ts # Genesis /\ s.accepted = {}
  BY <1>1 DEF begun, Fields
<1> HIDE DEF s
<1>3. CallerOK(s, V, W, H, hd)
  BY <1>2 DEF CallerOK
<1> QED  BY <1>3 DEF s

\* Steps that validate nothing and leave the head alone.
LEMMA SameStore ==
    ASSUME StoreOK, UNCHANGED <<head, validated, tracker>>, headers \subseteq headers', messages \subseteq messages',
           loose \subseteq loose', targets' \subseteq TipSets
    PROVE  StoreOK' /\ settled \subseteq settled'
BY DEF StoreOK, ChainValidated, settled

\* block b has a reason, now or after the step, to be bad
HasReason(b) ==
    \E u \in TipSets : /\ u # Genesis /\ b \in Cids(u)
                       /\ b \in Invalid \cup blamed \/ above(Parent[u], Invalid \cup blamed \cup loose)

\* Two reasons: the block itself, and one below it.
LEMMA Reason ==
    ASSUME NEW u \in TipSets, u # Genesis, NEW b \in Cids(u),
           b \in Invalid \cup blamed' \/ above(Parent[u], Invalid \cup blamed' \cup loose')
    PROVE  HasReason(b)'
BY ZenonT(60) DEF HasReason, above

\* Blocks that have a reason join the bad ones.
LEMMA BadGrows ==
    ASSUME BadOK, blamed \subseteq blamed', loose \subseteq loose', NEW N, bad' = bad \cup N,
           \A b \in N : HasReason(b)'
    PROVE  BadOK'
<1> DEFINE R == Invalid \cup blamed \cup loose
           Q == Invalid \cup blamed' \cup loose'
<1>1. ASSUME NEW t, above(t, R) PROVE above(t, Q)
  <2>1. R \subseteq Q
    OBVIOUS
  <2> HIDE DEF R, Q
  <2> QED  BY <1>1, <2>1 DEF above
<1>2. ASSUME NEW u \in TipSets, NEW t \in TipSets, NEW b \in Cids(u), b \in Cids(t) PROVE Parent[u] = Parent[t]
  <2>1. Cids(u) \cap Cids(t) # {}
    BY <1>2
  <2> QED  BY <2>1, BlocksOf
<1>3. bad' \cap Cids(Genesis) = {}
  <2>1. SUFFICES ASSUME NEW b \in N, b \in Cids(Genesis) PROVE FALSE
    BY DEF BadOK
  <2>2. PICK u \in TipSets : u # Genesis /\ b \in Cids(u)
    BY ZenonT(60) DEF HasReason
  <2>3. Parent[u] = Parent[Genesis]
    BY <1>2, <2>1, <2>2, GenesisAssumption
  <2> QED  BY <2>2, <2>3, GenesisAssumption
<1>4. ASSUME NEW ts \in TipSets, NEW b \in bad', b \in Cids(ts)
      PROVE  b \in Invalid \cup blamed' \/ above(Parent[ts], Q)
  <2>1. CASE b \in bad
    <3>0. b \in bad \cap Cids(ts)
      BY <1>4, <2>1
    <3>1. b \in Invalid \cup blamed \/ above(Parent[ts], R)
      BY <3>0, ZenonT(60) DEF BadOK
    <3> HIDE DEF R, Q
    <3> QED  BY <1>1, <3>1
  <2>2. CASE b \in N
    <3>1. PICK u \in TipSets : /\ u # Genesis /\ b \in Cids(u)
                               /\ b \in Invalid \cup blamed' \/ above(Parent[u], Q)
      BY <2>2, ZenonT(60) DEF HasReason, above
    <3>2. Parent[u] = Parent[ts]
      BY <1>2, <1>4, <3>1
    <3> HIDE DEF R, Q
    <3> QED  BY <3>1, <3>2
  <2> QED  BY <1>4, <2>1, <2>2
<1> QED  BY <1>3, <1>4 DEF BadOK, above

\* No block joins them.
LEMMA BadSame ==
    ASSUME BadOK, UNCHANGED bad, blamed \subseteq blamed', loose \subseteq loose'
    PROVE  BadOK'
<1>1. PICK N : N = {}
  BY ZenonT(60)
<1>2. bad' = bad \cup N /\ \A b \in N : HasReason(b)'
  BY <1>1
<1> QED  BY <1>2, BadGrows

\* A tipset above one with a bad block is above the reason.
LEMMA BadBelow ==
    ASSUME BadOK, NEW u \in TipSets, NEW t \in Chain[u], hasBad(t)
    PROVE  above(u, Invalid \cup blamed \cup loose)
<1> DEFINE R == Invalid \cup blamed \cup loose
<1>1. t \in TipSets /\ Chain[t] \subseteq Chain[u] /\ t \in Chain[t]
  BY ChainOf
<1>2. PICK b \in Cids(t) : b \in bad
  BY DEF hasBad
<1>3. t # Genesis
  BY <1>2 DEF BadOK
<1>4. Chain[t] = {t} \cup Chain[Parent[t]]
  BY <1>1, <1>3, ChainOf
<1>5. b \in Invalid \cup blamed \/ above(Parent[t], R)
  BY <1>1, <1>2 DEF BadOK
<1>6. CASE b \in Invalid \cup blamed
  BY <1>1, <1>2, <1>6 DEF above
<1>7. CASE above(Parent[t], R)
  <2> HIDE DEF R
  <2>1. above(u, R)
    BY <1>1, <1>4, <1>7 DEF above
  <2> QED  BY <2>1 DEF R
<1> QED  BY <1>5, <1>6, <1>7
=============================================================================
