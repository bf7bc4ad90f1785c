--------------------------- MODULE ChainStoreProofs ---------------------------
(***************************************************************************)
(* Proofs about ChainStore: for any blocks, any number of goroutines and   *)
(* any capacity of reorgCh, goroutines that race for the head never        *)
(* replace it by a lighter tipset and never lose a heavier one, the worker *)
(* hands out the way from the old head to the new one, and a follower of   *)
(* the head is told every change, as HeadFeed promises.                    *)
(***************************************************************************)
EXTENDS ChainStore, SetLemmas, SequenceTheorems, TLAPS

\* the time limit of the SMT solver covers the preparation of the next obligations
USE SMTT(60)

-----------------------------------------------------------------------------
(* What Chain and ReorgOps compute, for every tree of tipsets: the lists of ReorgOps *)
(* lead from one head to the other. *)

\* Above the genesis, the parents of a tipset are a tipset of an earlier epoch.
LEMMA ParentsLower ==
    ASSUME NEW ts \in TipSets
    PROVE  /\ HeightOf(ts) \in Nat
           /\ Parents(ts) = {} <=> ts = {Genesis}
           /\ Parents(ts) # {} => Parents(ts) \in TipSets /\ HeightOf(Parents(ts)) < HeightOf(ts)
           /\ ts = {Genesis} => HeightOf(ts) = 0
<1> DEFINE c == CHOOSE b \in ts : TRUE
<1>1. ts \subseteq Blocks /\ ts # {} /\ \A b, d \in ts : BlockParents[b] = BlockParents[d]
  BY DEF TipSets, IsTipSet
<1>2. c \in ts
  BY <1>1
<1>3. Parents(ts) = BlockParents[c] /\ HeightOf(ts) = Height[c]
  BY DEF Parents, HeightOf
<1>4. {} \notin TipSets
  BY DEF TipSets, IsTipSet
<1> HIDE DEF c
<1>5. HeightOf(ts) \in Nat
  BY <1>1, <1>2, <1>3, BlocksAssumption
<1>6. ASSUME c = Genesis PROVE ts = {Genesis}
  <2>1. \A b \in ts : BlockParents[b] = {}
    BY <1>1, <1>2, <1>6, TreeAssumption
  <2>2. \A b \in ts : b = Genesis
    BY <1>1, <1>4, <2>1, TreeAssumption
  <2> QED  BY <1>2, <2>2
<1>7. ASSUME c # Genesis
      PROVE  BlockParents[c] \in TipSets /\ HeightOf(BlockParents[c]) < Height[c]
  BY <1>1, <1>2, <1>7, TreeAssumption
<1> QED  BY <1>2, <1>3, <1>4, <1>5, <1>6, <1>7, TreeAssumption

\* The ancestors of a tipset are those of its parents and the tipset itself.
LEMMA ChainUnfolds ==
    Chain = [ts \in TipSets |-> {ts} \cup (IF Parents(ts) = {} THEN {} ELSE Chain[Parents(ts)])]
<1> DEFINE P == [ts \in TipSets |-> Parents(ts)]
           h == [ts \in TipSets |-> HeightOf(ts)]
           Fits(C) == C = [ts \in TipSets |-> {ts} \cup (IF Parents(ts) = {} THEN {} ELSE C[Parents(ts)])]
<1>1. Tree(TipSets, {}, P, h)
  BY ParentsLower DEF Tree
<1>2. \E C : Ancestry(TipSets, {}, P, C)
  <2> HIDE DEF P, h
  <2> QED  BY <1>1, LineageExists, ZenonT(60)
<1>3. ASSUME NEW C, Ancestry(TipSets, {}, P, C) PROVE Fits(C)
  BY <1>3, ZenonT(60) DEF Ancestry
<1>4. \E C : Fits(C)
  BY <1>2, <1>3
<1>5. Chain = CHOOSE C : Fits(C)
  BY DEF Chain
<1> HIDE DEF Fits
<1>6. Fits(Chain)
  BY <1>4, <1>5
<1> QED  BY <1>6, ZenonT(60) DEF Fits

\* The ancestors of a tipset are tipsets of earlier epochs, with their own ancestors.
LEMMA ChainOf ==
    ASSUME NEW ts \in TipSets
    PROVE  /\ Chain[ts] \subseteq TipSets /\ ts \in Chain[ts]
           /\ \A y \in Chain[ts] : /\ y # ts => HeightOf(y) < HeightOf(ts)
                                   /\ Chain[y] \subseteq Chain[ts]
           /\ Parents(ts) # {} => Chain[ts] = {ts} \cup Chain[Parents(ts)]
<1> DEFINE P == [t \in TipSets |-> Parents(t)]
           h == [t \in TipSets |-> HeightOf(t)]
<1>1. Tree(TipSets, {}, P, h)
  BY ParentsLower DEF Tree
<1>2. Ancestry(TipSets, {}, P, Chain)
  <2>1. Chain = [t \in TipSets |-> {t} \cup (IF P[t] = {} THEN {} ELSE Chain[P[t]])]
    BY ChainUnfolds, ZenonT(60)
  <2> QED  BY <2>1, ZenonT(60) DEF Ancestry
<1>3. /\ Chain[ts] \subseteq TipSets /\ ts \in Chain[ts]
      /\ \A y \in Chain[ts] : (y # ts => h[y] < h[ts]) /\ Chain[y] \subseteq Chain[ts]
  <2> HIDE DEF P, h
  <2> QED  BY <1>1, <1>2, Lineage, ZenonT(60)
<1>4. \A y \in Chain[ts] : y # ts => HeightOf(y) < HeightOf(ts)
  BY <1>3, ZenonT(60)
<1>5. Parents(ts) # {} => Chain[ts] = {ts} \cup Chain[Parents(ts)]
  BY ChainUnfolds
<1> HIDE DEF h
<1> QED  BY <1>3, <1>4, <1>5

-----------------------------------------------------------------------------
Pairs == TipSets \X TipSets
Paths == Seq(TipSets) \X Seq(TipSets)

\* one round of the loop of ReorgOps, with f for the rest of it
Round(left, right, f) ==
    IF left = right THEN <<<<>>, <<>>>>
    ELSE IF HeightOf(left) > HeightOf(right)
         THEN <<<<left>> \o f[<<Parents(left), right>>][1], f[<<Parents(left), right>>][2]>>
         ELSE <<f[<<left, Parents(right)>>][1], <<right>> \o f[<<left, Parents(right)>>][2]>>

\* The loop of ReorgOps goes down: the tipset it leaves behind is not the genesis.
LEMMA RoundDown ==
    ASSUME NEW left \in TipSets, NEW right \in TipSets, left # right
    PROVE  /\ HeightOf(left) \in Nat /\ HeightOf(right) \in Nat
           /\ HeightOf(left) > HeightOf(right) =>
                  Parents(left) \in TipSets /\ HeightOf(Parents(left)) < HeightOf(left)
           /\ ~ (HeightOf(left) > HeightOf(right)) =>
                  Parents(right) \in TipSets /\ HeightOf(Parents(right)) < HeightOf(right)
<1>1. HeightOf(left) \in Nat /\ HeightOf(right) \in Nat
  BY ParentsLower
<1>2. ASSUME HeightOf(left) > HeightOf(right) PROVE left # {Genesis}
  <2>1. HeightOf(left) # 0
    BY <1>1, <1>2
  <2> QED  BY <2>1, ParentsLower
<1>3. ASSUME ~ (HeightOf(left) > HeightOf(right)) PROVE right # {Genesis}
  <2>1. SUFFICES ASSUME right = {Genesis} PROVE FALSE
    OBVIOUS
  <2>2. HeightOf(right) = 0
    BY <2>1, ParentsLower
  <2>3. left # {Genesis} /\ HeightOf(left) = 0
    BY <1>1, <1>3, <2>1, <2>2
  <2>4. Parents(left) \in TipSets /\ HeightOf(Parents(left)) < 0
    BY <2>3, ParentsLower
  <2>5. HeightOf(Parents(left)) \in Nat
    BY <2>4, ParentsLower
  <2> QED  BY <2>4, <2>5
<1> QED  BY <1>1, <1>2, <1>3, ParentsLower

\* What a sequence with an element in front of it is.
LEMMA InFront ==
    ASSUME NEW S, NEW x \in S, NEW s \in Seq(S)
    PROVE  /\ <<x>> \o s \in Seq(S) /\ <<x>> \o s # <<>>
           /\ Len(<<x>> \o s) = Len(s) + 1 /\ Len(s) \in Nat
           /\ (<<x>> \o s)[1] = x
           /\ \A i \in 1 .. Len(s) : (<<x>> \o s)[i + 1] = s[i]
           /\ Range(<<x>> \o s) = {x} \cup Range(s)
<1>1. <<x>> \in Seq(S) /\ Len(<<x>>) = 1 /\ <<x>>[1] = x
  OBVIOUS
<1>2. Len(s) \in Nat /\ DOMAIN s = 1 .. Len(s)
  BY LenProperties
<1> DEFINE c == <<x>> \o s
<1>3. /\ c \in Seq(S) /\ Len(c) = 1 + Len(s)
      /\ \A i \in 1 .. 1 + Len(s) : c[i] = IF i <= 1 THEN <<x>>[i] ELSE s[i - 1]
  BY <1>1, ConcatProperties
<1> HIDE DEF c
<1>4. c[1] = x
  BY <1>1, <1>2, <1>3
<1>5. ASSUME NEW i \in 1 .. Len(s) PROVE c[i + 1] = s[i]
  <2>1. i \in Int /\ i + 1 \in 1 .. 1 + Len(s) /\ ~ (i + 1 <= 1) /\ (i + 1) - 1 = i
    BY <1>2
  <2> QED  BY <1>3, <2>1
<1>6. c # <<>>
  BY <1>2, <1>3, EmptySeq
<1>7. DOMAIN c = 1 .. Len(s) + 1
  BY <1>2, <1>3, LenProperties
<1>8. ASSUME NEW y PROVE y \in Range(c) <=> y \in {x} \cup Range(s)
  <2>1. ASSUME NEW i \in 1 .. Len(s) + 1, y = c[i] PROVE y = x \/ \E j \in 1 .. Len(s) : y = s[j]
    <3>1. CASE i = 1
      BY <1>4, <2>1, <3>1
    <3>2. CASE i # 1
      <4>1. i - 1 \in 1 .. Len(s) /\ (i - 1) + 1 = i
        BY <1>2, <3>2
      <4> QED  BY <1>5, <2>1, <4>1, ZenonT(60)
    <3> QED  BY <3>1, <3>2
  <2>2. ASSUME NEW j \in 1 .. Len(s), y = s[j] PROVE j + 1 \in 1 .. Len(s) + 1 /\ y = c[j + 1]
    BY <1>2, <1>5, <2>2
  <2>3. 1 \in 1 .. Len(s) + 1
    BY <1>2
  <2> QED  BY <1>2, <1>4, <1>7, <2>1, <2>2, <2>3 DEF Range
<1>9. Range(c) = {x} \cup Range(s)
  BY <1>8
<1>10. Len(c) = Len(s) + 1
  BY <1>2, <1>3
<1> QED  BY <1>2, <1>3, <1>4, <1>5, <1>6, <1>9, <1>10 DEF c

\* Two sequences of tipsets are what ReorgOps returns.
LEMMA PathPair ==
    ASSUME NEW s \in Seq(TipSets), NEW t \in Seq(TipSets)
    PROVE  <<s, t>> \in Paths /\ <<s, t>>[1] = s /\ <<s, t>>[2] = t
BY DEF Paths

\* ReorgOps is the repetition of its loop's rounds.
LEMMA ReorgOpsUnfolds ==
    \A left, right \in TipSets : ReorgOps(left, right) = Round(left, right, reorgOps)
<1> DEFINE m == [p \in Pairs |-> HeightOf(p[1]) + HeightOf(p[2])]
           step == [q \in Pairs \X [Pairs -> Paths] |-> Round(q[1][1], q[1][2], q[2])]
           Fits(f) == f = [p \in TipSets \X TipSets |-> Round(p[1], p[2], f)]
<1>1. reorgOps = CHOOSE f : Fits(f)
  BY DEF reorgOps, Round
<1>2. ASSUME NEW p \in Pairs, NEW f \in [Pairs -> Paths]
      PROVE  /\ Round(p[1], p[2], f) \in Paths
             /\ step[<<p, f>>] = Round(p[1], p[2], f)
  <2>1. p[1] \in TipSets /\ p[2] \in TipSets
    BY DEF Pairs
  <2>2. \A q \in Pairs : f[q][1] \in Seq(TipSets) /\ f[q][2] \in Seq(TipSets)
    BY DEF Paths
  <2>3. Round(p[1], p[2], f) \in Paths
    <3>1. CASE p[1] = p[2]
      <4>1. <<>> \in Seq(TipSets)
        BY EmptySeq
      <4>2. Round(p[1], p[2], f) = <<<<>>, <<>>>>
        BY <3>1 DEF Round
      <4> QED  BY <4>1, <4>2, PathPair, ZenonT(60)
    <3>2. CASE p[1] # p[2] /\ HeightOf(p[1]) > HeightOf(p[2])
      <4>1. <<Parents(p[1]), p[2]>> \in Pairs
        BY <2>1, <3>2, RoundDown DEF Pairs
      <4> DEFINE r == f[<<Parents(p[1]), p[2]>>]
      <4>2. r[1] \in Seq(TipSets) /\ r[2] \in Seq(TipSets)
        BY <2>2, <4>1
      <4>3. Round(p[1], p[2], f) = <<<<p[1]>> \o r[1], r[2]>>
        BY <3>2, ZenonT(60) DEF Round
      <4> HIDE DEF r
      <4>4. <<p[1]>> \o r[1] \in Seq(TipSets)
        BY <2>1, <4>2, InFront
      <4> QED  BY <4>2, <4>3, <4>4, PathPair, ZenonT(60)
    <3>3. CASE p[1] # p[2] /\ ~ (HeightOf(p[1]) > HeightOf(p[2]))
      <4>1. <<p[1], Parents(p[2])>> \in Pairs
        BY <2>1, <3>3, RoundDown DEF Pairs
      <4> DEFINE r == f[<<p[1], Parents(p[2])>>]
      <4>2. r[1] \in Seq(TipSets) /\ r[2] \in Seq(TipSets)
        BY <2>2, <4>1
      <4>3. Round(p[1], p[2], f) = <<r[1], <<p[2]>> \o r[2]>>
        BY <3>3, ZenonT(60) DEF Round
      <4> HIDE DEF r
      <4>4. <<p[2]>> \o r[2] \in Seq(TipSets)
        BY <2>1, <4>2, InFront
      <4> QED  BY <4>2, <4>3, <4>4, PathPair, ZenonT(60)
    <3> QED  BY <3>1, <3>2, <3>3
  <2> QED  BY <2>3
<1>3. step \in [Pairs \X [Pairs -> Paths] -> Paths]
  <2>1. \A q \in Pairs \X [Pairs -> Paths] : Round(q[1][1], q[1][2], q[2]) \in Paths
    BY <1>2, ZenonT(60)
  <2> QED  BY <2>1
<1>4. Paths # {}
  <2>1. <<>> \in Seq(TipSets)
    BY EmptySeq
  <2> QED  BY <2>1, PathPair, ZenonT(60)
<1>5. m \in [Pairs -> Nat]
  <2>1. \A p \in Pairs : HeightOf(p[1]) \in Nat /\ HeightOf(p[2]) \in Nat
    BY ParentsLower DEF Pairs
  <2> QED  BY <2>1
<1>6. ASSUME NEW p \in Pairs, NEW f \in [Pairs -> Paths], NEW g \in [Pairs -> Paths],
             \A q \in Pairs : m[q] < m[p] => f[q] = g[q]
      PROVE  step[<<p, f>>] = step[<<p, g>>]
  <2>1. p[1] \in TipSets /\ p[2] \in TipSets /\ m[p] = HeightOf(p[1]) + HeightOf(p[2])
    BY DEF Pairs
  <2>2. CASE p[1] = p[2]
    BY <1>2, <2>2, ZenonT(60) DEF Round
  <2>3. CASE p[1] # p[2] /\ HeightOf(p[1]) > HeightOf(p[2])
    <3> DEFINE q == <<Parents(p[1]), p[2]>>
    <3>1. q \in Pairs /\ m[q] = HeightOf(Parents(p[1])) + HeightOf(p[2])
      BY <2>1, <2>3, RoundDown DEF Pairs
    <3>2. HeightOf(Parents(p[1])) \in Nat
      BY <2>1, <2>3, RoundDown, ParentsLower
    <3>3. m[q] < m[p]
      <4> HIDE DEF m, q
      <4> QED  BY <2>1, <2>3, <3>1, <3>2, RoundDown
    <3>4. f[q] = g[q]
      <4> HIDE DEF m, q
      <4> QED  BY <1>6, <3>1, <3>3
    <3>5. Round(p[1], p[2], f) = Round(p[1], p[2], g)
      BY <2>3, <3>4, ZenonT(60) DEF Round
    <3> QED  BY <1>2, <3>5
  <2>4. CASE p[1] # p[2] /\ ~ (HeightOf(p[1]) > HeightOf(p[2]))
    <3> DEFINE q == <<p[1], Parents(p[2])>>
    <3>1. q \in Pairs /\ m[q] = HeightOf(p[1]) + HeightOf(Parents(p[2]))
      BY <2>1, <2>4, RoundDown DEF Pairs
    <3>2. HeightOf(Parents(p[2])) \in Nat
      BY <2>1, <2>4, RoundDown, ParentsLower
    <3>3. m[q] < m[p]
      <4> HIDE DEF m, q
      <4> QED  BY <2>1, <2>4, <3>1, <3>2, RoundDown
    <3>4. f[q] = g[q]
      <4> HIDE DEF m, q
      <4> QED  BY <1>6, <3>1, <3>3
    <3>5. Round(p[1], p[2], f) = Round(p[1], p[2], g)
      BY <2>4, <3>4, ZenonT(60) DEF Round
    <3> QED  BY <1>2, <3>5
  <2> QED  BY <2>2, <2>3, <2>4
<1> HIDE DEF m, step
<1>7. Determines(Pairs, Paths, m, step)
  BY <1>3, <1>4, <1>5, <1>6, ZenonT(60) DEF Determines
<1>8. PICK f : Solution(Pairs, Paths, step, f)
  BY <1>7, RecursiveFunction, ZenonT(60)
<1>9. f \in [Pairs -> Paths] /\ \A p \in Pairs : f[p] = Round(p[1], p[2], f)
  BY <1>2, <1>8, ZenonT(60) DEF Solution
<1>10. Fits(f)
  BY <1>9 DEF Pairs
<1>11. Fits(reorgOps)
  <2> HIDE DEF Fits
  <2> QED  BY <1>1, <1>10
<1>12. ASSUME NEW left \in TipSets, NEW right \in TipSets
       PROVE  reorgOps[<<left, right>>] = Round(left, right, reorgOps)
  BY <1>11
<1> QED  BY <1>12, ZenonT(60) DEF ReorgOps

\* s goes down the chain from its first tipset
Descends(s) == \A i \in 1 .. Len(s) - 1 : s[i + 1] = Parents(s[i])

\* out and in lead from a to b: down to the common ancestor and up to b
Connects(a, b, out, in) ==
    /\ out \in Seq(TipSets) /\ in \in Seq(TipSets)
    /\ Range(out) = Chain[a] \ Chain[b] /\ Range(in) = Chain[b] \ Chain[a]
    /\ Descends(out) /\ Descends(in)
    /\ out # <<>> => out[1] = a
    /\ in # <<>> => in[1] = b
    /\ in = <<>> => IF out = <<>> THEN a = b ELSE Parents(out[Len(out)]) = b

\* With a tipset in front whose parents are the first, a sequence still goes down.
LEMMA DescendsInFront ==
    ASSUME NEW x \in TipSets, NEW s \in Seq(TipSets), Descends(s),
           s # <<>> => s[1] = Parents(x)
    PROVE  Descends(<<x>> \o s)
<1> DEFINE c == <<x>> \o s
<1>1. /\ Len(c) = Len(s) + 1 /\ Len(s) \in Nat /\ c[1] = x
      /\ \A i \in 1 .. Len(s) : c[i + 1] = s[i]
  BY InFront
<1> HIDE DEF c
<1>2. ASSUME NEW i \in 1 .. Len(c) - 1 PROVE c[i + 1] = Parents(c[i])
  <2>1. i \in 1 .. Len(s) /\ c[i + 1] = s[i]
    BY <1>1
  <2>2. CASE i = 1
    <3>1. s # <<>>
      BY <2>1, EmptySeq
    <3> QED  BY <1>1, <2>1, <2>2, <3>1
  <2>3. CASE i # 1
    <3>1. i - 1 \in 1 .. Len(s) - 1 /\ i - 1 \in 1 .. Len(s) /\ (i - 1) + 1 = i
      BY <1>1, <2>1, <2>3
    <3>2. c[i] = s[i - 1] /\ s[i] = Parents(s[i - 1])
      BY <1>1, <3>1 DEF Descends
    <3> QED  BY <2>1, <3>2
  <2> QED  BY <2>2, <2>3
<1> QED  BY <1>2 DEF c, Descends

\* A round of the loop that takes the old chain down.
LEMMA ConnectsLeft ==
    ASSUME NEW a \in TipSets, NEW b \in TipSets, a # b, HeightOf(a) > HeightOf(b),
           NEW out, NEW in, Connects(Parents(a), b, out, in)
    PROVE  Connects(a, b, <<a>> \o out, in)
<1> DEFINE p == Parents(a)
           c == <<a>> \o out
<1>1. p \in TipSets /\ HeightOf(p) < HeightOf(a) /\ HeightOf(a) \in Nat /\ HeightOf(b) \in Nat
  BY RoundDown
<1>2. Chain[a] = {a} \cup Chain[p]
  <2>1. p # {}
    BY <1>1 DEF TipSets, IsTipSet
  <2> QED  BY <2>1, ChainOf
<1>3. a \notin Chain[b]
  <2>1. a \in Chain[b] => HeightOf(a) < HeightOf(b)
    BY ChainOf
  <2> QED  BY <1>1, <2>1
<1>4. out \in Seq(TipSets) /\ in \in Seq(TipSets)
  BY DEF Connects
<1>5. /\ c \in Seq(TipSets) /\ c # <<>> /\ c[1] = a /\ Len(c) = Len(out) + 1
      /\ Range(c) = {a} \cup Range(out) /\ Len(out) \in Nat
      /\ \A i \in 1 .. Len(out) : c[i + 1] = out[i]
  BY <1>4, InFront
<1>6. Descends(c)
  BY <1>4, DescendsInFront DEF Connects
<1> HIDE DEF c
<1>7. Range(c) = Chain[a] \ Chain[b] /\ Range(in) = Chain[b] \ Chain[a]
  BY <1>2, <1>3, <1>5 DEF Connects
<1>8. ASSUME in = <<>> PROVE Parents(c[Len(c)]) = b
  <2>1. CASE out = <<>>
    <3>1. Len(c) = 1 /\ p = b
      BY <1>5, <1>8, <2>1, EmptySeq DEF Connects
    <3> QED  BY <1>5, <3>1, ZenonT(60)
  <2>2. CASE out # <<>>
    <3>1. Len(out) \in 1 .. Len(out)
      BY <1>4, <1>5, <2>2, EmptySeq
    <3>2. c[Len(c)] = out[Len(out)]
      BY <1>5, <3>1
    <3> QED  BY <1>8, <2>2, <3>2 DEF Connects
  <2> QED  BY <2>1, <2>2
<1>9. Connects(a, b, c, in)
  BY <1>4, <1>5, <1>6, <1>7, <1>8 DEF Connects
<1> QED  BY <1>9 DEF c

\* A round of the loop that takes the new chain down.
LEMMA ConnectsRight ==
    ASSUME NEW a \in TipSets, NEW b \in TipSets, a # b, ~ (HeightOf(a) > HeightOf(b)),
           NEW out, NEW in, Connects(a, Parents(b), out, in)
    PROVE  Connects(a, b, out, <<b>> \o in)
<1> DEFINE p == Parents(b)
           c == <<b>> \o in
<1>1. p \in TipSets /\ HeightOf(p) < HeightOf(b) /\ HeightOf(a) \in Nat /\ HeightOf(b) \in Nat
  BY RoundDown
<1>2. Chain[b] = {b} \cup Chain[p]
  <2>1. p # {}
    BY <1>1 DEF TipSets, IsTipSet
  <2> QED  BY <2>1, ChainOf
<1>3. b \notin Chain[a]
  <2>1. b \in Chain[a] => HeightOf(b) < HeightOf(a)
    BY ChainOf
  <2> QED  BY <1>1, <2>1
<1>4. out \in Seq(TipSets) /\ in \in Seq(TipSets)
  BY DEF Connects
<1>5. c \in Seq(TipSets) /\ c # <<>> /\ c[1] = b /\ Range(c) = {b} \cup Range(in)
  BY <1>4, InFront
<1>6. Descends(c)
  BY <1>4, DescendsInFront DEF Connects
<1> HIDE DEF c
<1>7. Range(out) = Chain[a] \ Chain[b] /\ Range(c) = Chain[b] \ Chain[a]
  BY <1>2, <1>3, <1>5 DEF Connects
<1>8. Connects(a, b, out, c)
  BY <1>4, <1>5, <1>6, <1>7 DEF Connects
<1> QED  BY <1>8 DEF c

\* ReorgOps returns what is left and what is entered on the way from a to b.
LEMMA ReorgOpsConnects ==
    ASSUME NEW a \in TipSets, NEW b \in TipSets
    PROVE  Connects(a, b, ReorgOps(a, b)[1], ReorgOps(a, b)[2])
<1> DEFINE Good(p) == Connects(p[1], p[2], ReorgOps(p[1], p[2])[1], ReorgOps(p[1], p[2])[2])
           Bad == {p \in Pairs : ~ Good(p)}
           M == {HeightOf(p[1]) + HeightOf(p[2]) : p \in Bad}
<1>1. SUFFICES ASSUME Bad # {} PROVE FALSE
  <2>1. <<a, b>> \in Pairs
    BY DEF Pairs
  <2> QED  BY <2>1
<1>2. M \in SUBSET Nat /\ M # {}
  <2>1. \A p \in Pairs : HeightOf(p[1]) + HeightOf(p[2]) \in Nat
    <3>1. \A p \in Pairs : HeightOf(p[1]) \in Nat /\ HeightOf(p[2]) \in Nat
      BY ParentsLower DEF Pairs
    <3> QED  BY <3>1
  <2>2. Bad \subseteq Pairs
    OBVIOUS
  <2> HIDE DEF Bad
  <2> QED  BY <1>1, <2>1, <2>2
<1> HIDE DEF M
<1>3. PICK i \in M : \A j \in M : i <= j
  BY <1>2, LeastElement
<1>4. PICK p \in Bad : i = HeightOf(p[1]) + HeightOf(p[2])
  BY <1>3 DEF M
<1> DEFINE l == p[1]
           r == p[2]
<1>5. l \in TipSets /\ r \in TipSets /\ ~ Good(<<l, r>>)
  BY DEF Pairs
<1>6. ASSUME NEW x \in TipSets, NEW y \in TipSets, HeightOf(x) + HeightOf(y) < i
      PROVE  Connects(x, y, ReorgOps(x, y)[1], ReorgOps(x, y)[2])
  <2>1. <<x, y>> \in Pairs
    BY DEF Pairs
  <2>2. <<x, y>> \in Bad => HeightOf(x) + HeightOf(y) \in M
    BY DEF M
  <2>3. HeightOf(x) + HeightOf(y) \in Nat /\ i \in Nat
    BY <1>2, ParentsLower
  <2>4. <<x, y>> \notin Bad
    <3> HIDE DEF Bad
    <3> QED  BY <1>3, <1>6, <2>2, <2>3
  <2> QED  BY <2>1, <2>4
<1> HIDE DEF Bad, l, r
<1>7. i = HeightOf(l) + HeightOf(r)
  BY <1>4 DEF l, r
<1>8. CASE l = r
  <2>1. ReorgOps(l, r) = <<<<>>, <<>>>>
    BY <1>5, <1>8, ReorgOpsUnfolds, ZenonT(60) DEF Round
  <2>2. <<>> \in Seq(TipSets) /\ Len(<<>>) = 0 /\ Range(<<>>) = {}
    BY EmptySeq DEF Range
  <2>3. Connects(l, r, <<>>, <<>>)
    BY <1>8, <2>2 DEF Connects, Descends
  <2> QED  BY <1>5, <2>1, <2>3
<1>9. CASE l # r /\ HeightOf(l) > HeightOf(r)
  <2> DEFINE q == ReorgOps(Parents(l), r)
  <2>1. Parents(l) \in TipSets /\ HeightOf(Parents(l)) + HeightOf(r) < i
    <3>1. Parents(l) \in TipSets /\ HeightOf(Parents(l)) < HeightOf(l)
      BY <1>5, <1>9, RoundDown
    <3>2. HeightOf(Parents(l)) \in Nat /\ HeightOf(l) \in Nat /\ HeightOf(r) \in Nat
      BY <1>5, <3>1, ParentsLower
    <3> QED  BY <1>7, <3>1, <3>2
  <2>2. Connects(Parents(l), r, q[1], q[2])
    BY <1>5, <1>6, <2>1
  <2>3. ReorgOps(l, r) = <<<<l>> \o q[1], q[2]>>
    BY <1>5, <1>9, ReorgOpsUnfolds, ZenonT(60) DEF Round, ReorgOps
  <2> HIDE DEF q
  <2>4. Connects(l, r, <<l>> \o q[1], q[2])
    BY <1>5, <1>9, <2>2, ConnectsLeft
  <2>5. ReorgOps(l, r)[1] = <<l>> \o q[1] /\ ReorgOps(l, r)[2] = q[2]
    <3> DEFINE s == <<l>> \o q[1]
               t == q[2]
    <3>1. ReorgOps(l, r) = <<s, t>>
      BY <2>3
    <3> HIDE DEF s, t
    <3>2. ReorgOps(l, r)[1] = s /\ ReorgOps(l, r)[2] = t
      BY ONLY <3>1, SMTT(60)
    <3> QED  BY <3>2 DEF s, t
  <2> QED  BY <1>5, <2>4, <2>5, ZenonT(60)
<1>10. CASE l # r /\ ~ (HeightOf(l) > HeightOf(r))
  <2> DEFINE q == ReorgOps(l, Parents(r))
  <2>1. Parents(r) \in TipSets /\ HeightOf(l) + HeightOf(Parents(r)) < i
    <3>1. Parents(r) \in TipSets /\ HeightOf(Parents(r)) < HeightOf(r)
      BY <1>5, <1>10, RoundDown
    <3>2. HeightOf(Parents(r)) \in Nat /\ HeightOf(l) \in Nat /\ HeightOf(r) \in Nat
      BY <1>5, <3>1, ParentsLower
    <3> QED  BY <1>7, <3>1, <3>2
  <2>2. Connects(l, Parents(r), q[1], q[2])
    BY <1>5, <1>6, <2>1
  <2>3. ReorgOps(l, r) = <<q[1], <<r>> \o q[2]>>
    BY <1>5, <1>10, ReorgOpsUnfolds, ZenonT(60) DEF Round, ReorgOps
  <2> HIDE DEF q
  <2>4. Connects(l, r, q[1], <<r>> \o q[2])
    BY <1>5, <1>10, <2>2, ConnectsRight
  <2>5. ReorgOps(l, r)[1] = q[1] /\ ReorgOps(l, r)[2] = <<r>> \o q[2]
    <3> DEFINE s == q[1]
               t == <<r>> \o q[2]
    <3>1. ReorgOps(l, r) = <<s, t>>
      BY <2>3
    <3> HIDE DEF s, t
    <3>2. ReorgOps(l, r)[1] = s /\ ReorgOps(l, r)[2] = t
      BY ONLY <3>1, SMTT(60)
    <3> QED  BY <3>2 DEF s, t
  <2> QED  BY <1>5, <2>4, <2>5, ZenonT(60)
<1> QED  BY <1>8, <1>9, <1>10

-----------------------------------------------------------------------------
(* The invariant *)

Holding(s) == sync[s].pc \in {"send", "sent"}

TrackerOK ==
    /\ tipsets \in [Heights -> Seq(Blocks)]
    /\ \A h \in Heights : \A i \in DOMAIN tipsets[h] : Height[tipsets[h][i]] = h

Call == [pc : {"idle", "weigh", "send", "sent"}, ts : TipSets \cup {NoTs}, set : BOOLEAN]

\* What a goroutine carries is a tipset, and one that took heaviestLk in
\* MaybeTakeHeavierTipSet holds a tipset heavier than the head and than all weighed.
CallOK ==
    /\ sync \in [Syncs -> Call]
    /\ \A s \in Syncs : sync[s].pc # "idle" => sync[s].ts \in TipSets
    /\ \A s \in Syncs : sync[s].pc = "weigh" => ~ sync[s].set
    /\ \A s \in Syncs : Holding(s) /\ ~ sync[s].set =>
           Weight(sync[s].ts) > Weight(heaviest) /\ offered <= Weight(sync[s].ts)
    /\ \A s \in Syncs : Holding(s) /\ sync[s].set => offered = 0

\* heaviestLk is a lock.
LockOK == \A s, t \in Syncs : Holding(s) /\ Holding(t) => s = t

Inv ==
    /\ heaviest \in TipSets /\ headKey \in TipSets /\ offered \in Nat
    /\ TrackerOK /\ CallOK /\ LockOK
    /\ NoHeavierForgotten

\* The block with the smallest ticket of a tipset is one of its blocks.
LEMMA FirstBlockIn ==
    ASSUME NEW ts \in TipSets
    PROVE  FirstBlock(ts) \in ts /\ FirstBlock(ts) \in Blocks
<1>1. ts \subseteq Blocks /\ ts # {}
  BY DEF TipSets, IsTipSet
<1> DEFINE T == {Ticket[b] : b \in ts}
<1>2. T \subseteq Nat /\ T # {}
  BY <1>1, BlocksAssumption
<1>3. PICK k \in T : \A j \in T : k <= j
  <2> HIDE DEF T
  <2> QED  BY <1>2, LeastElement
<1>4. \E b \in ts : \A c \in ts : Ticket[b] <= Ticket[c]
  BY <1>3
<1> QED  BY <1>1, <1>4 DEF FirstBlock

\* The genesis block alone is a tipset.
LEMMA GenesisTipSet == {Genesis} \in TipSets
BY BlocksAssumption DEF TipSets, IsTipSet

\* expandTipset returns a tipset, with one block of each miner.
LEMMA ExpandIsTipSet ==
    ASSUME TrackerOK, NEW b \in Blocks
    PROVE  /\ expandTipset(b) \in TipSets
           /\ \A c, d \in expandTipset(b) : Miner[c] = Miner[d] => c = d
<1> DEFINE tsets == tipsets[Height[b]]
           joins(i) == BlockParents[tsets[i]] = BlockParents[b] /\ Miner[tsets[i]] # Miner[b]
           first(i) == joins(i) /\ \A j \in 1 .. i - 1 : joins(j) => Miner[tsets[j]] # Miner[tsets[i]]
<1>1. Height[b] \in Heights
  BY DEF Heights
<1>2. tsets \in Seq(Blocks) /\ \A i \in DOMAIN tsets : Height[tsets[i]] = Height[b]
  BY <1>1 DEF TrackerOK
<1>3. DOMAIN tsets = 1 .. Len(tsets) /\ Len(tsets) \in Nat /\ \A i \in DOMAIN tsets : tsets[i] \in Blocks
  BY <1>2
<1>4. expandTipset(b) = {b} \cup {tsets[i] : i \in {i \in DOMAIN tsets : first(i)}}
  BY DEF expandTipset
<1> HIDE DEF tsets
<1>5. ASSUME NEW c \in expandTipset(b)
      PROVE  /\ c \in Blocks /\ BlockParents[c] = BlockParents[b] /\ Height[c] = Height[b]
             /\ c # b => \E i \in DOMAIN tsets : c = tsets[i] /\ first(i)
  BY <1>2, <1>3, <1>4, <1>5
<1>6. expandTipset(b) \in TipSets
  <2>1. expandTipset(b) # {} /\ expandTipset(b) \subseteq Blocks
    BY <1>4, <1>5
  <2>2. \A c, d \in expandTipset(b) : BlockParents[c] = BlockParents[d] /\ Height[c] = Height[d]
    BY <1>5
  <2> QED  BY <2>1, <2>2 DEF TipSets, IsTipSet
<1>7. ASSUME NEW c \in expandTipset(b), NEW d \in expandTipset(b), Miner[c] = Miner[d], c # d
      PROVE  FALSE
  <2>1. c # b /\ d # b
    BY <1>5, <1>7
  <2>2. PICK i \in DOMAIN tsets : c = tsets[i] /\ first(i)
    BY <1>5, <2>1
  <2>3. PICK j \in DOMAIN tsets : d = tsets[j] /\ first(j)
    BY <1>5, <2>1
  <2>4. i \in Nat /\ j \in Nat /\ i >= 1 /\ j >= 1
    BY <1>3
  <2>5. ~ (i < j) /\ ~ (j < i)
    BY <2>2, <2>3, <2>4, <1>7
  <2>6. i = j
    BY ONLY <2>4, <2>5, SMTT(60)
  <2>7. c = d
    BY ONLY <2>2, <2>3, <2>6, SMTT(60)
  <2> QED  BY ONLY <2>7, <1>7, SMTT(60)
<1> QED  BY <1>6, <1>7

\* The larger of two numbers is one of them and at least the other.
LEMMA MaxOfTwo ==
    ASSUME NEW m \in Nat, NEW n \in Nat
    PROVE  Max({m, n}) \in {m, n} /\ Max({m, n}) >= m /\ Max({m, n}) >= n
<1>1. IsFiniteSet({m, n})
  <2>1. IsFiniteSet({m})
    BY FS_Singleton
  <2>2. IsFiniteSet({m} \cup {n})
    BY <2>1, FS_AddElement
  <2>3. {m, n} = {m} \cup {n}
    OBVIOUS
  <2> QED  BY <2>2, <2>3
<1>2. {m, n} \in SUBSET Nat /\ {m, n} # {}
  OBVIOUS
<1>3. Max({m, n}) \in {m, n} /\ \A k \in {m, n} : k <= Max({m, n})
  BY <1>1, <1>2, MaxOfFinite
<1>4. Max({m, n}) \in Nat /\ m <= Max({m, n}) /\ n <= Max({m, n})
  BY <1>3
<1> QED  BY <1>3, <1>4

\* A store opened on its genesis satisfies Inv.
LEMMA InitInv == Init => Inv
<1> SUFFICES ASSUME Init PROVE Inv
  OBVIOUS
<1>1. heaviest \in TipSets /\ headKey \in TipSets /\ offered \in Nat
  BY GenesisTipSet DEF Init
<1>2. TrackerOK
  BY DEF Init, TrackerOK
<1>3. sync = [s \in Syncs |-> Idle] /\ Idle \in Call
  BY DEF Init, Idle, Call
<1>4. CallOK /\ LockOK
  BY <1>3 DEF CallOK, LockOK, Holding, Idle
<1>5. NoHeavierForgotten
  BY <1>1, WeightAssumption DEF Init, NoHeavierForgotten
<1> QED  BY <1>1, <1>2, <1>4, <1>5 DEF Inv

\* Steps that leave goroutines, head and weights alone.
LEMMA SameHead ==
    ASSUME Inv, UNCHANGED <<tipsets, heaviest, headKey, sync, offered>>
    PROVE  Inv'
BY DEF Inv, TrackerOK, CallOK, LockOK, Holding, NoHeavierForgotten, heaviestLkFree

\* Every step of the store keeps Inv.
LEMMA NextInv == Inv /\ [Next]_vars => Inv'
<1> SUFFICES ASSUME Inv, [Next]_vars PROVE Inv'
  OBVIOUS
<1> USE DEF Inv
<1>1. ASSUME NEW b \in Blocks, AddToTipSetTracker(b) PROVE Inv'
  <2>1. tipsets' = [tipsets EXCEPT ![Height[b]] = Append(@, b)] /\ Height[b] \in Heights
    BY <1>1 DEF AddToTipSetTracker, Heights
  <2>2. UNCHANGED <<heaviest, headKey, sync, offered>>
    BY <1>1 DEF AddToTipSetTracker, headVars
  <2>3. tipsets' \in [Heights -> Seq(Blocks)]
    BY <2>1 DEF TrackerOK
  <2>4. ASSUME NEW h \in Heights, NEW i \in DOMAIN tipsets'[h] PROVE Height[tipsets'[h][i]] = h
    <3>1. CASE h # Height[b]
      BY <3>1, <2>1, <2>4 DEF TrackerOK
    <3>2. CASE h = Height[b]
      <4>1. tipsets[h] \in Seq(Blocks) /\ tipsets'[h] = Append(tipsets[h], b)
        BY <3>2, <2>1 DEF TrackerOK
      <4>2. CASE i = Len(tipsets[h]) + 1
        BY <4>1, <4>2, <3>2
      <4>3. CASE i \in DOMAIN tipsets[h]
        BY <4>1, <4>3, <3>2 DEF TrackerOK
      <4>4. i = Len(tipsets[h]) + 1 \/ i \in DOMAIN tipsets[h]
        BY <4>1, <2>4
      <4> QED  BY <4>2, <4>3, <4>4
    <3> QED  BY <3>1, <3>2
  <2>5. TrackerOK'
    BY <2>3, <2>4 DEF TrackerOK
  <2> QED  BY <2>2, <2>5 DEF CallOK, LockOK, Holding, NoHeavierForgotten, heaviestLkFree
<1>2. ASSUME NEW s \in Syncs, NEW ts \in TipSets, PutTipSet(s, ts) PROVE Inv'
  <2> DEFINE e == expandTipset(FirstBlock(ts))
             c == [pc |-> "weigh", ts |-> e, set |-> FALSE]
  <2>1. e \in TipSets
    BY FirstBlockIn, ExpandIsTipSet
  <2> HIDE DEF e
  <2>2. sync' = [sync EXCEPT ![s] = c]
    BY <1>2 DEF PutTipSet, e
  <2>3. UNCHANGED <<tipsets, heaviest, headKey, offered>> /\ sync[s].pc = "idle"
    BY <1>2 DEF PutTipSet, headVars, Idle
  <2>4. c \in Call
    BY <2>1 DEF Call
  <2>5. CallOK' /\ LockOK'
    BY <2>1, <2>2, <2>3, <2>4 DEF CallOK, LockOK, Holding
  <2>6. NoHeavierForgotten'
    BY <2>2, <2>3 DEF CallOK, NoHeavierForgotten, heaviestLkFree
  <2> QED  BY <2>3, <2>5, <2>6 DEF TrackerOK
<1>3. ASSUME NEW s \in Syncs, NEW ts \in TipSets, SetHead(s, ts) PROVE Inv'
  <2> DEFINE c == [pc |-> "send", ts |-> ts, set |-> TRUE]
  <2>1. sync' = [sync EXCEPT ![s] = c] /\ heaviestLkFree /\ offered' = 0
    BY <1>3 DEF SetHead
  <2>2. UNCHANGED <<tipsets, heaviest, headKey>>
    BY <1>3 DEF SetHead, headVars
  <2>3. c \in Call
    BY DEF Call
  <2>4. CallOK'
    BY <2>1, <2>2, <2>3 DEF CallOK, Holding, heaviestLkFree
  <2>5. LockOK'
    BY <2>1 DEF CallOK, LockOK, Holding, heaviestLkFree
  <2>6. NoHeavierForgotten'
    BY <2>1, <2>2, WeightAssumption DEF NoHeavierForgotten
  <2> QED  BY <2>1, <2>2, <2>4, <2>5, <2>6 DEF TrackerOK
<1>4. ASSUME NEW s \in Syncs, MaybeTakeHeavierTipSet(s) PROVE Inv'
  <2> DEFINE w == Weight(sync[s].ts)
  <2>1. /\ sync[s].pc = "weigh" /\ heaviestLkFree
        /\ offered' = Max({offered, w})
        /\ UNCHANGED <<tipsets, heaviest, headKey>>
    BY <1>4 DEF MaybeTakeHeavierTipSet, headVars
  <2>2. sync[s].ts \in TipSets /\ w \in Nat /\ Weight(heaviest) \in Nat
    BY <2>1, WeightAssumption DEF CallOK
  <2>3. offered <= Weight(heaviest)
    BY <2>1 DEF NoHeavierForgotten
  <2>4. offered' \in Nat /\ offered' >= w /\ offered' \in {offered, w}
    <3> HIDE DEF w
    <3> QED  BY <2>1, <2>2, MaxOfTwo
  <2>5. CASE IsHeavier(sync[s].ts)
    <3>1. sync' = [sync EXCEPT ![s] = [@ EXCEPT !.pc = "send"]] /\ w > Weight(heaviest)
      BY <1>4, <2>5 DEF MaybeTakeHeavierTipSet, IsHeavier
    <3>2. sync'[s].pc = "send" /\ sync'[s].ts = sync[s].ts /\ sync' \in [Syncs -> Call]
      BY <3>1 DEF CallOK, Call
    <3>3. \A t \in Syncs : t # s => sync'[t] = sync[t] /\ ~ Holding(t)
      BY <3>1, <2>1 DEF CallOK, heaviestLkFree, Holding
    <3>4. offered' <= w
      <4> HIDE DEF w
      <4> QED  BY <2>2, <2>3, <2>4, <3>1
    <3>5. sync'[s].set = sync[s].set
      BY <3>1 DEF CallOK, Call
    <3>6. ~ sync[s].set
      BY <2>1 DEF CallOK
    <3>7. CallOK'
      BY <2>1, <2>2, <3>1, <3>2, <3>3, <3>4, <3>5, <3>6 DEF CallOK, Holding
    <3>8. LockOK' /\ NoHeavierForgotten'
      BY <3>2, <3>3 DEF LockOK, Holding, NoHeavierForgotten, heaviestLkFree
    <3> QED  BY <2>1, <2>4, <3>7, <3>8 DEF TrackerOK
  <2>6. CASE ~ IsHeavier(sync[s].ts)
    <3>1. sync' = [sync EXCEPT ![s] = Idle] /\ ~ (w > Weight(heaviest))
      BY <1>4, <2>6 DEF MaybeTakeHeavierTipSet, IsHeavier
    <3>2. Idle \in Call /\ Idle.pc = "idle"
      BY DEF Idle, Call
    <3>3. \A t \in Syncs : ~ Holding(t)'
      BY <3>1, <3>2, <2>1 DEF CallOK, heaviestLkFree, Holding
    <3>4. offered' <= Weight(heaviest)
      <4> HIDE DEF w
      <4> QED  BY <2>2, <2>3, <2>4, <3>1
    <3>5. CallOK' /\ LockOK'
      BY <3>1, <3>2, <3>3 DEF CallOK, LockOK
    <3>6. NoHeavierForgotten'
      BY <3>4, <2>1 DEF NoHeavierForgotten
    <3> QED  BY <2>1, <2>4, <3>5, <3>6 DEF TrackerOK
  <2> QED  BY <2>5, <2>6
<1>5. ASSUME NEW s \in Syncs, sendReorg(s) PROVE Inv'
  <2>1. sync[s].pc = "send" /\ sync' = [sync EXCEPT ![s].pc = "sent"]
    BY <1>5 DEF sendReorg
  <2>2. UNCHANGED <<tipsets, heaviest, headKey, offered>>
    BY <1>5 DEF sendReorg, headVars
  <2>3. /\ sync' \in [Syncs -> Call] /\ sync'[s].pc = "sent"
        /\ sync'[s].ts = sync[s].ts /\ sync'[s].set = sync[s].set
    BY <2>1 DEF CallOK, Call
  <2>4. \A t \in Syncs : t # s => sync'[t] = sync[t]
    BY <2>1 DEF CallOK
  <2>5. \A t \in Syncs : Holding(t)' <=> Holding(t)
    BY <2>1, <2>3, <2>4 DEF Holding
  <2>6. CallOK'
    BY <2>1, <2>2, <2>3, <2>4, <2>5 DEF CallOK
  <2>7. LockOK'
    BY <2>5 DEF LockOK
  <2>8. NoHeavierForgotten'
    BY <2>3 DEF NoHeavierForgotten, heaviestLkFree
  <2> QED  BY <2>2, <2>6, <2>7, <2>8 DEF TrackerOK
<1>6. ASSUME NEW s \in Syncs, setHeaviest(s) PROVE Inv'
  <2>1. /\ sync[s].pc = "sent" /\ heaviest' = sync[s].ts
        /\ headKey' \in {headKey, sync[s].ts}
        /\ sync' = [sync EXCEPT ![s] = Idle]
        /\ UNCHANGED <<tipsets, offered>>
    BY <1>6 DEF setHeaviest
  <2>2. sync[s].ts \in TipSets /\ Weight(sync[s].ts) \in Nat
    BY <2>1, WeightAssumption DEF CallOK
  <2>3. Idle \in Call /\ Idle.pc = "idle"
    BY DEF Idle, Call
  <2>4. \A t \in Syncs : ~ Holding(t)'
    BY <2>1, <2>3 DEF CallOK, LockOK, Holding
  <2>5. CallOK' /\ LockOK'
    BY <2>1, <2>3, <2>4 DEF CallOK, LockOK
  <2>6. offered <= Weight(sync[s].ts)
    <3>1. sync[s].set \in BOOLEAN
      BY DEF CallOK, Call
    <3> QED  BY <2>1, <2>2, <3>1 DEF CallOK, Holding
  <2>7. NoHeavierForgotten'
    BY <2>1, <2>6 DEF NoHeavierForgotten
  <2> QED  BY <2>1, <2>2, <2>5, <2>7 DEF TrackerOK
<1>7. ASSUME Crash PROVE Inv'
  <2>1. /\ tipsets' = [h \in Heights |-> <<>>] /\ offered' = 0
        /\ heaviest' = headKey /\ headKey' = headKey
        /\ sync' = [s \in Syncs |-> Idle]
    BY <1>7 DEF Crash
  <2>2. Idle \in Call /\ Idle.pc = "idle"
    BY DEF Idle, Call
  <2>3. CallOK' /\ LockOK'
    BY <2>1, <2>2 DEF CallOK, LockOK, Holding
  <2>4. TrackerOK'
    BY <2>1 DEF TrackerOK
  <2>5. NoHeavierForgotten'
    BY <2>1, WeightAssumption DEF NoHeavierForgotten
  <2> QED  BY <2>1, <2>3, <2>4, <2>5
<1>8. ASSUME takeReorg \/ hcnf \/ callback \/ SubHeadChanges \/ subCurrent \/ UNCHANGED vars PROVE Inv'
  <2>1. UNCHANGED <<tipsets, heaviest, headKey, sync, offered>>
    BY <1>8 DEF takeReorg, hcnf, callback, SubHeadChanges, subCurrent, vars, headVars
  <2> QED  BY <2>1, SameHead
<1> QED  BY <1>1, <1>2, <1>3, <1>4, <1>5, <1>6, <1>7, <1>8 DEF Next

\* Inv is an inductive invariant of the chain store.
THEOREM StoreInvariant == Spec => []Inv
<1> QED  BY InitInv, NextInv, PTL DEF Spec

\* No tipset that MaybeTakeHeavierTipSet weighed is heavier than the head once
\* heaviestLk is free, for any number of goroutines that put tipsets.
THEOREM StoreNoHeavierForgotten == Spec => []NoHeavierForgotten
<1>1. Inv => NoHeavierForgotten
  BY DEF Inv
<1> QED  BY <1>1, StoreInvariant, PTL

\* The steps of the goroutines and of the store that leave the head alone.
LEMMA HeadMoves ==
    ASSUME [Next]_vars, heaviest' # heaviest
    PROVE  (\E s \in Syncs : setHeaviest(s)) \/ Crash
BY ZenonT(60) DEF Next, AddToTipSetTracker, PutTipSet, SetHead, MaybeTakeHeavierTipSet, sendReorg, takeReorg,
       hcnf, callback, SubHeadChanges, subCurrent, vars, headVars

CrashesNat == crashes \in Nat

\* The number of crashes is a natural number.
LEMMA CrashesCounted == Spec => []CrashesNat
<1>1. Init => CrashesNat
  BY DEF Init, CrashesNat
<1>2. ASSUME [Next]_vars PROVE Crash \/ UNCHANGED crashes
  BY <1>2, ZenonT(60) DEF Next, AddToTipSetTracker, PutTipSet, SetHead, MaybeTakeHeavierTipSet, sendReorg,
         setHeaviest, takeReorg, hcnf, callback, SubHeadChanges, subCurrent, vars, bounds
<1>3. CrashesNat /\ Crash => CrashesNat'
  BY DEF Crash, CrashesNat
<1>4. CrashesNat /\ [Next]_vars => CrashesNat'
  BY <1>2, <1>3 DEF CrashesNat
<1> QED  BY <1>1, <1>4, PTL DEF Spec

\* MaybeTakeHeavierTipSet replaces the head only by a heavier tipset, whatever other
\* goroutines do between its comparison and its assignment.
THEOREM StoreHeadOnlyGrows == Spec => HeadOnlyGrows
<1>1. Inv /\ CrashesNat /\ [Next]_vars => [HeadGrows]_vars
  <2> SUFFICES ASSUME Inv, CrashesNat, [Next]_vars, heaviest' # heaviest PROVE HeadGrows
    BY DEF HeadGrows
  <2>1. CASE Crash
    <3>1. crashes' = crashes + 1
      BY <2>1 DEF Crash
    <3> QED  BY <3>1 DEF HeadGrows, CrashesNat
  <2>2. ASSUME NEW s \in Syncs, setHeaviest(s) PROVE HeadGrows
    <3>1. sync[s].pc = "sent" /\ heaviest' = sync[s].ts
      BY <2>2 DEF setHeaviest
    <3>2. CASE sync[s].set
      BY <3>1, <3>2 DEF HeadGrows
    <3>3. CASE ~ sync[s].set
      BY <3>1, <3>3 DEF HeadGrows, Inv, CallOK, Holding
    <3> QED  BY <3>2, <3>3
  <2> QED  BY <2>1, <2>2, HeadMoves
<1> QED  BY <1>1, StoreInvariant, CrashesCounted, PTL DEF Spec, HeadOnlyGrows

-----------------------------------------------------------------------------
OnePerMiner(ts) == \A b, c \in ts : Miner[b] = Miner[c] => b = c

MinerInv ==
    /\ OnePerMiner(heaviest) /\ OnePerMiner(headKey)
    /\ \A s \in Syncs : OnePerMiner(sync[s].ts)
    /\ setHeads \in Nat

\* Without SetHead, every step keeps one block per miner in what the store weighs and takes.
LEMMA MinerStep == ASSUME MaxSetHeads = 0, Inv, MinerInv, [Next]_vars PROVE MinerInv'
<1> USE DEF MinerInv
<1>1. OnePerMiner({})
  BY DEF OnePerMiner
<1>2. sync \in [Syncs -> Call]
  BY DEF Inv, CallOK
<1>3. ASSUME NEW s \in Syncs, NEW ts \in TipSets, PutTipSet(s, ts) PROVE MinerInv'
  <2> DEFINE e == expandTipset(FirstBlock(ts))
             c == [pc |-> "weigh", ts |-> e, set |-> FALSE]
  <2>1. OnePerMiner(e)
    BY FirstBlockIn, ExpandIsTipSet DEF OnePerMiner, Inv
  <2> HIDE DEF e
  <2>2. sync' = [sync EXCEPT ![s] = c] /\ UNCHANGED <<heaviest, headKey, setHeads>>
    BY <1>3 DEF PutTipSet, headVars, bounds, e
  <2>3. \A t \in Syncs : sync'[t].ts \in {sync[t].ts, e}
    BY <2>2, <1>2
  <2> QED  BY <2>1, <2>2, <2>3 DEF OnePerMiner
<1>4. ASSUME NEW s \in Syncs, NEW ts \in TipSets, SetHead(s, ts) PROVE FALSE
  BY <1>4 DEF SetHead
<1>5. ASSUME NEW s \in Syncs, MaybeTakeHeavierTipSet(s) \/ sendReorg(s) PROVE MinerInv'
  <2>1. UNCHANGED <<heaviest, headKey, setHeads>>
    BY <1>5 DEF MaybeTakeHeavierTipSet, sendReorg, headVars, bounds
  <2>2. \A t \in Syncs : sync'[t].ts \in {sync[t].ts, {}}
    <3>1. CASE sendReorg(s)
      BY <3>1, <1>2 DEF sendReorg, Call
    <3>2. CASE MaybeTakeHeavierTipSet(s)
      BY <3>2, <1>2 DEF MaybeTakeHeavierTipSet, Idle, NoTs, Call
    <3> QED  BY <1>5, <3>1, <3>2
  <2> QED  BY <1>1, <2>1, <2>2 DEF OnePerMiner
<1>6. ASSUME NEW s \in Syncs, setHeaviest(s) PROVE MinerInv'
  <2>1. /\ heaviest' = sync[s].ts /\ headKey' \in {headKey, sync[s].ts}
        /\ sync' = [sync EXCEPT ![s] = Idle] /\ setHeads' = setHeads
    BY <1>6 DEF setHeaviest, bounds
  <2>2. \A t \in Syncs : sync'[t].ts \in {sync[t].ts, {}}
    BY <2>1, <1>2 DEF Idle, NoTs
  <2> QED  BY <1>1, <2>1, <2>2 DEF OnePerMiner
<1>7. ASSUME Crash PROVE MinerInv'
  <2>1. /\ heaviest' = headKey /\ headKey' = headKey /\ setHeads' = setHeads
        /\ \A s \in Syncs : sync'[s].ts = {}
    BY <1>7 DEF Crash, Idle, NoTs
  <2> QED  BY <1>1, <2>1 DEF OnePerMiner
<1>8. ASSUME UNCHANGED <<heaviest, headKey, sync, setHeads>> PROVE MinerInv'
  BY <1>8 DEF OnePerMiner
<1>9. ASSUME \/ \E b \in Blocks : AddToTipSetTracker(b)
             \/ takeReorg \/ hcnf \/ callback \/ SubHeadChanges \/ subCurrent \/ UNCHANGED vars
      PROVE  MinerInv'
  BY <1>8, <1>9 DEF AddToTipSetTracker, takeReorg, hcnf, callback, SubHeadChanges, subCurrent, vars,
                    headVars, bounds
<1> QED  BY <1>3, <1>4, <1>5, <1>6, <1>7, <1>9, ZenonT(60) DEF Next

\* Unless SetHead is used, the head never has two blocks of one miner, in whatever
\* order the blocks reach the tipset tracker that expandTipset reads.
THEOREM StoreOneBlockPerMiner ==
    ASSUME MaxSetHeads = 0
    PROVE  Spec => []OneBlockPerMiner
<1>1. Init => MinerInv
  BY DEF Init, MinerInv, OnePerMiner, Idle, NoTs
<1>2. Inv /\ MinerInv /\ [Next]_vars => MinerInv'
  BY MinerStep
<1>3. MinerInv => OneBlockPerMiner
  BY DEF MinerInv, OnePerMiner, OneBlockPerMiner
<1> QED  BY <1>1, <1>2, <1>3, StoreInvariant, PTL DEF Spec

-----------------------------------------------------------------------------
(* The changes of the head, as its followers are told of them *)

\* s from its last element to its first, as reorgWorker hands out what it applies
Reversal(s) == [i \in 1 .. Len(s) |-> s[Len(s) - i + 1]]

\* A reversed sequence has the same elements, from the last to the first.
LEMMA Reversed ==
    ASSUME NEW S, NEW s \in Seq(S)
    PROVE  /\ Reversal(s) \in Seq(S) /\ Len(Reversal(s)) = Len(s) /\ Len(s) \in Nat
           /\ \A i \in 1 .. Len(s) : Reversal(s)[i] = s[Len(s) - i + 1]
           /\ Range(Reversal(s)) = Range(s)
<1> DEFINE t == Reversal(s)
<1>1. Len(s) \in Nat /\ DOMAIN s = 1 .. Len(s) /\ \A i \in 1 .. Len(s) : s[i] \in S
  BY LenProperties, ElementOfSeq
<1>2. \A i \in 1 .. Len(s) : Len(s) - i + 1 \in 1 .. Len(s)
  BY <1>1
<1>3. t = [i \in 1 .. Len(s) |-> s[Len(s) - i + 1]]
  BY DEF Reversal
<1>4. t \in [1 .. Len(s) -> S]
  BY <1>1, <1>2, <1>3
<1>5. t \in Seq(S) /\ Len(t) = Len(s) /\ DOMAIN t = 1 .. Len(s)
  BY <1>1, <1>4
<1>6. \A i \in 1 .. Len(s) : t[i] = s[Len(s) - i + 1]
  BY <1>3
<1> HIDE DEF t
<1>7. ASSUME NEW y PROVE y \in Range(t) <=> y \in Range(s)
  <2>1. ASSUME NEW i \in 1 .. Len(s), y = t[i] PROVE \E j \in 1 .. Len(s) : y = s[j]
    BY <1>2, <1>6, <2>1
  <2>2. ASSUME NEW j \in 1 .. Len(s), y = s[j] PROVE \E i \in 1 .. Len(s) : y = t[i]
    <3>1. (Len(s) - j) + 1 \in 1 .. Len(s)
      BY <1>2
    <3>2. (Len(s) - ((Len(s) - j) + 1)) + 1 = j
      BY <1>1
    <3>3. t[(Len(s) - j) + 1] = s[j]
      BY <1>6, <3>1, <3>2
    <3> QED  BY <2>2, <3>1, <3>3
  <2> QED  BY <1>1, <1>5, <2>1, <2>2 DEF Range
<1>8. Range(t) = Range(s)
  BY <1>7, ZenonT(60)
<1> QED  BY <1>1, <1>5, <1>6, <1>8 DEF t

\* The worker's lists lead from the old head to the new one, and a follower that was
\* at the old head is at the new one after them.
LEMMA WorkerPath ==
    ASSUME reorgWorker.old \in TipSets, reorgWorker.new \in TipSets
    PROVE  ReorgPath /\ headAfter(reorgWorker.old) = reorgWorker.new
<1> DEFINE a == reorgWorker.old
           b == reorgWorker.new
           in == ReorgOps(a, b)[2]
<1>1. Connects(a, b, revert, in)
  BY ReorgOpsConnects DEF revert
<1>2. apply = Reversal(in)
  BY DEF apply, Reversal
<1> HIDE DEF in
<1>3. /\ revert \in Seq(TipSets) /\ in \in Seq(TipSets)
      /\ Descends(in) /\ Descends(revert)
  BY <1>1 DEF Connects
<1>4. /\ apply \in Seq(TipSets) /\ Len(apply) = Len(in) /\ Len(in) \in Nat
      /\ \A i \in 1 .. Len(in) : apply[i] = in[Len(in) - i + 1]
      /\ Range(apply) = Range(in)
  BY <1>2, <1>3, Reversed
<1>5. ASSUME NEW i \in 1 .. Len(apply) - 1 PROVE apply[i] = Parents(apply[i + 1])
  <2>1. /\ i \in 1 .. Len(in) /\ i + 1 \in 1 .. Len(in)
        /\ Len(in) - i \in 1 .. Len(in) - 1 /\ (Len(in) - (i + 1)) + 1 = Len(in) - i
    BY <1>4
  <2>2. apply[i] = in[Len(in) - i + 1] /\ apply[i + 1] = in[Len(in) - i]
    BY <1>4, <2>1
  <2>3. in[Len(in) - i + 1] = Parents(in[Len(in) - i])
    BY <1>3, <2>1 DEF Descends
  <2> QED  BY <2>2, <2>3
<1>6. ReorgPath
  BY <1>1, <1>3, <1>4, <1>5 DEF ReorgPath, Connects, Descends
<1>7. apply = <<>> <=> in = <<>>
  BY <1>3, <1>4, EmptySeq
<1>8. CASE in # <<>>
  <2>1. Len(in) \in 1 .. Len(in) /\ (Len(in) - Len(in)) + 1 = 1
    BY <1>3, <1>4, <1>8, EmptySeq
  <2>2. apply[Len(apply)] = in[1]
    BY <1>4, <2>1
  <2> QED  BY <1>1, <1>6, <1>7, <1>8, <2>2 DEF headAfter, Connects
<1>9. CASE in = <<>>
  BY <1>1, <1>6, <1>7, <1>9 DEF headAfter, Connects
<1> QED  BY <1>8, <1>9

-----------------------------------------------------------------------------
WorkerOK ==
    /\ reorgCh \in Seq(Pairs)
    /\ reorgWorker \in [old : TipSets \cup {NoTs}, new : TipSets \cup {NoTs},
                        next : {"select", "hcnf", "callback"}]
    /\ reorgWorker.next # "select" => reorgWorker.old \in TipSets /\ reorgWorker.new \in TipSets

FeedInv == Inv /\ WorkerOK /\ Feed!TypeOK /\ Feed!Connected

\* The head of the feed is the tipset of the goroutine between its send and its
\* assignment, if there is one.
LEMMA FeedHead ==
    ASSUME LockOK
    PROVE  /\ \A s \in Syncs : sync[s].pc = "sent" => feedHead = sync[s].ts
           /\ (\A s \in Syncs : sync[s].pc # "sent") => feedHead = heaviest
<1>1. ASSUME NEW s \in Syncs, sync[s].pc = "sent" PROVE feedHead = sync[s].ts
  <2> DEFINE c == CHOOSE t \in Syncs : sync[t].pc = "sent"
  <2>1. c \in Syncs /\ sync[c].pc = "sent"
    BY <1>1
  <2>2. feedHead = sync[c].ts
    BY <1>1 DEF feedHead
  <2> HIDE DEF c
  <2>3. c = s
    BY <1>1, <2>1 DEF LockOK, Holding
  <2> QED  BY <2>2, <2>3
<1> QED  BY <1>1 DEF feedHead

\* The same after a step.
LEMMA FeedHeadNext ==
    ASSUME LockOK'
    PROVE  /\ \A s \in Syncs : sync'[s].pc = "sent" => feedHead' = sync'[s].ts
           /\ (\A s \in Syncs : sync'[s].pc # "sent") => feedHead' = heaviest'
<1>1. ASSUME NEW s \in Syncs, sync'[s].pc = "sent" PROVE feedHead' = sync'[s].ts
  <2> DEFINE c == CHOOSE t \in Syncs : sync'[t].pc = "sent"
  <2>1. c \in Syncs /\ sync'[c].pc = "sent"
    BY <1>1
  <2>2. feedHead' = sync'[c].ts
    BY <1>1 DEF feedHead
  <2> HIDE DEF c
  <2>3. c = s
    BY <1>1, <2>1 DEF LockOK, Holding
  <2> QED  BY <2>2, <2>3
<1> QED  BY <1>1 DEF feedHead

\* A step that neither sends nor finishes a send leaves the head of the feed alone.
LEMMA SameFeedHead ==
    ASSUME LockOK, LockOK', heaviest' = heaviest,
           \A s \in Syncs : sync'[s].pc = "sent" <=> sync[s].pc = "sent",
           \A s \in Syncs : sync[s].pc = "sent" => sync'[s].ts = sync[s].ts
    PROVE  feedHead' = feedHead
<1>1. CASE \E s \in Syncs : sync[s].pc = "sent"
  BY <1>1, FeedHead, FeedHeadNext
<1>2. CASE \A s \in Syncs : sync[s].pc # "sent"
  BY <1>2, FeedHead, FeedHeadNext
<1> QED  BY <1>1, <1>2

\* What is queued, with the change being notified in front.
LEMMA FeedChanges ==
    ASSUME WorkerOK
    PROVE  /\ reorgWorker.next = "select" => feedChanges = reorgCh
           /\ reorgWorker.next # "select" =>
                  /\ <<reorgWorker.old, reorgWorker.new>> \in Pairs
                  /\ feedChanges = <<<<reorgWorker.old, reorgWorker.new>>>> \o reorgCh
           /\ feedChanges \in Seq(Pairs)
<1>1. reorgCh \in Seq(Pairs)
  BY DEF WorkerOK
<1>2. CASE reorgWorker.next = "select"
  <2>1. feedChanges = <<>> \o reorgCh
    BY <1>2 DEF feedChanges
  <2>2. feedChanges = reorgCh
    BY <1>1, <2>1, ConcatEmptySeq
  <2> QED  BY <1>1, <1>2, <2>2
<1>3. CASE reorgWorker.next # "select"
  <2>1. <<reorgWorker.old, reorgWorker.new>> \in Pairs
    BY <1>3 DEF WorkerOK, Pairs
  <2> DEFINE p == <<reorgWorker.old, reorgWorker.new>>
  <2>2. feedChanges = <<p>> \o reorgCh
    BY <1>3 DEF feedChanges
  <2> HIDE DEF p
  <2>3. feedChanges \in Seq(Pairs)
    BY <1>1, <2>1, <2>2, InFront DEF p
  <2> QED  BY <1>3, <2>1, <2>2, <2>3 DEF p
<1> QED  BY <1>2, <1>3

\* A step that leaves the queue, the change being notified, the head of the feed and
\* the callback's view alone leaves the feed alone.
LEMMA SameFeed ==
    ASSUME feedHead' = feedHead, reorgCh' = reorgCh, reorgWorker' = reorgWorker, view' = view
    PROVE  UNCHANGED Feed!vars
BY DEF Feed!vars, feedChanges

\* takeHeaviestTipSet's send on reorgCh is a move of the head.
LEMMA SendMoves ==
    ASSUME Inv, WorkerOK, LockOK', NEW s \in Syncs, sendReorg(s)
    PROVE  Feed!Move /\ WorkerOK'
<1>1. /\ sync[s].pc = "send" /\ reorgCh' = Append(reorgCh, <<heaviest, sync[s].ts>>)
      /\ sync' = [sync EXCEPT ![s].pc = "sent"] /\ UNCHANGED <<reorgWorker, view>>
  BY DEF sendReorg
<1>2. sync[s].ts \in TipSets /\ sync'[s].pc = "sent" /\ sync'[s].ts = sync[s].ts
  BY <1>1 DEF Inv, CallOK, Call
<1>3. \A t \in Syncs : sync[t].pc # "sent"
  <2> SUFFICES ASSUME NEW t \in Syncs, sync[t].pc = "sent" PROVE FALSE
    OBVIOUS
  <2>1. t = s
    BY <1>1 DEF Inv, LockOK, Holding
  <2> QED  BY <1>1, <2>1
<1>4. feedHead = heaviest /\ feedHead' = sync[s].ts
  BY <1>2, <1>3, FeedHead, FeedHeadNext DEF Inv
<1> DEFINE x == <<heaviest, sync[s].ts>>
           w == IF reorgWorker.next = "select" THEN <<>> ELSE <<<<reorgWorker.old, reorgWorker.new>>>>
<1>5. x \in Pairs /\ reorgCh \in Seq(Pairs)
  BY <1>2 DEF Inv, WorkerOK, Pairs
<1>6. w \in Seq(Pairs)
  <2>1. CASE reorgWorker.next = "select"
    BY <2>1, EmptySeq
  <2>2. CASE reorgWorker.next # "select"
    <3> DEFINE p == <<reorgWorker.old, reorgWorker.new>>
    <3>1. p \in Pairs
      BY <2>2 DEF WorkerOK, Pairs
    <3> HIDE DEF p
    <3>2. <<p>> \in Seq(Pairs)
      BY <3>1
    <3> QED  BY <2>2, <3>2 DEF p
  <2> QED  BY <2>1, <2>2
<1>7. feedChanges = w \o reorgCh
  BY DEF feedChanges
<1>8. feedChanges' = w \o reorgCh'
  BY <1>1 DEF feedChanges
<1> HIDE DEF x, w
<1>9. reorgCh' = Append(reorgCh, x) /\ reorgCh' \in Seq(Pairs)
  BY <1>1, <1>5, AppendProperties DEF x
<1>10. w \o Append(reorgCh, x) = Append(w \o reorgCh, x)
  <2>1. Append(reorgCh, x) = reorgCh \o <<x>> /\ <<x>> \in Seq(Pairs)
    BY <1>5, AppendIsConcat
  <2>2. w \o reorgCh \in Seq(Pairs)
    BY <1>5, <1>6, ConcatProperties
  <2>3. Append(w \o reorgCh, x) = (w \o reorgCh) \o <<x>>
    BY <1>5, <2>2, AppendIsConcat
  <2>4. (w \o reorgCh) \o <<x>> = w \o (reorgCh \o <<x>>)
    BY <1>5, <1>6, <2>1, ConcatAssociative
  <2> QED  BY <2>1, <2>3, <2>4
<1>11. feedChanges' = Append(feedChanges, <<feedHead, sync[s].ts>>)
  BY <1>4, <1>7, <1>8, <1>9, <1>10 DEF x
<1>12. Feed!Move
  BY <1>1, <1>2, <1>4, <1>11 DEF Feed!Move
<1>13. WorkerOK'
  BY <1>1, <1>9 DEF WorkerOK
<1> QED  BY <1>12, <1>13

\* Taking a change from the queue keeps the order of the changes.
LEMMA TakeKeepsFeed ==
    ASSUME WorkerOK, takeReorg
    PROVE  WorkerOK' /\ feedChanges' = feedChanges /\ UNCHANGED <<sync, heaviest, view>>
<1>1. /\ reorgWorker.next = "select" /\ reorgCh # <<>> /\ UNCHANGED <<sync, heaviest, view>>
      /\ reorgWorker' = [old |-> Head(reorgCh)[1], new |-> Head(reorgCh)[2], next |-> "hcnf"]
      /\ reorgCh' = Tail(reorgCh)
  BY DEF takeReorg, headVars
<1>2. reorgCh \in Seq(Pairs) /\ Head(reorgCh) \in Pairs /\ reorgCh' \in Seq(Pairs)
  BY <1>1, HeadTailProperties DEF WorkerOK
<1> DEFINE x == Head(reorgCh)
<1>3. x[1] \in TipSets /\ x[2] \in TipSets /\ x = <<x[1], x[2]>>
  BY <1>2 DEF Pairs
<1>4. feedChanges = reorgCh
  BY <1>1, FeedChanges
<1>5. feedChanges' = <<<<x[1], x[2]>>>> \o Tail(reorgCh)
  BY <1>1 DEF feedChanges
<1>6. <<x>> \o Tail(reorgCh) = reorgCh
  <2> DEFINE c == <<x>> \o Tail(reorgCh)
  <2>1. /\ c \in Seq(Pairs) /\ Len(c) = Len(Tail(reorgCh)) + 1 /\ c[1] = x
        /\ \A i \in 1 .. Len(Tail(reorgCh)) : c[i + 1] = Tail(reorgCh)[i]
    BY <1>1, <1>2, InFront
  <2>2. /\ Len(Tail(reorgCh)) = Len(reorgCh) - 1 /\ Len(reorgCh) \in Nat
        /\ \A i \in 1 .. Len(Tail(reorgCh)) : Tail(reorgCh)[i] = reorgCh[i + 1]
    BY <1>1, <1>2, HeadTailProperties, LenProperties
  <2>3. x = reorgCh[1]
    BY <1>1, <1>2
  <2> HIDE DEF c, x
  <2>4. ASSUME NEW i \in 1 .. Len(c) PROVE c[i] = reorgCh[i]
    <3>1. CASE i = 1
      BY <2>1, <2>3, <3>1
    <3>2. CASE i # 1
      <4>1. i - 1 \in 1 .. Len(Tail(reorgCh)) /\ (i - 1) + 1 = i
        BY <2>1, <2>2, <3>2
      <4> QED  BY <2>1, <2>2, <4>1
    <3> QED  BY <3>1, <3>2
  <2>5. Len(c) = Len(reorgCh)
    BY <2>1, <2>2
  <2> QED  BY <1>2, <2>1, <2>4, <2>5, SeqEqual DEF c
<1>7. WorkerOK'
  BY <1>1, <1>2, <1>3 DEF WorkerOK
<1> QED  BY <1>1, <1>3, <1>4, <1>5, <1>6, <1>7, ZenonT(60)

\* Calling the callback delivers the oldest change.
LEMMA CallbackDelivers ==
    ASSUME WorkerOK, Feed!Connected, callback, feedHead' = feedHead
    PROVE  Feed!Deliver /\ WorkerOK'
<1>1. /\ reorgWorker.next = "callback" /\ view' = headAfter(view) /\ reorgWorker' = Waiting
      /\ reorgCh' = reorgCh
  BY DEF callback
<1> DEFINE x == <<reorgWorker.old, reorgWorker.new>>
<1>2. x \in Pairs /\ feedChanges = <<x>> \o reorgCh /\ reorgCh \in Seq(Pairs)
  BY <1>1, FeedChanges DEF WorkerOK
<1>3. reorgWorker.old \in TipSets /\ reorgWorker.new \in TipSets /\ x[1] = reorgWorker.old /\ x[2] = reorgWorker.new
  BY <1>1 DEF WorkerOK
<1> HIDE DEF x
<1>4. /\ feedChanges \in Seq(Pairs) /\ feedChanges # <<>> /\ feedChanges[1] = x
      /\ Len(feedChanges) = Len(reorgCh) + 1
      /\ \A i \in 1 .. Len(reorgCh) : feedChanges[i + 1] = reorgCh[i]
  BY <1>2, InFront
<1>5. Head(feedChanges) = x
  BY <1>4
<1>6. Tail(feedChanges) = reorgCh
  <2>1. /\ Tail(feedChanges) \in Seq(Pairs) /\ Len(Tail(feedChanges)) = Len(feedChanges) - 1
        /\ \A i \in 1 .. Len(Tail(feedChanges)) : Tail(feedChanges)[i] = feedChanges[i + 1]
    BY <1>4, HeadTailProperties
  <2>2. Len(reorgCh) \in Nat
    BY <1>2, LenProperties
  <2>3. Len(Tail(feedChanges)) = Len(reorgCh)
    BY <1>4, <2>1, <2>2
  <2>4. \A i \in 1 .. Len(Tail(feedChanges)) : Tail(feedChanges)[i] = reorgCh[i]
    BY <1>4, <2>1, <2>3
  <2> QED  BY <1>2, <2>1, <2>3, <2>4, SeqEqual
<1>7. view = reorgWorker.old
  BY <1>3, <1>4 DEF Feed!Connected
<1>8. view' = Head(feedChanges)[2]
  BY <1>1, <1>3, <1>5, <1>7, WorkerPath
<1>9. feedChanges' = Tail(feedChanges)
  <2>1. feedChanges' = <<>> \o reorgCh
    BY <1>1 DEF feedChanges, Waiting
  <2> QED  BY <1>2, <1>6, <2>1, ConcatEmptySeq
<1>10. Feed!Deliver
  BY <1>4, <1>8, <1>9 DEF Feed!Deliver
<1>11. WorkerOK'
  BY <1>1 DEF WorkerOK, Waiting
<1> QED  BY <1>10, <1>11

\* A crash is a restart of the feed from the head that was written.
LEMMA CrashRestarts ==
    ASSUME Inv, LockOK', Crash
    PROVE  Feed!Restart /\ WorkerOK'
<1>1. /\ heaviest' = headKey /\ sync' = [s \in Syncs |-> Idle] /\ reorgCh' = <<>>
      /\ reorgWorker' = Waiting /\ view' = headKey
  BY DEF Crash
<1>2. \A s \in Syncs : sync'[s].pc # "sent"
  BY <1>1 DEF Idle
<1>3. feedHead' = headKey /\ headKey \in TipSets
  BY <1>1, <1>2, FeedHeadNext DEF Inv
<1>4. <<>> \in Seq(Pairs)
  BY EmptySeq
<1>5. feedChanges' = <<>>
  <2>1. feedChanges' = <<>> \o <<>>
    BY <1>1 DEF feedChanges, Waiting
  <2> QED  BY <1>4, <2>1, ConcatEmptySeq
<1>6. WorkerOK'
  BY <1>1, <1>4 DEF WorkerOK, Waiting
<1> QED  BY <1>1, <1>3, <1>5, <1>6 DEF Feed!Restart

\* Every step of the store is a step of the feed or leaves it alone.
LEMMA FeedSimulation ==
    ASSUME Inv, WorkerOK, Feed!Connected, [Next]_vars
    PROVE  WorkerOK' /\ [Feed!Next]_(Feed!vars)
<1>1. LockOK /\ LockOK' /\ sync \in [Syncs -> Call]
  <2>1. Inv'
    BY NextInv
  <2> QED  BY <2>1 DEF Inv, CallOK
<1>2. ASSUME UNCHANGED <<reorgCh, reorgWorker>> PROVE WorkerOK'
  BY <1>2 DEF WorkerOK
<1>3. ASSUME NEW b \in Blocks, AddToTipSetTracker(b) PROVE WorkerOK' /\ [Feed!Next]_(Feed!vars)
  <2>1. UNCHANGED <<heaviest, sync, reorgCh, reorgWorker, view>>
    BY <1>3, ZenonT(60) DEF AddToTipSetTracker, headVars
  <2>2. feedHead' = feedHead
    BY <1>1, <2>1, SameFeedHead
  <2> QED  BY <1>2, <2>1, <2>2, SameFeed
<1>4. ASSUME NEW s \in Syncs, NEW c, sync' = [sync EXCEPT ![s] = c], c.pc # "sent", sync[s].pc # "sent",
             UNCHANGED <<heaviest, reorgCh, reorgWorker, view>>
      PROVE  WorkerOK' /\ [Feed!Next]_(Feed!vars)
  <2>1. \A t \in Syncs : sync'[t].pc = "sent" <=> sync[t].pc = "sent"
    BY <1>1, <1>4
  <2>2. \A t \in Syncs : sync[t].pc = "sent" => sync'[t].ts = sync[t].ts
    BY <1>1, <1>4
  <2>3. feedHead' = feedHead
    BY <1>1, <1>4, <2>1, <2>2, SameFeedHead
  <2> QED  BY <1>2, <1>4, <2>3, SameFeed
<1>5. ASSUME NEW s \in Syncs, NEW ts \in TipSets, PutTipSet(s, ts)
      PROVE  WorkerOK' /\ [Feed!Next]_(Feed!vars)
  <2> DEFINE c == [pc |-> "weigh", ts |-> expandTipset(FirstBlock(ts)), set |-> FALSE]
  <2>1. sync' = [sync EXCEPT ![s] = c] /\ sync[s] = Idle /\ UNCHANGED <<heaviest, reorgCh, reorgWorker, view>>
    BY <1>5, ZenonT(60) DEF PutTipSet, headVars
  <2>2. c.pc # "sent" /\ sync[s].pc # "sent"
    BY <2>1 DEF Idle
  <2> HIDE DEF c
  <2> QED  BY <1>4, <2>1, <2>2, ZenonT(60)
<1>6. ASSUME NEW s \in Syncs, NEW ts \in TipSets, SetHead(s, ts)
      PROVE  WorkerOK' /\ [Feed!Next]_(Feed!vars)
  <2> DEFINE c == [pc |-> "send", ts |-> ts, set |-> TRUE]
  <2>1. sync' = [sync EXCEPT ![s] = c] /\ sync[s] = Idle /\ UNCHANGED <<heaviest, reorgCh, reorgWorker, view>>
    BY <1>6, ZenonT(60) DEF SetHead, headVars
  <2>2. c.pc # "sent" /\ sync[s].pc # "sent"
    BY <2>1 DEF Idle
  <2> HIDE DEF c
  <2> QED  BY <1>4, <2>1, <2>2, ZenonT(60)
<1>7. ASSUME NEW s \in Syncs, MaybeTakeHeavierTipSet(s) PROVE WorkerOK' /\ [Feed!Next]_(Feed!vars)
  <2> DEFINE c == IF IsHeavier(sync[s].ts) THEN [sync[s] EXCEPT !.pc = "send"] ELSE Idle
  <2>1. sync' = [sync EXCEPT ![s] = c] /\ sync[s].pc = "weigh" /\ UNCHANGED <<heaviest, reorgCh, reorgWorker, view>>
    BY <1>7 DEF MaybeTakeHeavierTipSet, headVars
  <2>2. c.pc # "sent"
    BY <1>1 DEF Call, Idle
  <2> HIDE DEF c
  <2> QED  BY <1>4, <2>1, <2>2, ZenonT(60)
<1>8. ASSUME NEW s \in Syncs, sendReorg(s) PROVE WorkerOK' /\ [Feed!Next]_(Feed!vars)
  BY <1>1, <1>8, SendMoves DEF Feed!Next
<1>9. ASSUME NEW s \in Syncs, setHeaviest(s) PROVE WorkerOK' /\ [Feed!Next]_(Feed!vars)
  <2>1. /\ sync[s].pc = "sent" /\ heaviest' = sync[s].ts /\ sync' = [sync EXCEPT ![s] = Idle]
        /\ UNCHANGED <<reorgCh, reorgWorker, view>>
    BY <1>9 DEF setHeaviest
  <2>2. \A t \in Syncs : sync'[t].pc # "sent"
    BY <1>1, <2>1 DEF Idle, LockOK, Holding
  <2>3. feedHead' = feedHead
    BY <1>1, <2>1, <2>2, FeedHead, FeedHeadNext
  <2> QED  BY <1>2, <2>1, <2>3, SameFeed
<1>10. ASSUME takeReorg PROVE WorkerOK' /\ [Feed!Next]_(Feed!vars)
  <2>1. WorkerOK' /\ feedChanges' = feedChanges /\ UNCHANGED <<sync, heaviest, view>>
    BY <1>10, TakeKeepsFeed
  <2>2. feedHead' = feedHead
    BY <1>1, <2>1, SameFeedHead
  <2> QED  BY <2>1, <2>2 DEF Feed!vars
<1>11. ASSUME hcnf PROVE WorkerOK' /\ [Feed!Next]_(Feed!vars)
  <2>1. /\ reorgWorker.next = "hcnf" /\ reorgWorker' = [reorgWorker EXCEPT !.next = "callback"]
        /\ UNCHANGED <<sync, heaviest, reorgCh, view>>
    BY <1>11 DEF hcnf, headVars
  <2>2. reorgWorker'.next # "select" /\ reorgWorker'.old = reorgWorker.old /\ reorgWorker'.new = reorgWorker.new
    BY <2>1 DEF WorkerOK
  <2>3. WorkerOK'
    BY <2>1, <2>2 DEF WorkerOK
  <2>4. feedChanges' = feedChanges
    BY <2>1, <2>2 DEF feedChanges
  <2>5. feedHead' = feedHead
    BY <1>1, <2>1, SameFeedHead
  <2> QED  BY <2>1, <2>3, <2>4, <2>5 DEF Feed!vars
<1>12. ASSUME callback PROVE WorkerOK' /\ [Feed!Next]_(Feed!vars)
  <2>1. UNCHANGED <<sync, heaviest>>
    BY <1>12 DEF callback, headVars
  <2>2. feedHead' = feedHead
    BY <1>1, <2>1, SameFeedHead
  <2> QED  BY <1>12, <2>2, CallbackDelivers DEF Feed!Next
<1>13. ASSUME SubHeadChanges \/ subCurrent \/ UNCHANGED vars PROVE WorkerOK' /\ [Feed!Next]_(Feed!vars)
  <2>1. UNCHANGED <<heaviest, sync, reorgCh, reorgWorker, view>>
    BY <1>13 DEF SubHeadChanges, subCurrent, vars, headVars
  <2>2. feedHead' = feedHead
    BY <1>1, <2>1, SameFeedHead
  <2> QED  BY <1>2, <2>1, <2>2, SameFeed
<1>14. ASSUME Crash PROVE WorkerOK' /\ [Feed!Next]_(Feed!vars)
  BY <1>1, <1>14, CrashRestarts DEF Feed!Next
<1> QED  BY <1>3, <1>5, <1>6, <1>7, <1>8, <1>9, <1>10, <1>11, <1>12, <1>13, <1>14 DEF Next

\* A store opened on its genesis starts as the feed does.
LEMMA FeedInit == Init => WorkerOK /\ Feed!Init
<1> SUFFICES ASSUME Init PROVE WorkerOK /\ Feed!Init
  OBVIOUS
<1>1. LockOK /\ \A s \in Syncs : sync[s].pc # "sent"
  BY DEF Init, Idle, LockOK, Holding
<1>2. feedHead = heaviest /\ heaviest \in TipSets
  BY <1>1, FeedHead, GenesisTipSet DEF Init
<1>3. <<>> \in Seq(Pairs)
  BY EmptySeq
<1>4. feedChanges = <<>>
  <2>1. feedChanges = <<>> \o <<>>
    BY DEF Init, feedChanges, Waiting
  <2> QED  BY <1>3, <2>1, ConcatEmptySeq
<1> QED  BY <1>2, <1>3, <1>4 DEF Init, WorkerOK, Waiting, Feed!Init

\* Moving the head, delivering a change and restarting keep the feed without a hole.
LEMMA FeedStep == Feed!TypeOK /\ Feed!Connected /\ [Feed!Next]_(Feed!vars) => Feed!TypeOK' /\ Feed!Connected'
<1> SUFFICES ASSUME Feed!TypeOK, Feed!Connected, [Feed!Next]_(Feed!vars) PROVE Feed!TypeOK' /\ Feed!Connected'
  OBVIOUS
<1>1. CASE Feed!Move
  <2>1. PICK ts \in TipSets : feedHead' = ts /\ feedChanges' = Append(feedChanges, <<feedHead, ts>>) /\ view' = view
    BY <1>1 DEF Feed!Move
  <2>2. Feed!TypeOK'
    BY <2>1 DEF Feed!TypeOK
  <2>3. /\ feedChanges' # <<>>
        /\ Len(feedChanges') = Len(feedChanges) + 1
        /\ feedChanges'[Len(feedChanges')] = <<feedHead, ts>>
        /\ \A i \in 1 .. Len(feedChanges) : feedChanges'[i] = feedChanges[i]
    BY <2>1 DEF Feed!TypeOK
  <2>4. Len(feedChanges) \in Nat /\ (feedChanges # <<>> => Len(feedChanges) >= 1)
    BY DEF Feed!TypeOK
  <2>5. feedChanges'[1][1] = view'
    BY <2>1, <2>3, <2>4 DEF Feed!Connected
  <2>6. ASSUME NEW i \in 1 .. Len(feedChanges') - 1 PROVE feedChanges'[i][2] = feedChanges'[i + 1][1]
    <3>1. CASE i = Len(feedChanges)
      BY <3>1, <2>3, <2>4, <2>6 DEF Feed!Connected
    <3>2. CASE i < Len(feedChanges)
      BY <3>2, <2>3, <2>4, <2>6 DEF Feed!Connected
    <3> QED  BY <3>1, <3>2, <2>3, <2>4, <2>6
  <2> QED  BY <2>1, <2>2, <2>3, <2>5, <2>6 DEF Feed!Connected
<1>2. CASE Feed!Deliver
  <2>1. feedChanges # <<>> /\ view' = Head(feedChanges)[2] /\ feedChanges' = Tail(feedChanges) /\ feedHead' = feedHead
    BY <1>2 DEF Feed!Deliver
  <2>2. Head(feedChanges) = feedChanges[1] /\ feedChanges[1] \in TipSets \X TipSets
    BY <2>1 DEF Feed!TypeOK
  <2>3. Feed!TypeOK'
    <3>1. feedChanges' \in Seq(TipSets \X TipSets)
      BY <2>1 DEF Feed!TypeOK
    <3>2. feedChanges[1][2] \in TipSets
      BY <2>2
    <3> QED  BY <2>1, <2>2, <3>1, <3>2 DEF Feed!TypeOK
  <2>4. /\ Len(feedChanges) \in Nat /\ Len(feedChanges) >= 1
        /\ Len(feedChanges') = Len(feedChanges) - 1
        /\ \A i \in 1 .. Len(feedChanges') : feedChanges'[i] = feedChanges[i + 1]
    BY <2>1 DEF Feed!TypeOK
  <2>5. feedChanges' = <<>> => view' = feedHead'
    <3> HAVE feedChanges' = <<>>
    <3>1. Len(feedChanges') = 0
      OBVIOUS
    <3>2. Len(feedChanges) = 1
      BY <3>1, <2>4
    <3> QED  BY <3>2, <2>1, <2>2 DEF Feed!Connected
  <2>6. feedChanges' # <<>> => feedChanges'[1][1] = view' /\ feedChanges'[Len(feedChanges')][2] = feedHead'
    <3> HAVE feedChanges' # <<>>
    <3>1. Len(feedChanges') >= 1
      BY <2>3 DEF Feed!TypeOK
    <3> QED  BY <3>1, <2>1, <2>2, <2>4 DEF Feed!Connected
  <2>7. \A i \in 1 .. Len(feedChanges') - 1 : feedChanges'[i][2] = feedChanges'[i + 1][1]
    BY <2>4 DEF Feed!Connected
  <2> QED  BY <2>3, <2>5, <2>6, <2>7 DEF Feed!Connected
<1>3. CASE Feed!Restart
  BY <1>3 DEF Feed!Restart, Feed!TypeOK, Feed!Connected
<1>4. CASE UNCHANGED Feed!vars
  BY <1>4 DEF Feed!vars, Feed!TypeOK, Feed!Connected
<1> QED  BY <1>1, <1>2, <1>3, <1>4 DEF Feed!Next

\* FeedInv is an inductive invariant of the chain store.
THEOREM StoreFeedInvariant == Spec => []FeedInv
<1>1. Init => FeedInv
  <2>1. Feed!Init => Feed!TypeOK /\ Feed!Connected
    BY DEF Feed!Init, Feed!TypeOK, Feed!Connected
  <2> QED  BY <2>1, InitInv, FeedInit DEF FeedInv
<1>2. FeedInv /\ [Next]_vars => FeedInv'
  <2> SUFFICES ASSUME FeedInv, [Next]_vars PROVE FeedInv'
    OBVIOUS
  <2>1. WorkerOK' /\ [Feed!Next]_(Feed!vars)
    BY FeedSimulation DEF FeedInv
  <2>2. Feed!TypeOK' /\ Feed!Connected'
    BY <2>1, FeedStep DEF FeedInv
  <2> QED  BY <2>1, <2>2, NextInv DEF FeedInv
<1> QED  BY <1>1, <1>2, PTL DEF Spec

\* The feed of head changes has no hole: whatever the head does, the changes that
\* takeHeaviestTipSet queued and reorgWorker has not delivered lead from the
\* callback's view to the head.
THEOREM StoreFeedConnected == Spec => []Feed!Connected
<1>1. FeedInv => Feed!Connected
  BY DEF FeedInv
<1> QED  BY <1>1, StoreFeedInvariant, PTL

\* What the callback registered with SubscribeHeadChanges sees is the abstract feed:
\* every change of the head is delivered to it once and in order, through crashes,
\* however many goroutines move the head, and whatever the capacity of reorgCh.
THEOREM StoreImplementsFeed == Spec => ImplementsFeed
<1>1. Init => Feed!Init
  BY FeedInit
<1>2. FeedInv /\ [Next]_vars => [Feed!Next]_(Feed!vars)
  BY FeedSimulation DEF FeedInv
<1> QED  BY <1>1, <1>2, StoreFeedInvariant, PTL DEF Spec, ImplementsFeed, Feed!Spec

\* ReorgOps and reorgWorker hand out the tipsets that are left and entered and no
\* other, each list in the order of the chain, for every tree of tipsets.
THEOREM StoreReorgPath == Spec => []ReorgPath
<1>1. FeedInv => ReorgPath
  <2>1. CASE reorgWorker.next = "select"
    BY <2>1 DEF ReorgPath
  <2>2. CASE reorgWorker.next # "select"
    BY <2>2, WorkerPath DEF FeedInv, WorkerOK
  <2> QED  BY <2>1, <2>2
<1> QED  BY <1>1, StoreFeedInvariant, PTL
=============================================================================
