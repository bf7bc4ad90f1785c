----------------------------- MODULE SetLemmas -----------------------------
(***************************************************************************)
(* Least and greatest elements of sets of natural numbers, and functions   *)
(* defined by recursion on a measure, for the proofs about the components. *)
(***************************************************************************)
EXTENDS Integers, FiniteSetsExt, FiniteSetTheorems, WellFoundedInduction, TLAPS

\* the time limit of the SMT solver covers the preparation of the next obligations
USE SMTT(60)

\* The order of the natural numbers is well-founded.
LEMMA NatOrderWellFounded ==
    \E R : IsWellFoundedOn(R, Nat) /\ \A m, n \in Nat : m < n => <<m, n>> \in R
<1>1. \A m, n \in Nat : m < n => <<m, n>> \in OpToRel(<, Nat)
  BY DEF OpToRel
<1> QED
  BY <1>1, NatLessThanWellFounded, ZenonT(60)

\* Every nonempty set of natural numbers has a least one.
LEMMA LeastElement ==
    ASSUME NEW S \in SUBSET Nat, S # {}
    PROVE  \E n \in S : \A m \in S : n <= m
<1>1. PICK R : IsWellFoundedOn(R, Nat) /\ \A m, n \in Nat : m < n => <<m, n>> \in R
  BY NatOrderWellFounded
<1>2. S \subseteq Nat
  OBVIOUS
<1>3. PICK n \in S : \A m \in S : ~ (<<m, n>> \in R)
  <2>1. IsWellFoundedOn(R, Nat)
    BY <1>1
  <2> QED
    BY <1>2, <2>1, WFMin, ZenonT(60)
<1>4. \A m \in S : ~ (m < n)
  BY <1>1, <1>2, <1>3, ZenonT(60)
<1> QED
  BY <1>2, <1>4

\* A finite set of natural numbers is bounded: the smallest finite set without a
\* bound would lose one element and keep having none.
LEMMA FiniteIsBounded ==
    ASSUME NEW S \in SUBSET Nat, IsFiniteSet(S)
    PROVE  \E b \in Nat : \A n \in S : n <= b
<1> DEFINE Bounded(T) == \E b \in Nat : \A n \in T : n <= b
           Sizes == {k \in Nat : \E T \in SUBSET Nat :
                        IsFiniteSet(T) /\ Cardinality(T) = k /\ ~ Bounded(T)}
<1>1. SUFFICES Sizes = {}
  <2>1. Cardinality(S) \in Nat
    BY FS_CardinalityType
  <2>2. Bounded(S)
    BY <1>1, <2>1
  <2> QED
    BY <2>2
<1>2. SUFFICES ASSUME Sizes # {}
               PROVE  FALSE
  OBVIOUS
<1>3. Sizes \in SUBSET Nat
  OBVIOUS
<1> HIDE DEF Sizes
<1>4. PICK k \in Sizes : \A j \in Sizes : k <= j
  BY <1>2, <1>3, LeastElement
<1> USE DEF Sizes
<1>5. PICK T \in SUBSET Nat : IsFiniteSet(T) /\ Cardinality(T) = k /\ ~ Bounded(T)
  BY <1>4
<1>6. T # {}
  <2>1. T = {} => Bounded(T)
    BY DEF Bounded
  <2> QED
    BY <1>5, <2>1
<1>7. PICK x \in T : TRUE
  BY <1>6, ZenonT(60)
<1>8. IsFiniteSet(T \ {x}) /\ Cardinality(T \ {x}) = k - 1
  BY <1>5, <1>7, FS_RemoveElement
<1>9. k - 1 \in Nat
  BY <1>8, FS_CardinalityType
<1>10. Bounded(T \ {x})
  <2>1. k - 1 \notin Sizes
    BY <1>4, <1>9, <1>3
  <2> QED
    BY <1>8, <1>9, <2>1
<1>11. PICK b \in Nat : \A n \in T \ {x} : n <= b
  BY <1>10
<1>12. Bounded(T)
  <2>1. CASE x <= b
    BY <1>11, <2>1
  <2>2. CASE b < x
    BY <1>5, <1>7, <1>11, <2>2
  <2> QED
    BY <1>5, <1>7, <2>1, <2>2
<1> QED
  BY <1>5, <1>12

\* Max returns the greatest element of a finite, nonempty set of natural numbers.
LEMMA MaxOfFinite ==
    ASSUME NEW S \in SUBSET Nat, IsFiniteSet(S), S # {}
    PROVE  Max(S) \in S /\ \A n \in S : n <= Max(S)
<1> DEFINE B == {b \in Nat : \A n \in S : n <= b}
<1>1. B \in SUBSET Nat /\ B # {}
  BY FiniteIsBounded
<1>2. PICK b \in B : \A c \in B : b <= c
  BY <1>1, LeastElement, ZenonT(60)
<1>3. b \in S
  <2>1. SUFFICES ASSUME b \notin S
                 PROVE  FALSE
    OBVIOUS
  <2>2. PICK x \in S : TRUE
    BY ZenonT(60)
  <2>3. \A n \in S : n < b
    BY <1>2, <2>1
  <2>4. b - 1 \in B
    BY <1>2, <2>2, <2>3
  <2> QED
    BY <1>2, <2>4
<1>4. \E x \in S : \A y \in S : x >= y
  BY <1>2, <1>3
<1>5. Max(S) \in S /\ \A y \in S : Max(S) >= y
  BY <1>4, ZenonT(60) DEF Max
<1> QED
  BY <1>5

\* The image of a finite set under a function is finite.
LEMMA ImageIsFinite ==
    ASSUME NEW S, IsFiniteSet(S), NEW f
    PROVE  IsFiniteSet({f[x] : x \in S})
<1> DEFINE T == {f[x] : x \in S}
           h == [x \in S |-> f[x]]
<1>1. h \in Surjection(S, T)
  BY DEF Surjection
<1> QED
  BY <1>1, FS_Surjection

-----------------------------------------------------------------------------
\* step gives a function's value at x from its values at points of smaller measure
Determines(S, V, m, step) ==
    /\ V # {} /\ m \in [S -> Nat] /\ step \in [S \X [S -> V] -> V]
    /\ \A x \in S : \A f, g \in [S -> V] :
           (\A y \in S : m[y] < m[x] => f[y] = g[y]) => step[<<x, f>>] = step[<<x, g>>]

Solution(S, V, step, f) == f \in [S -> V] /\ \A x \in S : f[x] = step[<<x, f>>]

\* Recursion on a measure: such a step has a solution.
LEMMA RecursiveFunction ==
    ASSUME NEW S, NEW V, NEW m, NEW step, Determines(S, V, m, step)
    PROVE  \E f : Solution(S, V, step, f)
<1> USE DEF Determines
<1> DEFINE Solves(f, n) == \A x \in S : m[x] < n => f[x] = step[<<x, f>>]
           Approx(n) == {f \in [S -> V] : Solves(f, n)}
<1>1. \A n \in Nat : Approx(n) # {}
  <2> DEFINE Bad == {n \in Nat : Approx(n) = {}}
  <2>1. SUFFICES ASSUME Bad # {} PROVE FALSE
    BY ZenonT(60)
  <2>2. Bad \in SUBSET Nat
    OBVIOUS
  <2> HIDE DEF Bad
  <2>3. PICK n \in Bad : \A k \in Bad : n <= k
    BY <2>1, <2>2, LeastElement
  <2> USE DEF Bad
  <2>4. n \in Nat /\ Approx(n) = {}
    BY <2>3, ZenonT(60)
  <2>5. CASE n = 0
    <3>1. PICK v \in V : TRUE
      OBVIOUS
    <3>2. [x \in S |-> v] \in [S -> V]
      OBVIOUS
    <3>3. Solves([x \in S |-> v], 0)
      OBVIOUS
    <3> QED  BY <2>4, <2>5, <3>2, <3>3, ZenonT(60)
  <2>6. CASE n > 0
    <3>1. n - 1 \in Nat /\ n - 1 \notin Bad
      <4> HIDE DEF Bad
      <4>1. n \in Nat
        BY <2>4
      <4> QED  BY ONLY <4>1, <2>3, <2>6, SMTT(60)
    <3>2. PICK f \in [S -> V] : Solves(f, n - 1)
      BY <3>1, ZenonT(60)
    <3> DEFINE g == [x \in S |-> IF m[x] < n - 1 THEN f[x] ELSE step[<<x, f>>]]
    <3>3. g \in [S -> V]
      OBVIOUS
    <3>4. ASSUME NEW x \in S, m[x] < n PROVE g[x] = step[<<x, g>>]
      <4>0. m[x] \in Nat
        OBVIOUS
      <4>1. m[x] \in Nat /\ (m[x] < n - 1 \/ m[x] = n - 1)
        BY ONLY <4>0, <3>4, <2>4, SMTT(60)
      <4>2. \A y \in S : m[y] < m[x] => f[y] = g[y]
        BY <4>1, <3>1
      <4>3. step[<<x, f>>] = step[<<x, g>>]
        <5> HIDE DEF g
        <5> QED  BY <3>3, <4>2, ZenonT(60)
      <4> QED  BY <3>2, <4>1, <4>3
    <3>5. Solves(g, n)
      <4> HIDE DEF g
      <4> QED  BY <3>4, ZenonT(60)
    <3> HIDE DEF g
    <3> QED  BY <2>4, <3>3, <3>5
  <2> QED  BY <2>4, <2>5, <2>6
<1>2. ASSUME NEW n \in Nat, NEW k \in Nat, NEW f \in Approx(n), NEW g \in Approx(k),
             NEW x \in S, m[x] < n, m[x] < k
      PROVE  f[x] = g[x]
  <2> DEFINE D == {y \in S : m[y] < n /\ m[y] < k /\ f[y] # g[y]}
             M == {m[y] : y \in D}
  <2>1. SUFFICES ASSUME D # {} PROVE FALSE
    BY <1>2
  <2>2. M \in SUBSET Nat /\ M # {}
    <3>1. D \subseteq S
      OBVIOUS
    <3> HIDE DEF D
    <3>2. \A y \in D : m[y] \in Nat
      BY <3>1
    <3> QED  BY ONLY <2>1, <3>2, SMTT(60)
  <2> HIDE DEF M
  <2>3. PICK i \in M : \A j \in M : i <= j
    BY <2>2, LeastElement
  <2> USE DEF M
  <2>4. PICK y \in D : i = m[y]
    BY <2>3
  <2>5. ASSUME NEW z \in S, m[z] < m[y] PROVE f[z] = g[z]
    <3>1. z \notin D
      <4>1. z \in D => m[z] \in M
        OBVIOUS
      <4>2. m[z] \in Nat /\ m[y] \in Nat
        BY <2>4
      <4> HIDE DEF D, M
      <4> QED  BY ONLY <4>1, <4>2, <2>3, <2>4, <2>5, SMTT(60)
    <3>2. m[z] \in Nat /\ m[y] \in Nat /\ m[z] < n /\ m[z] < k
      BY <2>4, <2>5
    <3> QED  BY <3>1, <3>2
  <2>6. step[<<y, f>>] = step[<<y, g>>]
    BY <2>4, <2>5, ZenonT(60)
  <2>7. f[y] = step[<<y, f>>] /\ g[y] = step[<<y, g>>]
    BY <2>4
  <2> QED  BY <2>4, <2>6, <2>7
<1> DEFINE A(n) == CHOOSE f : f \in Approx(n)
           F == [x \in S |-> A(m[x] + 1)[x]]
<1>3. \A n \in Nat : A(n) \in Approx(n)
  <2> HIDE DEF Approx
  <2> QED  BY <1>1
<1> HIDE DEF A
<1>4. ASSUME NEW x \in S
      PROVE  /\ A(m[x] + 1) \in [S -> V] /\ A(m[x] + 1) \in Approx(m[x] + 1)
             /\ A(m[x] + 1)[x] = step[<<x, A(m[x] + 1)>>]
  <2>1. m[x] + 1 \in Nat /\ m[x] < m[x] + 1
    OBVIOUS
  <2>2. A(m[x] + 1) \in Approx(m[x] + 1)
    BY <2>1, <1>3, ZenonT(60)
  <2> QED  BY <2>1, <2>2, ZenonT(60)
<1>5. F \in [S -> V]
  <2>1. \A x \in S : A(m[x] + 1)[x] \in V
    BY <1>4, ZenonT(60)
  <2> QED  BY <2>1
<1>6. ASSUME NEW x \in S PROVE F[x] = step[<<x, F>>]
  <2>1. \A y \in S : m[y] < m[x] => A(m[x] + 1)[y] = F[y]
    <3> SUFFICES ASSUME NEW y \in S, m[y] < m[x] PROVE A(m[x] + 1)[y] = A(m[y] + 1)[y]
      OBVIOUS
    <3>1. m[x] + 1 \in Nat /\ m[y] + 1 \in Nat /\ m[y] < m[x] + 1 /\ m[y] < m[y] + 1
      OBVIOUS
    <3>2. A(m[x] + 1) \in Approx(m[x] + 1) /\ A(m[y] + 1) \in Approx(m[y] + 1)
      BY <1>4, ZenonT(60)
    <3> HIDE DEF Approx
    <3> QED  BY <1>2, <3>1, <3>2
  <2>2. step[<<x, A(m[x] + 1)>>] = step[<<x, F>>]
    <3> HIDE DEF F
    <3> QED  BY <1>4, <1>5, <2>1, ZenonT(60)
  <2>3. A(m[x] + 1)[x] = step[<<x, A(m[x] + 1)>>]
    BY <1>4, ZenonT(60)
  <2> QED  BY <2>2, <2>3
<1> HIDE DEF F
<1> QED  BY <1>5, <1>6 DEF Solution

\* P gives the parent in a tree in which parents are lower than their children
Tree(S, None, P, h) ==
    /\ P \in [S -> S \cup {None}] /\ h \in [S -> Nat]
    /\ \A x \in S : P[x] # None => P[x] \in S /\ h[P[x]] < h[x]

\* C gives the sets of ancestors
Ancestry(S, None, P, C) == C = [x \in S |-> {x} \cup (IF P[x] = None THEN {} ELSE C[P[x]])]

\* In a tree where parents are lower than their children, the sets of ancestors exist.
LEMMA LineageExists ==
    ASSUME NEW S, NEW None, NEW P, NEW h, Tree(S, None, P, h)
    PROVE  \E C : Ancestry(S, None, P, C)
<1> USE DEF Tree, Ancestry
<1> DEFINE V == SUBSET S
           step == [p \in S \X [S -> V] |-> {p[1]} \cup (IF P[p[1]] = None THEN {} ELSE p[2][P[p[1]]])]
<1>1. ASSUME NEW x \in S, NEW f \in [S -> V]
      PROVE  /\ step[<<x, f>>] = {x} \cup (IF P[x] = None THEN {} ELSE f[P[x]])
             /\ step[<<x, f>>] \in V
  <2>1. <<x, f>> \in S \X [S -> V]
    BY <1>1
  <2>2. step[<<x, f>>] = {x} \cup (IF P[x] = None THEN {} ELSE f[P[x]])
    BY <2>1
  <2>3. P[x] # None => f[P[x]] \in V
    BY <1>1
  <2> QED  BY <2>2, <2>3
<1>2. step \in [S \X [S -> V] -> V]
  <2>1. \A p \in S \X [S -> V] : step[p] \in V
    <3> HIDE DEF step, V
    <3> QED  BY <1>1
  <2>2. step = [p \in S \X [S -> V] |-> step[p]]
    OBVIOUS
  <2> HIDE DEF step, V
  <2> QED  BY <2>1, <2>2, ZenonT(60)
<1>3. V # {}
  OBVIOUS
<1> HIDE DEF step, V
<1>4. \A x \in S : \A f, g \in [S -> V] :
          (\A y \in S : h[y] < h[x] => f[y] = g[y]) => step[<<x, f>>] = step[<<x, g>>]
  <2> TAKE x \in S
  <2> TAKE f, g \in [S -> V]
  <2> HAVE \A y \in S : h[y] < h[x] => f[y] = g[y]
  <2>1. P[x] # None => f[P[x]] = g[P[x]]
    OBVIOUS
  <2>2. /\ step[<<x, f>>] = {x} \cup (IF P[x] = None THEN {} ELSE f[P[x]])
        /\ step[<<x, g>>] = {x} \cup (IF P[x] = None THEN {} ELSE g[P[x]])
    BY <1>1
  <2> QED  BY ONLY <2>1, <2>2, SMTT(60)
<1>5. PICK C : Solution(S, V, step, C)
  <2>1. Determines(S, V, h, step)
    BY <1>2, <1>3, <1>4, ZenonT(60) DEF Determines
  <2> QED  BY <2>1, RecursiveFunction, ZenonT(60)
<1>6. \A x \in S : C[x] = {x} \cup (IF P[x] = None THEN {} ELSE C[P[x]])
  BY ONLY <1>1, <1>5, ZenonT(60) DEF Solution
<1>7. C = [x \in S |-> {x} \cup (IF P[x] = None THEN {} ELSE C[P[x]])]
  BY <1>5, <1>6 DEF Solution
<1> QED  BY <1>7

\* What the set of ancestors of x holds: x, members that are lower, with their ancestors.
LEMMA Lineage ==
    ASSUME NEW S, NEW None, NEW P, NEW h, Tree(S, None, P, h),
           NEW C, Ancestry(S, None, P, C), NEW x \in S
    PROVE  /\ C[x] \subseteq S /\ x \in C[x]
           /\ \A y \in C[x] : /\ y # x => h[y] < h[x]
                              /\ C[y] \subseteq C[x]
                              /\ P[y] # None => P[y] \in C[x]
<1> DEFINE Fits(z) == /\ C[z] \subseteq S
                      /\ \A y \in C[z] : /\ y # z => h[y] < h[z]
                                         /\ C[y] \subseteq C[z]
                                         /\ P[y] # None => P[y] \in C[z]
           Bad == {z \in S : ~ Fits(z)}
           M == {h[z] : z \in Bad}
<1> USE DEF Tree
<1>1. \A z \in S : C[z] = {z} \cup (IF P[z] = None THEN {} ELSE C[P[z]])
  BY ZenonT(60) DEF Ancestry
<1>2. Bad = {}
  <2>1. SUFFICES ASSUME Bad # {} PROVE FALSE
    OBVIOUS
  <2>2. M \in SUBSET Nat /\ M # {}
    <3>1. Bad \subseteq S
      OBVIOUS
    <3> HIDE DEF Bad
    <3> QED  BY <2>1, <3>1
  <2> HIDE DEF M
  <2>3. PICK i \in M : \A j \in M : i <= j
    BY <2>2, LeastElement
  <2> USE DEF M
  <2>4. PICK z \in Bad : i = h[z]
    BY <2>3
  <2>5. z \in S /\ C[z] = {z} \cup (IF P[z] = None THEN {} ELSE C[P[z]])
    BY <1>1
  <2>6. CASE P[z] = None
    <3>1. C[z] = {z}
      BY <2>5, <2>6
    <3> QED  BY <2>4, <2>5, <2>6, <3>1
  <2>7. CASE P[z] # None
    <3>1. P[z] \in S /\ h[P[z]] < h[z]
      BY <2>5, <2>7
    <3>2. P[z] \notin Bad
      <4>1. P[z] \in Bad => h[P[z]] \in M
        OBVIOUS
      <4>2. h[P[z]] \in Nat /\ h[z] \in Nat
        BY <3>1, <2>5
      <4> HIDE DEF M, Bad
      <4> QED  BY ONLY <2>3, <2>4, <3>1, <4>1, <4>2, SMTT(60)
    <3>3. Fits(P[z])
      BY <3>1, <3>2
    <3>4. C[z] = {z} \cup C[P[z]] /\ P[z] \in C[P[z]]
      <4>1. C[P[z]] = {P[z]} \cup (IF P[P[z]] = None THEN {} ELSE C[P[P[z]]])
        BY <1>1, <3>1
      <4> QED  BY <2>5, <2>7, <4>1
    <3>5. ASSUME NEW y \in C[P[z]] PROVE h[y] < h[z]
      <4>1. y \in S /\ h[y] \in Nat /\ h[z] \in Nat /\ h[P[z]] \in Nat
        BY <3>1, <3>3, <2>5
      <4>2. y # P[z] => h[y] < h[P[z]]
        BY <3>3
      <4> QED  BY ONLY <3>1, <4>1, <4>2, SMTT(60)
    <3>6. C[z] \subseteq S
      BY <3>3, <3>4, <2>5
    <3>7. \A y \in C[z] : C[y] \subseteq C[z]
      BY <3>3, <3>4
    <3>8. \A y \in C[z] : P[y] # None => P[y] \in C[z]
      BY <3>3, <3>4
    <3>9. \A y \in C[z] : y # z => h[y] < h[z]
      BY <3>4, <3>5
    <3>10. Fits(z)
      BY <3>6, <3>7, <3>8, <3>9
    <3> QED  BY <3>10
  <2> QED  BY <2>6, <2>7
<1>3. Fits(x)
  BY <1>2
<1>4. x \in C[x]
  <2>1. C[x] = {x} \cup (IF P[x] = None THEN {} ELSE C[P[x]])
    BY <1>1
  <2> QED  BY <2>1
<1> QED  BY <1>3, <1>4

\* The ancestors of x are in every set that has x and the parents of its members.
LEMMA LineageLeast ==
    ASSUME NEW S, NEW None, NEW P, NEW h, Tree(S, None, P, h),
           NEW C, Ancestry(S, None, P, C), NEW X, NEW x \in S \cap X,
           \A y \in S \cap X : P[y] # None => P[y] \in X
    PROVE  C[x] \subseteq X
<1> DEFINE Bad == {z \in S \cap X : ~ (C[z] \subseteq X)}
           M == {h[z] : z \in Bad}
<1>1. SUFFICES ASSUME Bad # {} PROVE FALSE
  OBVIOUS
<1>2. M \in SUBSET Nat /\ M # {}
  BY <1>1 DEF Tree
<1>3. PICK n \in M : \A k \in M : n <= k
  <2> HIDE DEF M
  <2> QED  BY <1>2, LeastElement
<1>4. PICK z \in Bad : h[z] = n
  BY <1>3
<1>5. z \in S /\ z \in X /\ C[z] = {z} \cup (IF P[z] = None THEN {} ELSE C[P[z]])
  BY <1>4 DEF Ancestry
<1>6. P[z] # None
  BY <1>4, <1>5
<1>7. P[z] \in S /\ P[z] \in X /\ h[P[z]] < h[z] /\ h[P[z]] \in Nat /\ h[z] \in Nat
  BY <1>5, <1>6 DEF Tree
<1>8. P[z] \notin Bad
  BY <1>3, <1>4, <1>7
<1> QED  BY <1>4, <1>5, <1>6, <1>7, <1>8
=============================================================================
