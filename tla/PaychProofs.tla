----------------------------- MODULE PaychProofs -----------------------------
(***************************************************************************)
(* Proofs about the payment channel managers: concurrent calls make one    *)
(* channel, and AllocateLane gives a lane once.                            *)
(***************************************************************************)
EXTENDS Settler, SetLemmas, SequenceTheorems, TLAPS

\* the time limit of the SMT solver covers the preparation of the next obligations
USE SMTT(60)

Voucher == [ch : Nat, lane : Nat, nonce : Nat, amt : Nat, extra : BOOLEAN]
Stored == [voucher : Voucher, proof : BOOLEAN]
Channel == [dir : {"in", "out"}, vouchers : Seq(Stored), nextLane : Nat]
LaneMap == {f \in UNION {[S -> [nonce : Nat, redeemed : Nat]] : S \in SUBSET Nat} : IsFiniteSet(DOMAIN f)}
Actor == [balance : Int, toSend : Int, lanes : LaneMap, settling : BOOLEAN]
Message == [kind : {"create", "funds", "update", "settle"}, ch : Nat, amt : Nat,
            sv : Voucher \cup {<<>>}, st : {"pushed", "ok", "failed"}]
Task == [pc : {"get", "lane", "nonce", "create", "add", "end", "err"}, ch : Nat, lane : Nat, nonce : Nat,
         extra : BOOLEAN, amts : Seq(Nat)]
Lane == [ch : Nat, lane : Nat, used : BOOLEAN]

\* nextLane is above the lanes of the vouchers
ChannelOK(ci) == ci \in Channel /\ \A i \in DOMAIN ci.vouchers : ci.vouchers[i].voucher.lane < ci.nextLane

\* the channels in a node's store are actors; those of the payer are outbound
StoresOK(st) ==
    /\ DOMAIN st = Nodes
    /\ \A n \in Nodes : \A ch \in DOMAIN st[n] :
        ch \in DOMAIN actors /\ ChannelOK(st[n][ch]) /\ (n = "payer" => st[n][ch].dir = "out")

\* channels are kept, and their nextLane does not fall
Grows(s, t) ==
    /\ DOMAIN s \subseteq DOMAIN t
    /\ \A ch \in DOMAIN s : s[ch].nextLane <= t[ch].nextLane

\* t is the sequence s with y at k
Replaced(S, s, k, y, t) ==
    /\ t \in Seq(S) /\ Len(t) = Len(s) /\ DOMAIN t = DOMAIN s
    /\ \A i \in DOMAIN s : t[i] = IF i = k THEN y ELSE s[i]

\* An element of a sequence is replaced.
LEMMA ReplacedIs ==
    ASSUME NEW S, NEW s \in Seq(S), NEW k, NEW y, k \in DOMAIN s => y \in S, NEW t, t = [s EXCEPT ![k] = y]
    PROVE  Replaced(S, s, k, y, t)
<1>1. PICK N \in Nat : N = Len(s)
  OBVIOUS
<1>2. DOMAIN s = 1 .. N /\ s \in [1 .. N -> S]
  BY <1>1
<1>3. t \in [1 .. N -> S]
  BY <1>2, ZenonT(60)
<1>4. t \in Seq(S)
  <2>1. t \in UNION {[1 .. n -> S] : n \in Nat}
    BY <1>3, ZenonT(60)
  <2>2. Seq(S) = UNION {[1 .. n -> S] : n \in Nat}
    BY SeqDef
  <2> QED  BY ONLY <2>1, <2>2, SMTT(60)
<1>5. DOMAIN t = DOMAIN s
  BY <1>2, <1>3, ZenonT(60)
<1>6. Len(t) = Len(s)
  BY <1>1, <1>2, <1>4, <1>5
<1>7. ASSUME NEW i \in DOMAIN s PROVE t[i] = IF i = k THEN y ELSE s[i]
  BY <1>2, ZenonT(60)
<1> QED  BY <1>4, <1>5, <1>6, <1>7, ZenonT(60) DEF Replaced

\* A lane state on chain grows to one.
LEMMA LaneMaps ==
    /\ <<>> \in LaneMap
    /\ \A f \in LaneMap : DOMAIN f \in SUBSET Nat /\ IsFiniteSet(DOMAIN f)
    /\ \A f \in LaneMap, l \in Nat, r \in [nonce : Nat, redeemed : Nat] : put(f, l, r) \in LaneMap
<1>1. <<>> \in LaneMap
  <2>1. DOMAIN <<>> = {} /\ <<>> \in [{} -> [nonce : Nat, redeemed : Nat]]
    OBVIOUS
  <2> QED  BY <2>1, FS_EmptySet, ZenonT(60) DEF LaneMap
<1>2. ASSUME NEW f \in LaneMap PROVE \E S \in SUBSET Nat : f \in [S -> [nonce : Nat, redeemed : Nat]]
  BY ZenonT(60) DEF LaneMap
<1>3. ASSUME NEW f \in LaneMap PROVE DOMAIN f \in SUBSET Nat /\ IsFiniteSet(DOMAIN f)
  <2>1. PICK S \in SUBSET Nat : f \in [S -> [nonce : Nat, redeemed : Nat]]
    BY <1>2, ZenonT(60)
  <2>2. DOMAIN f = S
    BY <2>1, ZenonT(60)
  <2>3. IsFiniteSet(DOMAIN f)
    BY ZenonT(60) DEF LaneMap
  <2> QED  BY <2>2, <2>3, ZenonT(60)
<1>4. ASSUME NEW f \in LaneMap, NEW l \in Nat, NEW r \in [nonce : Nat, redeemed : Nat]
      PROVE  put(f, l, r) \in LaneMap
  <2>1. PICK S \in SUBSET Nat : f \in [S -> [nonce : Nat, redeemed : Nat]]
    BY <1>2
  <2>2. PICK g : g = put(f, l, r)
    BY ZenonT(60)
  <2>3. g \in [S \cup {l} -> [nonce : Nat, redeemed : Nat]]
    <3>1. DOMAIN f = S
      BY <2>1, ZenonT(60)
    <3>2. g = [x \in S \cup {l} |-> IF x = l THEN r ELSE f[x]]
      BY <2>2, <3>1, ZenonT(60) DEF put
    <3>3. \A x \in S : f[x] \in [nonce : Nat, redeemed : Nat]
      BY <2>1, ZenonT(60)
    <3> QED  BY <3>2, <3>3, ZenonT(60)
  <2>4. IsFiniteSet(S \cup {l})
    BY <1>3, <2>1, FS_AddElement
  <2>5. DOMAIN g = S \cup {l} /\ S \cup {l} \in SUBSET Nat
    BY <2>3
  <2> QED  BY <2>2, <2>3, <2>4, <2>5, ZenonT(60) DEF LaneMap
<1> QED  BY <1>1, <1>3, <1>4, ZenonT(60)

\* The channel that trackChannel makes has no vouchers.
LEMMA NewChannelIs ==
    ASSUME NEW ch \in DOMAIN actors, actors \in Seq(Actor), NEW dir \in {"in", "out"}
    PROVE  ChannelOK(newChannel(dir, ch)) /\ newChannel(dir, ch).dir = dir
<1>1. PICK L : L = actors[ch].lanes
  BY ZenonT(60)
<1>2. L \in LaneMap
  <2>1. actors[ch] \in Actor
    OBVIOUS
  <2> QED  BY <1>1, <2>1, ZenonT(60) DEF Actor
<1>3. DOMAIN L \in SUBSET Nat /\ IsFiniteSet(DOMAIN L)
  BY <1>2, LaneMaps, ZenonT(60)
<1>4. PICK M : M = {0} \cup {l + 1 : l \in DOMAIN L}
  BY ZenonT(60)
<1>5. M \in SUBSET Nat /\ M # {}
  BY <1>3, <1>4
<1>6. IsFiniteSet(M)
  <2> DEFINE f == [l \in DOMAIN L |-> l + 1]
  <2>1. IsFiniteSet({f[l] : l \in DOMAIN L})
    BY <1>3, ImageIsFinite, ZenonT(60)
  <2>2. {f[l] : l \in DOMAIN L} = {l + 1 : l \in DOMAIN L}
    BY ZenonT(60)
  <2>3. IsFiniteSet({l + 1 : l \in DOMAIN L} \cup {0})
    BY <2>1, <2>2, FS_AddElement, ZenonT(60)
  <2>4. M = {l + 1 : l \in DOMAIN L} \cup {0}
    BY <1>4, ZenonT(60)
  <2> QED  BY <2>3, <2>4, ZenonT(60)
<1>7. Max(M) \in Nat
  BY <1>5, <1>6, MaxOfFinite, ZenonT(60)
<1>8. newChannel(dir, ch) = [dir |-> dir, vouchers |-> <<>>, nextLane |-> Max(M)]
  BY <1>1, <1>4, ZenonT(60) DEF newChannel
<1> HIDE DEF newChannel
<1> QED  BY <1>7, <1>8 DEF ChannelOK, Channel

\* s becomes t by a change to one channel, or none.
Updated(st, t, n, ch, ci) ==
    /\ DOMAIN t = Nodes
    /\ \A m \in Nodes : m # n => t[m] = st[m]
    /\ DOMAIN t[n] = DOMAIN st[n] \cup {ch}
    /\ \A c \in DOMAIN t[n] : t[n][c] = IF c = ch THEN ci ELSE st[n][c]

\* What the change of one channel keeps.
LEMMA UpdateKeeps ==
    ASSUME NEW st, NEW t, NEW n \in Nodes, NEW ch \in DOMAIN actors, NEW ci,
           StoresOK(st), Updated(st, t, n, ch, ci), ChannelOK(ci), n = "payer" => ci.dir = "out",
           ch \in DOMAIN st[n] => st[n][ch].nextLane <= ci.nextLane
    PROVE  StoresOK(t) /\ \A m \in Nodes : Grows(st[m], t[m])
<1>1. \A m \in Nodes : \A c \in DOMAIN st[m] : st[m][c].nextLane <= st[m][c].nextLane
  <2> SUFFICES ASSUME NEW m \in Nodes, NEW c \in DOMAIN st[m] PROVE st[m][c].nextLane <= st[m][c].nextLane
    OBVIOUS
  <2>1. st[m][c] \in Channel
    BY ZenonT(60) DEF StoresOK, ChannelOK
  <2>2. st[m][c].nextLane \in Nat
    BY <2>1, ZenonT(60) DEF Channel
  <2> QED  BY ONLY <2>2, SMTT(60)
<1>2. StoresOK(t)
  <2>1. ASSUME NEW m \in Nodes, NEW c \in DOMAIN t[m]
        PROVE  c \in DOMAIN actors /\ ChannelOK(t[m][c]) /\ (m = "payer" => t[m][c].dir = "out")
    <3>1. CASE m = n /\ c = ch
      BY <2>1, <3>1, ZenonT(60) DEF Updated
    <3>2. CASE ~ (m = n /\ c = ch)
      <4>1. c \in DOMAIN st[m] /\ t[m][c] = st[m][c]
        BY <2>1, <3>2, ZenonT(60) DEF Updated
      <4> QED  BY <4>1, ZenonT(60) DEF StoresOK
    <3> QED  BY <3>1, <3>2
  <2>2. DOMAIN t = Nodes
    BY ZenonT(60) DEF Updated
  <2> QED  BY <2>1, <2>2, ZenonT(60) DEF StoresOK
<1>3. ASSUME NEW m \in Nodes PROVE Grows(st[m], t[m])
  <2>1. CASE m = n
    BY <1>1, <2>1, ZenonT(60) DEF Grows, Updated
  <2>2. CASE m # n
    BY <1>1, <2>2, ZenonT(60) DEF Grows, Updated
  <2> QED  BY <2>1, <2>2
<1> QED  BY <1>2, <1>3

\* A store that stays the same.
LEMMA SameStores ==
    ASSUME NEW st, StoresOK(st)
    PROVE  \A m \in Nodes : Grows(st[m], st[m])
<1> SUFFICES ASSUME NEW m \in Nodes PROVE Grows(st[m], st[m])
  OBVIOUS
<1>1. ASSUME NEW c \in DOMAIN st[m] PROVE st[m][c].nextLane <= st[m][c].nextLane
  <2>1. st[m][c] \in Channel
    BY ZenonT(60) DEF StoresOK, ChannelOK
  <2>2. st[m][c].nextLane \in Nat
    BY <2>1, ZenonT(60) DEF Channel
  <2> QED  BY ONLY <2>2, SMTT(60)
<1> QED  BY <1>1, ZenonT(60) DEF Grows

\* trackChannel keeps the stores and has the channel of an actor in the end.
LEMMA Tracked ==
    ASSUME NEW t, NEW n \in Nodes, NEW ch, NEW dir \in {"in", "out"}, n = "payer" => dir = "out",
           t = trackChannel(n, ch, dir), actors \in Seq(Actor), StoresOK(stores)
    PROVE  /\ StoresOK(t) /\ \A m \in Nodes : Grows(stores[m], t[m])
           /\ ch \in DOMAIN actors => ch \in DOMAIN t[n]
<1>1. CASE ch \in DOMAIN stores[n] \/ ch \notin DOMAIN actors
  <2>1. t = stores
    BY <1>1, ZenonT(60) DEF trackChannel
  <2> QED  BY <1>1, <2>1, SameStores, ZenonT(60)
<1>2. CASE ch \notin DOMAIN stores[n] /\ ch \in DOMAIN actors
  <2>1. PICK c : c = newChannel(dir, ch)
    BY ZenonT(60)
  <2>2. ChannelOK(c) /\ c.dir = dir
    BY <1>2, <2>1, NewChannelIs, ZenonT(60)
  <2>3. PICK p : p = put(stores[n], ch, c)
    BY ZenonT(60)
  <2>4. t = [stores EXCEPT ![n] = p]
    BY <1>2, <2>1, <2>3, ZenonT(60) DEF trackChannel
  <2>5. DOMAIN p = DOMAIN stores[n] \cup {ch} /\ \A x \in DOMAIN p : p[x] = IF x = ch THEN c ELSE stores[n][x]
    BY <2>3 DEF put
  <2>6. DOMAIN t = Nodes /\ t[n] = p /\ \A m \in Nodes : m # n => t[m] = stores[m]
    <3>1. DOMAIN stores = Nodes
      BY ZenonT(60) DEF StoresOK
    <3> QED  BY <2>4, <3>1
  <2>7. Updated(stores, t, n, ch, c)
    BY <2>5, <2>6, ZenonT(60) DEF Updated
  <2>8. StoresOK(t) /\ \A m \in Nodes : Grows(stores[m], t[m])
    BY <1>2, <2>2, <2>7, UpdateKeeps, ZenonT(60)
  <2> QED  BY <2>5, <2>6, <2>8, ZenonT(60)
<1> QED  BY <1>1, <1>2

\* laneAfter is above the channel's nextLane and the voucher's lane.
LEMMA LaneAfterIs ==
    ASSUME NEW ci \in Channel, NEW sv \in Voucher
    PROVE  laneAfter(ci, sv) \in Nat /\ ci.nextLane <= laneAfter(ci, sv) /\ sv.lane < laneAfter(ci, sv)
<1>1. PICK a \in Nat : a = ci.nextLane
  BY ZenonT(60) DEF Channel
<1>2. PICK b \in Nat : b = sv.lane
  BY ZenonT(60) DEF Voucher
<1>3. PICK M : M = {a, b + 1}
  BY ZenonT(60)
<1>4. M \in SUBSET Nat /\ M # {}
  BY <1>3
<1>5. IsFiniteSet(M)
  <2>1. IsFiniteSet({a})
    BY FS_Singleton, ZenonT(60)
  <2>2. IsFiniteSet({a} \cup {b + 1})
    BY <2>1, FS_AddElement, ZenonT(60)
  <2>3. M = {a} \cup {b + 1}
    BY <1>3
  <2> QED  BY <2>2, <2>3, ZenonT(60)
<1>6. Max(M) \in Nat /\ a <= Max(M) /\ b + 1 <= Max(M)
  BY <1>3, <1>4, <1>5, MaxOfFinite, ZenonT(60)
<1>7. PICK x : x = Max(M)
  BY ZenonT(60)
<1>8. x \in Nat /\ a <= x /\ b < x
  <2>1. x \in Nat /\ a <= x /\ b + 1 <= x
    BY <1>6, <1>7, ZenonT(60)
  <2> QED  BY ONLY <2>1, b \in Nat, SMTT(60)
<1>9. laneAfter(ci, sv) = x
  BY <1>1, <1>2, <1>3, <1>7, ZenonT(60) DEF laneAfter
<1> QED  BY <1>1, <1>2, <1>8, <1>9, ZenonT(60)

\* c is ci with a voucher added, or with a proof for a stored one
OneVoucher(ci, sv, proof, c) ==
    \/ \E k : c = [ci EXCEPT !.vouchers[k].proof = TRUE]
    \/ c = [ci EXCEPT !.vouchers = Append(@, [voucher |-> sv, proof |-> proof]), !.nextLane = laneAfter(ci, sv)]

\* Either leaves a channel one.
LEMMA ChannelGrows ==
    ASSUME NEW ci, ChannelOK(ci), NEW sv \in Voucher, NEW proof \in BOOLEAN, NEW c, OneVoucher(ci, sv, proof, c)
    PROVE  ChannelOK(c) /\ c.dir = ci.dir /\ ci.nextLane <= c.nextLane
<1>1. PICK vs : vs = ci.vouchers
  BY ZenonT(60)
<1>2. ci \in Channel /\ vs \in Seq(Stored) /\ ci.nextLane \in Nat /\ ci.dir \in {"in", "out"}
  BY <1>1 DEF ChannelOK, Channel
<1>3. \A i \in DOMAIN vs : vs[i].voucher.lane < ci.nextLane
  BY <1>1, ZenonT(60) DEF ChannelOK
<1>4. \A i \in DOMAIN vs : vs[i] \in Stored
  BY <1>2
<1>5. ASSUME NEW k, c = [ci EXCEPT !.vouchers[k].proof = TRUE]
      PROVE  ChannelOK(c) /\ c.dir = ci.dir /\ ci.nextLane <= c.nextLane
  <2>1. PICK ws : ws = [vs EXCEPT ![k].proof = TRUE]
    BY ZenonT(60)
  <2>2. c = [ci EXCEPT !.vouchers = ws]
    BY <1>1, <1>5, <2>1
  <2>3. ws \in Seq(Stored) /\ DOMAIN ws = DOMAIN vs /\ \A i \in DOMAIN vs : ws[i].voucher = vs[i].voucher
    <3>1. PICK y : y = [vs[k] EXCEPT !.proof = TRUE]
      BY ZenonT(60)
    <3>2. ws = [vs EXCEPT ![k] = y]
      BY <2>1, <3>1, ZenonT(60)
    <3>3. k \in DOMAIN vs => y \in Stored /\ y.voucher = vs[k].voucher
      BY <1>4, <3>1, ZenonT(60) DEF Stored
    <3>4. Replaced(Stored, vs, k, y, ws)
      <4>1. vs \in Seq(Stored) /\ (k \in DOMAIN vs => y \in Stored)
        BY <1>2, <3>3, ZenonT(60)
      <4> QED  BY <3>2, <4>1, ReplacedIs, ZenonT(60)
    <3> QED  BY <3>3, <3>4, ZenonT(60) DEF Replaced
  <2>4. c \in Channel /\ c.vouchers = ws /\ c.nextLane = ci.nextLane /\ c.dir = ci.dir
    BY <1>2, <2>2, <2>3 DEF Channel
  <2>5. ci.nextLane <= ci.nextLane
    BY <1>2
  <2> QED  BY <1>3, <2>3, <2>4, <2>5, ZenonT(60) DEF ChannelOK
<1>6. CASE c = [ci EXCEPT !.vouchers = Append(@, [voucher |-> sv, proof |-> proof]), !.nextLane = laneAfter(ci, sv)]
  <2>1. PICK x : x = [voucher |-> sv, proof |-> proof]
    BY ZenonT(60)
  <2>2. PICK l : l = laneAfter(ci, sv)
    BY ZenonT(60)
  <2>3. l \in Nat /\ ci.nextLane <= l /\ sv.lane < l
    BY <1>2, <2>2, LaneAfterIs, ZenonT(60)
  <2>4. x \in Stored /\ x.voucher = sv
    BY <2>1 DEF Stored
  <2>5. PICK ws : ws = Append(vs, x)
    BY ZenonT(60)
  <2>6. /\ ws \in Seq(Stored) /\ DOMAIN ws = 1 .. Len(vs) + 1 /\ Len(vs) \in Nat /\ DOMAIN vs = 1 .. Len(vs)
        /\ ws[Len(vs) + 1] = x /\ \A i \in DOMAIN vs : ws[i] = vs[i]
    BY <1>2, <2>4, <2>5
  <2>7. c = [ci EXCEPT !.vouchers = ws, !.nextLane = l]
    BY <1>1, <1>6, <2>1, <2>2, <2>5
  <2>8. c \in Channel /\ c.vouchers = ws /\ c.nextLane = l /\ c.dir = ci.dir
    <3>1. c \in Channel
      BY <1>2, <2>3, <2>6, <2>7, ZenonT(60) DEF Channel
    <3>2. DOMAIN ci = {"dir", "vouchers", "nextLane"}
      BY <1>2 DEF Channel
    <3> QED  BY <2>7, <3>1, <3>2
  <2>9. ASSUME NEW i \in DOMAIN ws PROVE ws[i].voucher.lane < l
    <3>1. CASE i = Len(vs) + 1
      BY <2>3, <2>4, <2>6, <3>1, ZenonT(60)
    <3>2. CASE i # Len(vs) + 1
      <4>1. i \in DOMAIN vs
        BY ONLY <2>6, <2>9, <3>2, SMTT(60)
      <4>2. ws[i] = vs[i] /\ vs[i].voucher.lane < ci.nextLane /\ vs[i].voucher.lane \in Nat
        BY <1>3, <1>4, <2>6, <4>1, ZenonT(60) DEF Stored, Voucher
      <4>3. vs[i].voucher.lane < l
        BY ONLY <1>2, <2>3, <4>2, SMTT(60)
      <4> QED  BY <4>2, <4>3, ZenonT(60)
    <3> QED  BY <3>1, <3>2
  <2> QED  BY <2>3, <2>8, <2>9, ZenonT(60) DEF ChannelOK
<1> QED  BY <1>5, <1>6, ZenonT(60) DEF OneVoucher

\* AddVoucher keeps the stores.
LEMMA AddedKeeps ==
    ASSUME NEW st, StoresOK(st), NEW n \in Nodes, NEW ch, NEW sv \in Voucher, NEW proof \in BOOLEAN, NEW d,
           NEW t, t = Added(st, n, ch, sv, proof, d).st
    PROVE  StoresOK(t) /\ \A m \in Nodes : Grows(st[m], t[m])
<1>1. CASE t = st
  BY <1>1, SameStores, ZenonT(60)
<1>2. CASE t # st
  <2> DEFINE ci == st[n][ch]
  <2>1. ch \in DOMAIN st[n]
    <3> SUFFICES ASSUME ch \notin DOMAIN st[n] PROVE FALSE
      OBVIOUS
    <3>1. Added(st, n, ch, sv, proof, d) = [st |-> st, ok |-> FALSE]
      BY ZenonT(60) DEF Added
    <3>2. t = [st |-> st, ok |-> FALSE].st
      BY <3>1, ZenonT(60)
    <3> QED  BY <1>2, <3>2, ZenonT(60)
  <2>2. \E c : OneVoucher(ci, sv, proof, c) /\ t = [st EXCEPT ![n][ch] = c]
    <3> HIDE DEF ci
    <3> DEFINE same == {i \in DOMAIN ci.vouchers : ci.vouchers[i].voucher = sv}
               k == Min(same)
               delta == sv.amt - redeemed(laneState(st, n, ch), sv.lane)
               A == [ci EXCEPT !.vouchers[k].proof = TRUE]
               B == [ci EXCEPT !.vouchers = Append(@, [voucher |-> sv, proof |-> proof]), !.nextLane = laneAfter(ci, sv)]
    <3>1. Added(st, n, ch, sv, proof, d) =
             IF same # {} THEN [st |-> IF proof THEN [st EXCEPT ![n][ch] = A] ELSE st, ok |-> TRUE]
             ELSE IF ~ checkVoucherValid(st, n, ch, sv) \/ d > delta THEN [st |-> st, ok |-> FALSE]
             ELSE [st |-> [st EXCEPT ![n][ch] = B], ok |-> TRUE]
      BY <2>1, ZenonT(60) DEF Added, ci
    <3>2. OneVoucher(ci, sv, proof, A) /\ OneVoucher(ci, sv, proof, B)
      BY ZenonT(60) DEF OneVoucher
    <3> HIDE DEF A, B, same, delta
    <3>3. t = st \/ t = [st EXCEPT ![n][ch] = A] \/ t = [st EXCEPT ![n][ch] = B]
      BY <3>1
    <3> QED  BY <1>2, <3>2, <3>3, ZenonT(60)
  <2>3. PICK c : OneVoucher(ci, sv, proof, c) /\ t = [st EXCEPT ![n][ch] = c]
    BY <2>2, ZenonT(60)
  <2>4. ChannelOK(ci) /\ ch \in DOMAIN actors /\ (n = "payer" => ci.dir = "out") /\ DOMAIN st = Nodes
    BY <2>1, ZenonT(60) DEF StoresOK
  <2>5. ChannelOK(c) /\ c.dir = ci.dir /\ ci.nextLane <= c.nextLane
    BY <2>3, <2>4, ChannelGrows, ZenonT(60)
  <2>6. Updated(st, t, n, ch, c)
    <3> HIDE DEF ci
    <3>1. PICK p : p = [st[n] EXCEPT ![ch] = c]
      BY ZenonT(60)
    <3>2. t = [st EXCEPT ![n] = p]
      BY <2>3, <3>1, ZenonT(60)
    <3>3. DOMAIN p = DOMAIN st[n] /\ \A x \in DOMAIN p : p[x] = IF x = ch THEN c ELSE st[n][x]
      BY <3>1, ZenonT(60)
    <3>4. DOMAIN t = Nodes /\ t[n] = p /\ \A m \in Nodes : m # n => t[m] = st[m]
      BY <2>4, <3>2, ZenonT(60)
    <3> QED  BY <2>1, <3>3, <3>4, ZenonT(60) DEF Updated
  <2> QED  BY <2>4, <2>5, <2>6, UpdateKeeps, ZenonT(60)
<1> QED  BY <1>1, <1>2

-----------------------------------------------------------------------------
(* The invariant *)

\* the messages that create channels
Creating == {id \in DOMAIN msgs : msgs[id].kind = "create"}

ChainOK ==
    /\ actors \in Seq(Actor)
    /\ msgs \in Seq(Message) /\ \A id \in DOMAIN msgs : msgs[id].kind = "update" => msgs[id].sv \in Voucher
    /\ lk \in {0} \cup DOMAIN msgs
    /\ failures \in Nat /\ restarts \in Nat

CallsOK ==
    /\ tasks \in [Tasks -> Task]
    /\ \A t \in Tasks : tasks[t].pc \notin {"end", "err"} => tasks[t].amts # <<>>
    /\ sent \subseteq Voucher

\* what the settler submits are vouchers from the payee's store
SettlerOK ==
    /\ DOMAIN settler = {"pc", "ch", "list", "best", "waits", "owed"}
    /\ settler.pc = "list" => settler.ch \in DOMAIN stores["payee"]
    /\ settler.pc = "check" => settler.list \in Seq(Voucher)
    /\ settler.best \subseteq Voucher

\* A lane that was given is below its channel's nextLane, and no two are the same.
LanesOK ==
    /\ lanes \in Seq(Lane)
    /\ \A i \in DOMAIN lanes :
        /\ ~ lanes[i].used
        /\ lanes[i].ch \in DOMAIN stores["payer"]
        /\ lanes[i].lane < stores["payer"][lanes[i].ch].nextLane
    /\ \A i, j \in DOMAIN lanes : i # j => lanes[i] # lanes[j]

\* Without failures, there is nothing, or one message that creates a channel with the lock
\* held for it, or one channel, which the payer tracks when the lock is free.
OneChannel ==
    failures = 0 /\ restarts = 0 =>
        /\ Len(actors) <= 1
        /\ \A id \in Creating : /\ msgs[id].st = "pushed" => lk = id /\ Len(actors) = 0
                                /\ msgs[id].st # "failed"
                                /\ msgs[id].st = "ok" => msgs[id].ch \in DOMAIN actors
        /\ (Creating = {} /\ Len(actors) = 0) \/ DOMAIN stores["payer"] # {} \/ lk \in Creating

PaychInv == ChainOK /\ StoresOK(stores) /\ CallsOK /\ SettlerOK /\ LanesOK /\ OneChannel

-----------------------------------------------------------------------------
(* What the steps do to the parts *)

\* q is the messages s and the message m, the last one
Appended(s, m, q) ==
    /\ q \in Seq(Message) /\ Len(s) \in Nat /\ Len(q) = Len(s) + 1 /\ Len(q) \notin DOMAIN s
    /\ DOMAIN q = DOMAIN s \cup {Len(q)} /\ q[Len(q)] = m
    /\ \A id \in DOMAIN s : q[id] = s[id]

\* A message pushed is the last one.
LEMMA Pushed ==
    ASSUME NEW s \in Seq(Message), NEW m \in Message, NEW q, q = Append(s, m)
    PROVE  Appended(s, m, q)
<1>1. /\ q \in Seq(Message) /\ Len(s) \in Nat /\ Len(q) = Len(s) + 1 /\ DOMAIN s = 1 .. Len(s)
      /\ DOMAIN q = 1 .. Len(s) + 1 /\ q[Len(s) + 1] = m /\ \A id \in 1 .. Len(s) : q[id] = s[id]
  OBVIOUS
<1>2. Len(q) \notin DOMAIN s /\ DOMAIN q = DOMAIN s \cup {Len(q)}
  BY <1>1
<1> QED  BY <1>1, <1>2, ZenonT(60) DEF Appended

\* Steps that create no channel and fail nothing keep OneChannel.
LEMMA SameChannel ==
    ASSUME ChainOK, OneChannel,
           failures' = 0 /\ restarts' = 0 => failures = 0 /\ restarts = 0,
           Len(actors') = Len(actors), DOMAIN actors' = DOMAIN actors,
           DOMAIN stores["payer"] \subseteq DOMAIN stores'["payer"],
           Creating' = Creating, \A id \in Creating : msgs'[id] = msgs[id],
           lk' = lk \/ lk \notin Creating
    PROVE  OneChannel'
<1> SUFFICES ASSUME failures' = 0, restarts' = 0
             PROVE  /\ Len(actors') <= 1
                    /\ \A id \in Creating' : /\ msgs'[id].st = "pushed" => lk' = id /\ Len(actors') = 0
                                             /\ msgs'[id].st # "failed"
                                             /\ msgs'[id].st = "ok" => msgs'[id].ch \in DOMAIN actors'
                    /\ (Creating' = {} /\ Len(actors') = 0) \/ DOMAIN stores'["payer"] # {} \/ lk' \in Creating'
  BY ZenonT(60) DEF OneChannel
<1>1. /\ Len(actors) <= 1
      /\ \A id \in Creating : /\ msgs[id].st = "pushed" => lk = id /\ Len(actors) = 0
                              /\ msgs[id].st # "failed"
                              /\ msgs[id].st = "ok" => msgs[id].ch \in DOMAIN actors
      /\ (Creating = {} /\ Len(actors) = 0) \/ DOMAIN stores["payer"] # {} \/ lk \in Creating
  BY ZenonT(60) DEF OneChannel
<1>2. Len(actors') <= 1
  BY <1>1, ZenonT(60)
<1>3. ASSUME NEW id \in Creating'
      PROVE  /\ msgs'[id].st = "pushed" => lk' = id /\ Len(actors') = 0
             /\ msgs'[id].st # "failed"
             /\ msgs'[id].st = "ok" => msgs'[id].ch \in DOMAIN actors'
  <2>1. id \in Creating /\ msgs'[id] = msgs[id]
    BY <1>3, ZenonT(60)
  <2>2. msgs[id].st = "pushed" => lk' = id
    BY <1>1, <2>1, ZenonT(60)
  <2> QED  BY <1>1, <2>1, <2>2, ZenonT(60)
<1>4. (Creating' = {} /\ Len(actors') = 0) \/ DOMAIN stores'["payer"] # {} \/ lk' \in Creating'
  BY <1>1, ZenonT(60)
<1> QED  BY <1>2, <1>3, <1>4, ZenonT(60)

\* Lanes stay given while the payer's channels are kept.
LEMMA LanesKept ==
    ASSUME LanesOK, StoresOK(stores), StoresOK(stores)', Grows(stores["payer"], stores'["payer"]), lanes' = lanes
    PROVE  LanesOK'
<1>1. ASSUME NEW i \in DOMAIN lanes
      PROVE  /\ lanes[i].ch \in DOMAIN stores'["payer"]
             /\ lanes[i].lane < stores'["payer"][lanes[i].ch].nextLane
  <2>1. PICK c : c = lanes[i].ch
    BY ZenonT(60)
  <2>2. PICK l : l = lanes[i].lane
    BY ZenonT(60)
  <2>3. c \in DOMAIN stores["payer"] /\ l < stores["payer"][c].nextLane
    BY <1>1, <2>1, <2>2, ZenonT(60) DEF LanesOK
  <2>4. l \in Nat
    <3>1. lanes \in Seq(Lane)
      BY ZenonT(60) DEF LanesOK
    <3>2. lanes[i] \in Lane
      BY <3>1
    <3> QED  BY <2>2, <3>2, ZenonT(60) DEF Lane
  <2>5. c \in DOMAIN stores'["payer"] /\ stores["payer"][c].nextLane <= stores'["payer"][c].nextLane
    BY <2>3, ZenonT(60) DEF Grows
  <2>6. stores["payer"][c] \in Channel /\ stores'["payer"][c] \in Channel
    BY <2>3, <2>5, ZenonT(60) DEF StoresOK, ChannelOK, Nodes
  <2>7. PICK x : x = stores["payer"][c].nextLane
    BY ZenonT(60)
  <2>8. PICK y : y = stores'["payer"][c].nextLane
    BY ZenonT(60)
  <2>9. x \in Nat /\ y \in Nat
    BY <2>6, <2>7, <2>8, ZenonT(60) DEF Channel
  <2>10. l < x /\ x <= y
    BY <2>3, <2>5, <2>7, <2>8, ZenonT(60)
  <2>11. l < y
    BY ONLY <2>4, <2>9, <2>10, SMTT(60)
  <2> QED  BY <2>1, <2>2, <2>5, <2>8, <2>11, ZenonT(60)
<1> QED  BY <1>1, ZenonT(60) DEF LanesOK

\* So does what the settler works on.
LEMMA SettlerKept ==
    ASSUME SettlerOK, settler' = settler, DOMAIN stores["payee"] \subseteq DOMAIN stores'["payee"]
    PROVE  SettlerOK'
  BY ZenonT(60) DEF SettlerOK

\* Stores that stay the same stay right while actors are kept.
LEMMA StoresKept ==
    ASSUME StoresOK(stores), stores' = stores, DOMAIN actors \subseteq DOMAIN actors'
    PROVE  /\ StoresOK(stores)' /\ \A n \in Nodes : Grows(stores[n], stores'[n])
           /\ \A n \in Nodes : DOMAIN stores[n] \subseteq DOMAIN stores'[n]
<1>1. StoresOK(stores)'
  BY ZenonT(60) DEF StoresOK
<1>2. \A n \in Nodes : Grows(stores[n], stores[n])
  BY SameStores, ZenonT(60)
<1> QED  BY <1>1, <1>2, ZenonT(60)

\* Pushing any other message than one that creates a channel changes nothing of this.
LEMMA PushKeeps ==
    ASSUME ChainOK, OneChannel, NEW m \in Message, m.kind # "create", m.kind = "update" => m.sv \in Voucher,
           msgs' = Append(msgs, m), actors' = actors, stores' = stores, failures' = failures, restarts' = restarts,
           lk' = lk \/ (lk = 0 /\ lk' = Len(msgs'))
    PROVE  ChainOK' /\ OneChannel'
<1>0. msgs \in Seq(Message)
  BY ZenonT(60) DEF ChainOK
<1>1. /\ msgs' \in Seq(Message) /\ Len(msgs) \in Nat /\ Len(msgs') = Len(msgs) + 1 /\ Len(msgs') \notin DOMAIN msgs
      /\ DOMAIN msgs' = DOMAIN msgs \cup {Len(msgs')} /\ msgs'[Len(msgs')] = m
      /\ \A id \in DOMAIN msgs : msgs'[id] = msgs[id]
  <2>1. Appended(msgs, m, msgs')
    BY <1>0, Pushed, ZenonT(60)
  <2> QED  BY <2>1, ZenonT(60) DEF Appended
<1>2. ChainOK'
  <2>1. \A id \in DOMAIN msgs' : msgs'[id].kind = "update" => msgs'[id].sv \in Voucher
    <3> SUFFICES ASSUME NEW id \in DOMAIN msgs', msgs'[id].kind = "update" PROVE msgs'[id].sv \in Voucher
      OBVIOUS
    <3>1. CASE id = Len(msgs')
      BY <1>1, <3>1, ZenonT(60)
    <3>2. CASE id \in DOMAIN msgs
      BY <1>1, <3>2, ZenonT(60) DEF ChainOK
    <3> QED  BY <1>1, <3>1, <3>2, ZenonT(60)
  <2>2. lk' \in {0} \cup DOMAIN msgs'
    BY <1>1, ZenonT(60) DEF ChainOK
  <2> QED  BY <1>1, <2>1, <2>2, ZenonT(60) DEF ChainOK
<1>3. Creating' = Creating
  BY <1>1, ZenonT(60) DEF Creating
<1>4. \A id \in Creating : msgs'[id] = msgs[id]
  BY <1>1, ZenonT(60) DEF Creating
<1>5. lk' = lk \/ lk \notin Creating
  <2>1. 0 \notin DOMAIN msgs
    BY <1>0
  <2> QED  BY <2>1, ZenonT(60) DEF Creating
<1>6. /\ failures' = 0 /\ restarts' = 0 => failures = 0 /\ restarts = 0
      /\ Len(actors') = Len(actors) /\ DOMAIN actors' = DOMAIN actors
      /\ DOMAIN stores["payer"] \subseteq DOMAIN stores'["payer"]
  BY ZenonT(60)
<1> QED  BY <1>2, <1>3, <1>4, <1>5, <1>6, SameChannel, ZenonT(60)

\* UpdateChannelState leaves an actor one.
LEMMA RedeemKeeps ==
    ASSUME actors \in Seq(Actor), NEW ch \in Nat, NEW sv \in Voucher
    PROVE  /\ Redeem(ch, sv) \in Seq(Actor) /\ Len(Redeem(ch, sv)) = Len(actors)
           /\ DOMAIN Redeem(ch, sv) = DOMAIN actors
<1> DEFINE old == IF sv.lane \in DOMAIN actors[ch].lanes THEN actors[ch].lanes[sv.lane].redeemed ELSE 0
           r == [nonce |-> sv.nonce, redeemed |-> sv.amt]
           a == [actors[ch] EXCEPT !.toSend = @ + sv.amt - old, !.lanes = put(@, sv.lane, r)]
<1>1. Redeem(ch, sv) = [actors EXCEPT ![ch] = a]
  BY ZenonT(60) DEF Redeem
<1>2. ASSUME ch \in DOMAIN actors PROVE a \in Actor
  <2>1. PICK b \in Actor : b = actors[ch]
    <3>1. actors[ch] \in Actor
      BY <1>2
    <3> QED  BY <3>1, ZenonT(60)
  <2>2. b.toSend \in Int /\ b.lanes \in LaneMap
    BY <2>1, ZenonT(60) DEF Actor
  <2>3. sv.amt \in Nat /\ sv.lane \in Nat /\ sv.nonce \in Nat
    BY ZenonT(60) DEF Voucher
  <2>4. r \in [nonce : Nat, redeemed : Nat]
    BY <2>3
  <2>5. PICK l : l = put(b.lanes, sv.lane, r)
    BY ZenonT(60)
  <2>6. l \in LaneMap
    BY <2>2, <2>3, <2>4, <2>5, LaneMaps, ZenonT(60)
  <2>7. old \in Nat
    <3>1. \A f \in LaneMap : \A x \in DOMAIN f : f[x].redeemed \in Nat
      <4> SUFFICES ASSUME NEW f \in LaneMap, NEW x \in DOMAIN f PROVE f[x].redeemed \in Nat
        OBVIOUS
      <4>1. PICK S \in SUBSET Nat : f \in [S -> [nonce : Nat, redeemed : Nat]]
        BY ZenonT(60) DEF LaneMap
      <4>2. f[x] \in [nonce : Nat, redeemed : Nat]
        BY <4>1, ZenonT(60)
      <4> QED  BY <4>2, ZenonT(60)
    <3>2. CASE sv.lane \in DOMAIN b.lanes
      BY <2>1, <2>2, <3>1, <3>2, ZenonT(60)
    <3>3. CASE sv.lane \notin DOMAIN b.lanes
      <4>1. old = 0
        BY <2>1, <3>3, ZenonT(60)
      <4> QED  BY <4>1
    <3> QED  BY <3>2, <3>3
  <2>8. PICK s : s = b.toSend + sv.amt - old
    BY ZenonT(60)
  <2> HIDE DEF old
  <2>9. s \in Int
    BY <2>2, <2>3, <2>7, <2>8
  <2>10. a = [b EXCEPT !.toSend = s, !.lanes = l]
    BY <2>1, <2>5, <2>8
  <2> QED  BY <2>6, <2>9, <2>10, ZenonT(60) DEF Actor
<1> HIDE DEF a
<1>3. Replaced(Actor, actors, ch, a, Redeem(ch, sv))
  BY <1>1, <1>2, ReplacedIs, ZenonT(60)
<1> QED  BY <1>3, ZenonT(60) DEF Replaced

\* A new channel actor.
LEMMA NewActor ==
    ASSUME NEW amt \in Nat
    PROVE  newActor(amt) \in Actor
<1>1. PICK l : l = <<>>
  BY ZenonT(60)
<1>2. l \in LaneMap
  BY <1>1, LaneMaps, ZenonT(60)
<1>3. newActor(amt) = [balance |-> amt, toSend |-> 0, lanes |-> l, settling |-> FALSE]
  BY <1>1, ZenonT(60) DEF newActor
<1>4. amt \in Int /\ 0 \in Int
  OBVIOUS
<1> QED  BY <1>2, <1>3, <1>4 DEF Actor

\* A message changes, but not its kind or voucher.
LEMMA MessageChanges ==
    ASSUME ChainOK, NEW id \in DOMAIN msgs, NEW m \in Message, m.kind = msgs[id].kind, m.sv = msgs[id].sv,
           msgs' = [msgs EXCEPT ![id] = m], actors' \in Seq(Actor), failures' \in Nat, restarts' = restarts, lk' = lk
    PROVE  /\ ChainOK' /\ Creating' = Creating
           /\ msgs'[id] = m /\ \A i \in DOMAIN msgs : i # id => msgs'[i] = msgs[i]
<1>1. Replaced(Message, msgs, id, m, msgs')
  <2>1. msgs \in Seq(Message)
    BY ZenonT(60) DEF ChainOK
  <2> QED  BY <2>1, ReplacedIs, ZenonT(60)
<1>2. /\ msgs' \in Seq(Message) /\ DOMAIN msgs' = DOMAIN msgs
      /\ msgs'[id] = m /\ \A i \in DOMAIN msgs : i # id => msgs'[i] = msgs[i]
  BY <1>1, ZenonT(60) DEF Replaced
<1>3. \A i \in DOMAIN msgs' : msgs'[i].kind = msgs[i].kind /\ msgs'[i].sv = msgs[i].sv
  BY <1>2, ZenonT(60)
<1>4. Creating' = Creating
  BY <1>2, <1>3, ZenonT(60) DEF Creating
<1>5. ChainOK'
  BY <1>2, <1>3, ZenonT(60) DEF ChainOK
<1> QED  BY <1>2, <1>4, <1>5, ZenonT(60)

\* What the execution of a message does to the actors.
LEMMA ActorsAfter ==
    ASSUME ChainOK, NEW m \in Message, m.kind = "update" => m.sv \in Voucher, m.kind # "create",
           actors' = CASE m.kind = "create" -> Append(actors, newActor(m.amt))
                       [] m.kind = "funds" -> [actors EXCEPT ![m.ch].balance = @ + m.amt]
                       [] m.kind = "update" -> Redeem(m.ch, m.sv)
                       [] m.kind = "settle" -> [actors EXCEPT ![m.ch].settling = TRUE]
    PROVE  actors' \in Seq(Actor) /\ Len(actors') = Len(actors) /\ DOMAIN actors' = DOMAIN actors
<1>1. actors \in Seq(Actor) /\ m.ch \in Nat /\ m.amt \in Nat /\ m.kind \in {"funds", "update", "settle"}
  <2>1. actors \in Seq(Actor)
    BY ZenonT(60) DEF ChainOK
  <2> QED  BY <2>1 DEF Message
<1>2. PICK ch \in Nat : ch = m.ch
  BY <1>1, ZenonT(60)
<1>3. \A c \in DOMAIN actors : actors[c] \in Actor
  BY <1>1
<1>4. CASE m.kind = "funds"
  <2>1. PICK b : b = actors[ch].balance + m.amt
    BY ZenonT(60)
  <2>2. PICK a : a = [actors[ch] EXCEPT !.balance = b]
    BY ZenonT(60)
  <2>3. actors' = [actors EXCEPT ![ch] = a]
    <3>1. actors' = [actors EXCEPT ![ch].balance = @ + m.amt]
      BY <1>2, <1>4
    <3> QED  BY <2>1, <2>2, <3>1, ZenonT(60)
  <2>4. ASSUME ch \in DOMAIN actors PROVE a \in Actor
    <3>1. actors[ch] \in Actor
      BY <1>3, <2>4, ZenonT(60)
    <3>2. actors[ch].balance \in Int
      BY <3>1, ZenonT(60) DEF Actor
    <3>3. b \in Int
      BY <1>1, <2>1, <3>2
    <3> QED  BY <2>2, <3>1, <3>3, ZenonT(60) DEF Actor
  <2>5. Replaced(Actor, actors, ch, a, actors')
    BY <1>1, <2>3, <2>4, ReplacedIs, ZenonT(60)
  <2> QED  BY <2>5, ZenonT(60) DEF Replaced
<1>5. CASE m.kind = "update"
  <2>1. PICK sv \in Voucher : sv = m.sv
    BY <1>5, ZenonT(60)
  <2>2. actors' = Redeem(ch, sv)
    BY <1>2, <1>5, <2>1
  <2>3. /\ Redeem(ch, sv) \in Seq(Actor) /\ Len(Redeem(ch, sv)) = Len(actors)
        /\ DOMAIN Redeem(ch, sv) = DOMAIN actors
    BY <1>1, RedeemKeeps, ZenonT(60)
  <2> QED  BY <2>2, <2>3, ZenonT(60)
<1>6. CASE m.kind = "settle"
  <2>1. PICK a : a = [actors[ch] EXCEPT !.settling = TRUE]
    BY ZenonT(60)
  <2>2. actors' = [actors EXCEPT ![ch] = a]
    <3>1. actors' = [actors EXCEPT ![ch].settling = TRUE]
      BY <1>2, <1>6
    <3> QED  BY <2>1, <3>1, ZenonT(60)
  <2>3. ASSUME ch \in DOMAIN actors PROVE a \in Actor
    <3>1. actors[ch] \in Actor
      BY <1>3, <2>3, ZenonT(60)
    <3> QED  BY <2>1, <3>1, ZenonT(60) DEF Actor
  <2>4. Replaced(Actor, actors, ch, a, actors')
    BY <1>1, <2>2, <2>3, ReplacedIs, ZenonT(60)
  <2> QED  BY <2>4, ZenonT(60) DEF Replaced
<1> QED  BY <1>1, <1>4, <1>5, <1>6, ZenonT(60)

\* A channel is created without failures: it is the first and only one.
LEMMA CreateKeeps ==
    ASSUME ChainOK, OneChannel, NEW id \in Creating, msgs[id].st = "pushed", Creating' = Creating,
           msgs'[id].st = "ok", msgs'[id].ch = Len(actors) + 1, NEW a \in Actor, actors' = Append(actors, a),
           lk' = lk, failures' = failures, restarts' = restarts
    PROVE  OneChannel'
<1> SUFFICES ASSUME failures' = 0, restarts' = 0
             PROVE  /\ Len(actors') <= 1
                    /\ \A i \in Creating' : /\ msgs'[i].st = "pushed" => lk' = i /\ Len(actors') = 0
                                            /\ msgs'[i].st # "failed"
                                            /\ msgs'[i].st = "ok" => msgs'[i].ch \in DOMAIN actors'
                    /\ (Creating' = {} /\ Len(actors') = 0) \/ DOMAIN stores'["payer"] # {} \/ lk' \in Creating'
  BY ZenonT(60) DEF OneChannel
<1>1. \A i \in Creating : /\ msgs[i].st = "pushed" => lk = i /\ Len(actors) = 0
                          /\ msgs[i].st # "failed"
                          /\ msgs[i].st = "ok" => msgs[i].ch \in DOMAIN actors
  BY ZenonT(60) DEF OneChannel
<1>2. lk = id /\ Len(actors) = 0
  BY <1>1, ZenonT(60)
<1>3. actors \in Seq(Actor) /\ msgs \in Seq(Message)
  BY ZenonT(60) DEF ChainOK
<1>4. DOMAIN actors = {} /\ Len(actors') = 1 /\ DOMAIN actors' = {1}
  BY <1>2, <1>3
<1>5. ASSUME NEW i \in Creating PROVE i = id
  <2>1. msgs[i].st \in {"pushed", "ok", "failed"}
    <3>1. i \in DOMAIN msgs
      BY <1>5, ZenonT(60) DEF Creating
    <3>2. msgs[i] \in Message
      BY <1>3, <3>1
    <3> QED  BY <3>2, ZenonT(60) DEF Message
  <2> QED  BY <1>1, <1>2, <1>4, <2>1, ZenonT(60)
<1>6. msgs'[id].ch \in DOMAIN actors'
  BY <1>2, <1>4
<1>7. ASSUME NEW i \in Creating'
      PROVE  /\ msgs'[i].st = "pushed" => lk' = i /\ Len(actors') = 0
             /\ msgs'[i].st # "failed"
             /\ msgs'[i].st = "ok" => msgs'[i].ch \in DOMAIN actors'
  <2>1. i = id
    BY <1>5, <1>7, ZenonT(60)
  <2>2. msgs'[i].st = "ok"
    BY <2>1
  <2> QED  BY <1>6, <2>1, <2>2
<1>8. Len(actors') <= 1
  BY <1>4
<1> QED  BY <1>2, <1>7, <1>8, ZenonT(60)

\* Executing a message.
LEMMA ExecuteKeeps ==
    ASSUME ChainOK, OneChannel, NEW id \in DOMAIN msgs, Execute(id)
    PROVE  ChainOK' /\ OneChannel' /\ DOMAIN actors \subseteq DOMAIN actors'
<1>1. PICK m : m = msgs[id]
  BY ZenonT(60)
<1>2. actors \in Seq(Actor) /\ msgs \in Seq(Message) /\ failures \in Nat /\ restarts \in Nat
  BY ZenonT(60) DEF ChainOK
<1>3. m \in Message
  BY <1>1, <1>2
<1>4. /\ m.kind \in {"create", "funds", "update", "settle"} /\ m.amt \in Nat /\ m.ch \in Nat
      /\ DOMAIN m = {"kind", "ch", "amt", "sv", "st"}
  BY <1>3 DEF Message
<1>5. m.kind = "update" => m.sv \in Voucher
  BY <1>1, ZenonT(60) DEF ChainOK
<1>6. m.st = "pushed" /\ UNCHANGED <<stores, lk, tasks, lanes, sent, restarts>>
  BY <1>1, ZenonT(60) DEF Execute
<1>7. stores' = stores /\ lk' = lk /\ restarts' = restarts
  BY <1>6
<1>8. \/ /\ msgs' = [msgs EXCEPT ![id] = [m EXCEPT !.st = "ok", !.ch = IF m.kind = "create" THEN Len(actors) + 1 ELSE @]]
         /\ actors' = CASE m.kind = "create" -> Append(actors, newActor(m.amt))
                        [] m.kind = "funds" -> [actors EXCEPT ![m.ch].balance = @ + m.amt]
                        [] m.kind = "update" -> Redeem(m.ch, m.sv)
                        [] m.kind = "settle" -> [actors EXCEPT ![m.ch].settling = TRUE]
         /\ failures' = failures
      \/ /\ \/ m.kind = "update" /\ failures' = failures
            \/ failures' = failures + 1
         /\ msgs' = [msgs EXCEPT ![id].st = "failed"]
         /\ actors' = actors
  BY <1>1, ZenonT(60) DEF Execute
<1>9. CASE /\ msgs' = [msgs EXCEPT ![id] = [m EXCEPT !.st = "ok", !.ch = IF m.kind = "create" THEN Len(actors) + 1 ELSE @]]
           /\ actors' = CASE m.kind = "create" -> Append(actors, newActor(m.amt))
                          [] m.kind = "funds" -> [actors EXCEPT ![m.ch].balance = @ + m.amt]
                          [] m.kind = "update" -> Redeem(m.ch, m.sv)
                          [] m.kind = "settle" -> [actors EXCEPT ![m.ch].settling = TRUE]
           /\ failures' = failures
  <2>1. PICK c : c = IF m.kind = "create" THEN Len(actors) + 1 ELSE m.ch
    BY ZenonT(60)
  <2>2. c \in Nat
    BY <1>2, <1>4, <2>1
  <2>3. PICK y : y = [m EXCEPT !.st = "ok", !.ch = c]
    BY ZenonT(60)
  <2>4. msgs' = [msgs EXCEPT ![id] = y]
    BY <1>9, <2>1, <2>3, ZenonT(60)
  <2>5. y \in Message
    BY <1>3, <2>2, <2>3, ZenonT(60) DEF Message
  <2>6. y.kind = m.kind /\ y.sv = m.sv /\ y.st = "ok" /\ y.ch = c
    BY <1>4, <2>3
  <2>7. CASE m.kind = "create"
    <3>1. PICK a : a = newActor(m.amt)
      BY ZenonT(60)
    <3>2. a \in Actor /\ actors' = Append(actors, a)
      BY <1>4, <1>9, <2>7, <3>1, NewActor
    <3>3. actors' \in Seq(Actor) /\ DOMAIN actors \subseteq DOMAIN actors'
      BY <1>2, <3>2
    <3>4. /\ ChainOK' /\ Creating' = Creating
          /\ msgs'[id] = y /\ \A i \in DOMAIN msgs : i # id => msgs'[i] = msgs[i]
      BY <1>1, <1>2, <1>7, <1>9, <2>4, <2>5, <2>6, <3>3, MessageChanges, ZenonT(60)
    <3>5. id \in Creating
      BY <1>1, <2>7, ZenonT(60) DEF Creating
    <3>6. c = Len(actors) + 1
      BY <2>1, <2>7
    <3>7. OneChannel'
      BY <1>1, <1>6, <1>7, <1>9, <2>6, <3>2, <3>4, <3>5, <3>6, CreateKeeps, ZenonT(60)
    <3> QED  BY <3>3, <3>4, <3>7, ZenonT(60)
  <2>8. CASE m.kind # "create"
    <3>1. actors' \in Seq(Actor) /\ Len(actors') = Len(actors) /\ DOMAIN actors' = DOMAIN actors
      BY <1>3, <1>5, <1>9, <2>8, ActorsAfter, ZenonT(60)
    <3>2. /\ ChainOK' /\ Creating' = Creating
          /\ msgs'[id] = y /\ \A i \in DOMAIN msgs : i # id => msgs'[i] = msgs[i]
      BY <1>1, <1>2, <1>7, <1>9, <2>4, <2>5, <2>6, <3>1, MessageChanges, ZenonT(60)
    <3>3. \A i \in Creating : msgs'[i] = msgs[i]
      BY <1>1, <2>8, <3>2, ZenonT(60) DEF Creating
    <3>4. OneChannel'
      BY <1>7, <1>9, <3>1, <3>2, <3>3, SameChannel, ZenonT(60)
    <3> QED  BY <3>1, <3>2, <3>4, ZenonT(60)
  <2> QED  BY <2>7, <2>8
<1>10. CASE /\ \/ m.kind = "update" /\ failures' = failures
               \/ failures' = failures + 1
            /\ msgs' = [msgs EXCEPT ![id].st = "failed"]
            /\ actors' = actors
  <2>1. PICK y : y = [m EXCEPT !.st = "failed"]
    BY ZenonT(60)
  <2>2. msgs' = [msgs EXCEPT ![id] = y]
    BY <1>1, <1>10, <2>1, ZenonT(60)
  <2>3. y \in Message
    BY <1>3, <2>1, ZenonT(60) DEF Message
  <2>4. y.kind = m.kind /\ y.sv = m.sv
    BY <1>4, <2>1
  <2>5. failures' \in Nat
    BY <1>2, <1>10
  <2>6. /\ ChainOK' /\ Creating' = Creating
        /\ msgs'[id] = y /\ \A i \in DOMAIN msgs : i # id => msgs'[i] = msgs[i]
    BY <1>1, <1>2, <1>7, <1>10, <2>2, <2>3, <2>4, <2>5, MessageChanges, ZenonT(60)
  <2>7. CASE m.kind = "update" /\ failures' = failures
    <3>1. \A i \in Creating : msgs'[i] = msgs[i]
      BY <1>1, <2>6, <2>7, ZenonT(60) DEF Creating
    <3>2. OneChannel'
      BY <1>7, <1>10, <2>6, <2>7, <3>1, SameChannel, ZenonT(60)
    <3> QED  BY <1>10, <2>6, <3>2, ZenonT(60)
  <2>8. CASE failures' = failures + 1
    <3>1. failures' # 0
      BY <1>2, <2>8
    <3>2. OneChannel'
      BY <3>1, ZenonT(60) DEF OneChannel
    <3> QED  BY <1>10, <2>6, <3>2, ZenonT(60)
  <2> QED  BY <1>10, <2>7, <2>8
<1> QED  BY <1>8, <1>9, <1>10, ZenonT(60)

\* What a step leaves alone stays right.
LEMMA RestKept ==
    ASSUME StoresOK(stores), LanesOK, SettlerOK, stores' = stores, lanes' = lanes, settler' = settler,
           DOMAIN actors \subseteq DOMAIN actors'
    PROVE  StoresOK(stores)' /\ LanesOK' /\ SettlerOK'
<1>1. /\ StoresOK(stores)' /\ \A n \in Nodes : Grows(stores[n], stores'[n])
      /\ \A n \in Nodes : DOMAIN stores[n] \subseteq DOMAIN stores'[n]
  BY StoresKept, ZenonT(60)
<1>2. "payer" \in Nodes /\ "payee" \in Nodes
  BY DEF Nodes
<1>3. LanesOK'
  BY <1>1, <1>2, LanesKept, ZenonT(60)
<1>4. SettlerOK'
  BY <1>1, <1>2, SettlerKept, ZenonT(60)
<1> QED  BY <1>1, <1>3, <1>4, ZenonT(60)

\* A call goes on.
LEMMA CallGoesOn ==
    ASSUME CallsOK, NEW t \in Tasks, NEW y \in Task, y.pc \notin {"end", "err"} => y.amts # <<>>,
           tasks' = [tasks EXCEPT ![t] = y], sent' \subseteq Voucher
    PROVE  CallsOK'
<1>1. tasks \in [Tasks -> Task] /\ \A u \in Tasks : tasks[u].pc \notin {"end", "err"} => tasks[u].amts # <<>>
  BY ZenonT(60) DEF CallsOK
<1>2. tasks' \in [Tasks -> Task]
  BY <1>1, ZenonT(60)
<1>3. ASSUME NEW u \in Tasks PROVE tasks'[u].pc \notin {"end", "err"} => tasks'[u].amts # <<>>
  <2>1. tasks'[u] = IF u = t THEN y ELSE tasks[u]
    BY <1>1, ZenonT(60)
  <2> QED  BY <1>1, <2>1, ZenonT(60)
<1> QED  BY <1>2, <1>3, ZenonT(60) DEF CallsOK

\* GetPaych pushes the message that creates the first channel.
LEMMA PushCreate ==
    ASSUME ChainOK, OneChannel, lk = 0, DOMAIN stores["payer"] = {}, NEW m \in Message, m.kind = "create", m.st = "pushed",
           msgs' = Append(msgs, m), lk' = Len(msgs'), actors' = actors, failures' = failures, restarts' = restarts
    PROVE  ChainOK' /\ OneChannel'
<1>0. msgs \in Seq(Message)
  BY ZenonT(60) DEF ChainOK
<1>1. PICK k : k = Len(msgs')
  BY ZenonT(60)
<1>2. /\ msgs' \in Seq(Message) /\ k \notin DOMAIN msgs
      /\ DOMAIN msgs' = DOMAIN msgs \cup {k} /\ msgs'[k] = m
      /\ \A id \in DOMAIN msgs : msgs'[id] = msgs[id]
  <2>1. Appended(msgs, m, msgs')
    BY <1>0, Pushed, ZenonT(60)
  <2> QED  BY <1>1, <2>1, ZenonT(60) DEF Appended
<1>3. ChainOK'
  <2>1. m.kind # "update"
    OBVIOUS
  <2>2. \A id \in DOMAIN msgs' : msgs'[id].kind = "update" => msgs'[id].sv \in Voucher
    BY <1>2, <2>1, ZenonT(60) DEF ChainOK
  <2> QED  BY <1>1, <1>2, <2>2, ZenonT(60) DEF ChainOK
<1>4. Creating' = Creating \cup {k}
  BY <1>2, ZenonT(60) DEF Creating
<1>5. lk \notin Creating
  <2>1. 0 \notin DOMAIN msgs
    BY <1>0
  <2> QED  BY <2>1, ZenonT(60) DEF Creating
<1>6. OneChannel'
  <2> SUFFICES ASSUME failures' = 0, restarts' = 0
               PROVE  /\ Len(actors') <= 1
                      /\ \A i \in Creating' : /\ msgs'[i].st = "pushed" => lk' = i /\ Len(actors') = 0
                                              /\ msgs'[i].st # "failed"
                                              /\ msgs'[i].st = "ok" => msgs'[i].ch \in DOMAIN actors'
                      /\ (Creating' = {} /\ Len(actors') = 0) \/ DOMAIN stores'["payer"] # {} \/ lk' \in Creating'
    BY ZenonT(60) DEF OneChannel
  <2>1. Creating = {} /\ Len(actors) = 0
    BY <1>5, ZenonT(60) DEF OneChannel
  <2>2. Len(actors') <= 1
    BY <2>1
  <2>3. m.st # "failed" /\ m.st # "ok"
    OBVIOUS
  <2>4. \A i \in Creating' : i = k
    BY <1>4, <2>1, ZenonT(60)
  <2> QED  BY <1>1, <1>2, <1>4, <2>1, <2>2, <2>3, <2>4, ZenonT(60)
<1> QED  BY <1>3, <1>6

\* The step of GetPaych, up to the wait for its message.
LEMMA GetPaychKeeps ==
    ASSUME PaychInv, NEW t \in Tasks, GetPaych(t), settler' = settler
    PROVE  PaychInv'
<1>1. ChainOK /\ StoresOK(stores) /\ CallsOK /\ SettlerOK /\ LanesOK /\ OneChannel
  BY ZenonT(60) DEF PaychInv
<1>2. /\ tasks[t].pc = "get" /\ lk = 0
      /\ actors' = actors /\ stores' = stores /\ lanes' = lanes /\ sent' = sent /\ restarts' = restarts
  BY DEF GetPaych
<1>3. PICK ch \in IF findChan = {} THEN {0} ELSE findChan :
        \/ /\ msgs' = push(IF ch = 0 THEN "create" ELSE "funds", ch, tasks[t].amts[Len(tasks[t].amts)], <<>>)
           /\ lk' = lockFor(Len(msgs'))
           /\ tasks' = [tasks EXCEPT ![t].pc = "lane", ![t].ch = ch]
           /\ failures' = failures
        \/ /\ failures' = failures + 1
           /\ tasks' = [tasks EXCEPT ![t].pc = "err"]
           /\ msgs' = msgs /\ lk' = lk
  BY ZenonT(60) DEF GetPaych
<1>4. PICK a : a = tasks[t]
  BY ZenonT(60)
<1>5. a \in Task /\ a.amts # <<>> /\ sent' \subseteq Voucher
  <2>1. a \in Task /\ sent' \subseteq Voucher
    BY <1>1, <1>2, <1>4, ZenonT(60) DEF CallsOK
  <2>2. a.pc \notin {"end", "err"}
    BY <1>2, <1>4
  <2> QED  BY <1>1, <1>4, <2>1, <2>2, ZenonT(60) DEF CallsOK
<1>6. actors \in Seq(Actor) /\ msgs \in Seq(Message) /\ failures \in Nat
  BY <1>1, ZenonT(60) DEF ChainOK
<1>7. /\ ch \in Nat /\ (ch = 0 => DOMAIN stores["payer"] = {})
  <2>1. CASE findChan = {}
    <3>1. ch = 0
      BY <1>3, <2>1
    <3>2. \A c \in DOMAIN stores["payer"] : stores["payer"][c].dir = "out"
      BY <1>1, ZenonT(60) DEF StoresOK, Nodes
    <3>3. DOMAIN stores["payer"] = {}
      BY <2>1, <3>2, ZenonT(60) DEF findChan
    <3> QED  BY <3>1, <3>3
  <2>2. CASE findChan # {}
    <3>1. ch \in findChan
      BY <1>3, <2>2
    <3>2. ch \in DOMAIN actors
      BY <1>1, <3>1, ZenonT(60) DEF findChan, StoresOK, Nodes
    <3>3. ch \in Nat /\ ch # 0
      BY <1>6, <3>2
    <3> QED  BY <3>3
  <2> QED  BY <2>1, <2>2
<1>8. StoresOK(stores)' /\ LanesOK' /\ SettlerOK'
  BY <1>1, <1>2, RestKept, ZenonT(60)
<1>9. CASE /\ msgs' = push(IF ch = 0 THEN "create" ELSE "funds", ch, tasks[t].amts[Len(tasks[t].amts)], <<>>)
           /\ lk' = lockFor(Len(msgs'))
           /\ tasks' = [tasks EXCEPT ![t].pc = "lane", ![t].ch = ch]
           /\ failures' = failures
  <2>1. PICK y : y = [a EXCEPT !.pc = "lane", !.ch = ch]
    BY ZenonT(60)
  <2>2. y \in Task
    BY <1>5, <1>7, <2>1, ZenonT(60) DEF Task
  <2>3. y.amts = a.amts
    <3>1. DOMAIN a = {"pc", "ch", "lane", "nonce", "extra", "amts"}
      BY <1>5 DEF Task
    <3> QED  BY <2>1, <3>1
  <2>4. tasks' = [tasks EXCEPT ![t] = y]
    BY <1>4, <1>9, <2>1, ZenonT(60)
  <2>5. CallsOK'
    BY <1>1, <1>5, <2>2, <2>3, <2>4, CallGoesOn, ZenonT(60)
  <2>6. PICK amt : amt = a.amts[Len(a.amts)]
    BY ZenonT(60)
  <2>7. amt \in Nat
    <3>1. PICK s \in Seq(Nat) : s = a.amts
      BY <1>5, ZenonT(60) DEF Task
    <3> QED  BY <1>5, <2>6, <3>1
  <2>8. PICK k : k = IF ch = 0 THEN "create" ELSE "funds"
    BY ZenonT(60)
  <2>9. PICK m : m = [kind |-> k, ch |-> ch, amt |-> amt, sv |-> <<>>, st |-> "pushed"]
    BY ZenonT(60)
  <2>10. msgs' = Append(msgs, m)
    BY <1>4, <1>9, <2>6, <2>8, <2>9, ZenonT(60) DEF push
  <2>11. m \in Message /\ m.kind = k /\ m.st = "pushed" /\ k # "update"
    <3>1. k \in {"create", "funds"}
      BY <2>8
    <3>2. PICK sv : sv = <<>>
      BY ZenonT(60)
    <3>3. sv \in Voucher \cup {<<>>}
      BY <3>2, ZenonT(60)
    <3>4. m = [kind |-> k, ch |-> ch, amt |-> amt, sv |-> sv, st |-> "pushed"]
      BY <2>9, <3>2, ZenonT(60)
    <3> QED  BY <1>7, <2>7, <3>1, <3>3, <3>4 DEF Message
  <2>12. lk' = Len(msgs')
    BY <1>9, ZenonT(60) DEF lockFor
  <2>13. CASE ch = 0
    <3>1. m.kind = "create"
      BY <2>8, <2>11, <2>13
    <3>2. ChainOK' /\ OneChannel'
      BY <1>1, <1>2, <1>7, <1>9, <2>10, <2>11, <2>12, <2>13, <3>1, PushCreate, ZenonT(60)
    <3> QED  BY <1>8, <2>5, <3>2, ZenonT(60) DEF PaychInv
  <2>14. CASE ch # 0
    <3>1. m.kind # "create" /\ m.kind # "update"
      BY <2>8, <2>11, <2>14
    <3>2. ChainOK' /\ OneChannel'
      BY <1>1, <1>2, <1>9, <2>10, <2>11, <2>12, <3>1, PushKeeps, ZenonT(60)
    <3> QED  BY <1>8, <2>5, <3>2, ZenonT(60) DEF PaychInv
  <2> QED  BY <2>13, <2>14
<1>10. CASE /\ failures' = failures + 1
            /\ tasks' = [tasks EXCEPT ![t].pc = "err"]
            /\ msgs' = msgs /\ lk' = lk
  <2>1. PICK y : y = [a EXCEPT !.pc = "err"]
    BY ZenonT(60)
  <2>2. y \in Task
    BY <1>5, <2>1, ZenonT(60) DEF Task
  <2>3. y.amts = a.amts
    <3>1. DOMAIN a = {"pc", "ch", "lane", "nonce", "extra", "amts"}
      BY <1>5 DEF Task
    <3> QED  BY <2>1, <3>1
  <2>4. tasks' = [tasks EXCEPT ![t] = y]
    BY <1>4, <1>10, <2>1
  <2>5. CallsOK'
    BY <1>1, <1>5, <2>2, <2>3, <2>4, CallGoesOn, ZenonT(60)
  <2>6. failures' \in Nat /\ failures' # 0
    BY <1>6, <1>10
  <2>7. ChainOK' /\ OneChannel'
    BY <1>1, <1>2, <1>10, <2>6, ZenonT(60) DEF ChainOK, OneChannel
  <2> QED  BY <1>8, <2>5, <2>7, ZenonT(60) DEF PaychInv
<1> QED  BY <1>3, <1>9, <1>10, ZenonT(60)

\* The goroutine that waits for the channel to be created tracks it and unlocks.
LEMMA CreateWaitKeeps ==
    ASSUME PaychInv, waitForPaychCreateMsg, settler' = settler
    PROVE  PaychInv'
<1>1. ChainOK /\ StoresOK(stores) /\ CallsOK /\ SettlerOK /\ LanesOK /\ OneChannel
  BY ZenonT(60) DEF PaychInv
<1>2. /\ lk # 0 /\ msgs[lk].kind = "create" /\ lk' = 0
      /\ actors' = actors /\ msgs' = msgs /\ tasks' = tasks /\ lanes' = lanes /\ sent' = sent /\ restarts' = restarts
  BY DEF waitForPaychCreateMsg
<1>3. \/ msgs[lk].st = "ok" /\ stores' = trackChannel("payer", msgs[lk].ch, "out") /\ failures' = failures
      \/ msgs[lk].st = "failed" /\ stores' = stores /\ failures' = failures
      \/ failures' = failures + 1 /\ stores' = stores
  BY ZenonT(60) DEF waitForPaychCreateMsg
<1>4. actors \in Seq(Actor) /\ msgs \in Seq(Message) /\ failures \in Nat /\ restarts \in Nat /\ lk \in DOMAIN msgs
  BY <1>1, <1>2, ZenonT(60) DEF ChainOK
<1>5. lk \in Creating
  BY <1>2, <1>4, ZenonT(60) DEF Creating
<1>6. ChainOK' /\ CallsOK'
  <2>1. failures' \in Nat
    BY <1>3, <1>4
  <2> QED  BY <1>1, <1>2, <2>1, ZenonT(60) DEF ChainOK, CallsOK
<1>7. Creating' = Creating
  BY <1>2, ZenonT(60) DEF Creating
<1>8. "payer" \in Nodes /\ "payee" \in Nodes
  BY DEF Nodes
<1>9. CASE msgs[lk].st = "ok" /\ stores' = trackChannel("payer", msgs[lk].ch, "out") /\ failures' = failures
  <2>1. PICK ch : ch = msgs[lk].ch
    BY ZenonT(60)
  <2>2. /\ StoresOK(stores') /\ \A m \in Nodes : Grows(stores[m], stores'[m])
        /\ ch \in DOMAIN actors => ch \in DOMAIN stores'["payer"]
    <3>1. stores' = trackChannel("payer", ch, "out") /\ "out" \in {"in", "out"}
      BY <1>9, <2>1
    <3> QED  BY <1>1, <1>4, <1>8, <3>1, Tracked, ZenonT(60)
  <2>3. StoresOK(stores)'
    BY <1>2, <2>2, ZenonT(60) DEF StoresOK
  <2>4. LanesOK'
    BY <1>1, <1>2, <1>8, <2>2, <2>3, LanesKept, ZenonT(60)
  <2>5. SettlerOK'
    <3>1. DOMAIN stores["payee"] \subseteq DOMAIN stores'["payee"]
      BY <1>8, <2>2, ZenonT(60) DEF Grows
    <3> QED  BY <1>1, <3>1, SettlerKept, ZenonT(60)
  <2>6. OneChannel'
    <3> SUFFICES ASSUME failures' = 0, restarts' = 0
                 PROVE  /\ Len(actors') <= 1
                        /\ \A i \in Creating' : /\ msgs'[i].st = "pushed" => lk' = i /\ Len(actors') = 0
                                                /\ msgs'[i].st # "failed"
                                                /\ msgs'[i].st = "ok" => msgs'[i].ch \in DOMAIN actors'
                        /\ (Creating' = {} /\ Len(actors') = 0) \/ DOMAIN stores'["payer"] # {} \/ lk' \in Creating'
      BY ZenonT(60) DEF OneChannel
    <3>1. /\ Len(actors) <= 1
          /\ \A i \in Creating : /\ msgs[i].st = "pushed" => lk = i /\ Len(actors) = 0
                                 /\ msgs[i].st # "failed"
                                 /\ msgs[i].st = "ok" => msgs[i].ch \in DOMAIN actors
      BY <1>1, <1>2, <1>9, ZenonT(60) DEF OneChannel
    <3>2. DOMAIN stores'["payer"] # {}
      BY <1>5, <1>9, <2>1, <2>2, <3>1, ZenonT(60)
    <3>3. ASSUME NEW i \in Creating PROVE msgs[i].st # "pushed"
      <4>1. msgs[lk].st # "pushed"
        BY <1>9
      <4> QED  BY <3>1, <4>1, ZenonT(60)
    <3> QED  BY <1>2, <1>7, <3>1, <3>2, <3>3, ZenonT(60)
  <2> QED  BY <1>6, <2>3, <2>4, <2>5, <2>6, ZenonT(60) DEF PaychInv
<1>10. CASE stores' = stores /\ ((msgs[lk].st = "failed" /\ failures' = failures) \/ failures' = failures + 1)
  <2>1. StoresOK(stores)' /\ LanesOK' /\ SettlerOK'
    BY <1>1, <1>2, <1>10, RestKept, ZenonT(60)
  <2>2. CASE msgs[lk].st = "failed" /\ failures' = failures
    <3>1. ~ (failures' = 0 /\ restarts' = 0)
      BY <1>1, <1>2, <1>5, <2>2, ZenonT(60) DEF OneChannel
    <3>2. OneChannel'
      BY <3>1, ZenonT(60) DEF OneChannel
    <3> QED  BY <1>6, <2>1, <3>2, ZenonT(60) DEF PaychInv
  <2>3. CASE failures' = failures + 1
    <3>1. failures' # 0
      BY <1>4, <2>3
    <3>2. OneChannel'
      BY <3>1, ZenonT(60) DEF OneChannel
    <3> QED  BY <1>6, <2>1, <3>2, ZenonT(60) DEF PaychInv
  <2> QED  BY <1>10, <2>2, <2>3
<1> QED  BY <1>3, <1>9, <1>10, ZenonT(60)

\* The goroutine that waits for the funds unlocks.
LEMMA FundsWaitKeeps ==
    ASSUME PaychInv, waitForAddFundsMsg, settler' = settler
    PROVE  PaychInv'
<1>1. ChainOK /\ StoresOK(stores) /\ CallsOK /\ SettlerOK /\ LanesOK /\ OneChannel
  BY ZenonT(60) DEF PaychInv
<1>2. /\ msgs[lk].kind = "funds" /\ lk' = 0
      /\ actors' = actors /\ msgs' = msgs /\ stores' = stores /\ tasks' = tasks /\ lanes' = lanes /\ sent' = sent
      /\ failures' = failures /\ restarts' = restarts
  BY DEF waitForAddFundsMsg
<1>3. lk \notin Creating
  <2>1. msgs[lk].kind # "create"
    BY <1>2
  <2> QED  BY <2>1, ZenonT(60) DEF Creating
<1>4. Creating' = Creating
  BY <1>2, ZenonT(60) DEF Creating
<1>5. ChainOK' /\ CallsOK'
  BY <1>1, <1>2, ZenonT(60) DEF ChainOK, CallsOK
<1>6. StoresOK(stores)' /\ LanesOK' /\ SettlerOK'
  BY <1>1, <1>2, RestKept, ZenonT(60)
<1>7. OneChannel'
  BY <1>1, <1>2, <1>3, <1>4, SameChannel, ZenonT(60)
<1> QED  BY <1>5, <1>6, <1>7, ZenonT(60) DEF PaychInv

\* A restart.
LEMMA RestartKeeps ==
    ASSUME PaychInv, Restart, settler' = settler
    PROVE  PaychInv'
<1>1. ChainOK /\ StoresOK(stores) /\ CallsOK /\ SettlerOK /\ LanesOK
  BY ZenonT(60) DEF PaychInv
<1>2. /\ restarts' = restarts + 1 /\ lk' = 0
      /\ actors' = actors /\ msgs' = msgs /\ stores' = stores /\ lanes' = lanes /\ sent' = sent /\ failures' = failures
  BY DEF Restart
<1>3. restarts' \in Nat /\ restarts' # 0
  <2>1. restarts \in Nat
    BY <1>1, ZenonT(60) DEF ChainOK
  <2> QED  BY <1>2, <2>1
<1>4. ChainOK' /\ OneChannel'
  BY <1>1, <1>2, <1>3, ZenonT(60) DEF ChainOK, OneChannel
<1>5. StoresOK(stores)' /\ LanesOK' /\ SettlerOK'
  BY <1>1, <1>2, RestKept, ZenonT(60)
<1>6. CallsOK'
  <2>1. tasks \in [Tasks -> Task] /\ \A t \in Tasks : tasks[t].pc \notin {"end", "err"} => tasks[t].amts # <<>>
    BY <1>1, ZenonT(60) DEF CallsOK
  <2>2. tasks' = [t \in Tasks |-> IF tasks[t].pc \in {"get", "create", "end"} THEN tasks[t]
                                  ELSE [tasks[t] EXCEPT !.pc = "err"]]
    BY ZenonT(60) DEF Restart
  <2>3. ASSUME NEW a \in Task PROVE [a EXCEPT !.pc = "err"] \in Task /\ [a EXCEPT !.pc = "err"].pc = "err"
    <3>1. [a EXCEPT !.pc = "err"] \in Task
      BY ZenonT(60) DEF Task
    <3>2. DOMAIN a = {"pc", "ch", "lane", "nonce", "extra", "amts"}
      BY DEF Task
    <3> QED  BY <3>1, <3>2
  <2>4. ASSUME NEW t \in Tasks
        PROVE  tasks'[t] \in Task /\ (tasks'[t].pc \notin {"end", "err"} => tasks'[t].amts # <<>>)
    <3>1. tasks'[t] = IF tasks[t].pc \in {"get", "create", "end"} THEN tasks[t] ELSE [tasks[t] EXCEPT !.pc = "err"]
      BY <2>2, <2>4, ZenonT(60)
    <3>2. tasks[t] \in Task
      BY <2>1, <2>4, ZenonT(60)
    <3> QED  BY <2>1, <2>3, <2>4, <3>1, <3>2, ZenonT(60)
  <2>5. tasks' \in [Tasks -> Task]
    BY <2>2, <2>4, ZenonT(60)
  <2> QED  BY <1>1, <1>2, <2>4, <2>5, ZenonT(60) DEF CallsOK
<1> QED  BY <1>4, <1>5, <1>6, ZenonT(60) DEF PaychInv

\* The vouchers of a channel are finitely many, with lanes below its nextLane.
LEMMA VouchersOf ==
    ASSUME NEW st, StoresOK(st), NEW n \in Nodes, NEW ch \in DOMAIN st[n], NEW R, R = Range(VouchersForPaych(st, n, ch))
    PROVE  R \subseteq Voucher /\ IsFiniteSet(R) /\ \A v \in R : v.lane < st[n][ch].nextLane
<1>1. PICK ci : ci = st[n][ch]
  BY ZenonT(60)
<1>2. ChannelOK(ci)
  BY <1>1, ZenonT(60) DEF StoresOK
<1>3. PICK vs : vs = ci.vouchers
  BY ZenonT(60)
<1>4. vs \in Seq(Stored) /\ \A i \in DOMAIN vs : vs[i].voucher.lane < ci.nextLane
  BY <1>2, <1>3, ZenonT(60) DEF ChannelOK, Channel
<1>5. \A i \in DOMAIN vs : vs[i] \in Stored
  BY <1>4
<1>6. \A i \in DOMAIN vs : vs[i].voucher \in Voucher
  BY <1>5, ZenonT(60) DEF Stored
<1>7. PICK f : f = [i \in DOMAIN vs |-> vs[i].voucher]
  BY ZenonT(60)
<1>8. R = {f[i] : i \in DOMAIN vs}
  <2>1. VouchersForPaych(st, n, ch) = f
    BY <1>1, <1>3, <1>7, ZenonT(60) DEF VouchersForPaych
  <2>2. R = {f[i] : i \in DOMAIN f}
    BY <2>1, ZenonT(60) DEF Range
  <2> QED  BY <1>7, <2>2, ZenonT(60)
<1>9. IsFiniteSet(DOMAIN vs)
  <2>1. PICK N \in Nat : DOMAIN vs = 1 .. N
    BY <1>4
  <2> QED  BY <2>1, FS_Interval
<1>10. IsFiniteSet(R)
  <2>1. IsFiniteSet({f[i] : i \in DOMAIN vs})
    BY <1>9, ImageIsFinite, ZenonT(60)
  <2> QED  BY <1>8, <2>1, ZenonT(60)
<1>11. \A i \in DOMAIN vs : f[i] = vs[i].voucher
  BY <1>7, ZenonT(60)
<1>12. R \subseteq Voucher
  BY <1>6, <1>8, <1>11, ZenonT(60)
<1>13. \A v \in R : v.lane < ci.nextLane
  BY <1>4, <1>8, <1>11, ZenonT(60)
<1> QED  BY <1>1, <1>10, <1>12, <1>13, ZenonT(60)

\* A lane is given above all that were given for the channel.
LEMMA LaneGiven ==
    ASSUME LanesOK, StoresOK(stores), StoresOK(stores)', Grows(stores["payer"], stores'["payer"]),
           NEW ch \in DOMAIN stores["payer"], ch \in Nat, NEW l \in Nat, l = stores["payer"][ch].nextLane,
           l < stores'["payer"][ch].nextLane,
           NEW x, x = [ch |-> ch, lane |-> l, used |-> FALSE], lanes' = Append(lanes, x)
    PROVE  LanesOK'
<1>1. lanes \in Seq(Lane) /\ x \in Lane
  <2>1. lanes \in Seq(Lane)
    BY ZenonT(60) DEF LanesOK
  <2> QED  BY <2>1 DEF Lane
<1>2. PICK k : k = Len(lanes) + 1
  BY ZenonT(60)
<1>3. lanes' \in Seq(Lane) /\ DOMAIN lanes' = DOMAIN lanes \cup {k} /\ lanes'[k] = x /\ \A i \in DOMAIN lanes : lanes'[i] = lanes[i]
  BY <1>1, <1>2
<1>4. x.ch = ch /\ x.lane = l /\ x.used = FALSE
  OBVIOUS
<1>5. ch \in DOMAIN stores'["payer"]
  BY ZenonT(60) DEF Grows
<1>6. ASSUME NEW i \in DOMAIN lanes
      PROVE  /\ ~ lanes[i].used /\ lanes[i].ch \in DOMAIN stores'["payer"]
             /\ lanes[i].lane < stores'["payer"][lanes[i].ch].nextLane
             /\ lanes[i] # x
  <2>1. PICK c : c = lanes[i].ch
    BY ZenonT(60)
  <2>2. PICK m : m = lanes[i].lane
    BY ZenonT(60)
  <2>3. ~ lanes[i].used /\ c \in DOMAIN stores["payer"] /\ m < stores["payer"][c].nextLane
    BY <1>6, <2>1, <2>2, ZenonT(60) DEF LanesOK
  <2>4. m \in Nat
    <3>1. lanes[i] \in Lane
      BY <1>1, <1>6
    <3> QED  BY <2>2, <3>1, ZenonT(60) DEF Lane
  <2>5. c \in DOMAIN stores'["payer"] /\ stores["payer"][c].nextLane <= stores'["payer"][c].nextLane
    BY <2>3, ZenonT(60) DEF Grows
  <2>6. stores["payer"][c] \in Channel /\ stores'["payer"][c] \in Channel
    BY <2>3, <2>5, ZenonT(60) DEF StoresOK, ChannelOK, Nodes
  <2>7. PICK p : p = stores["payer"][c].nextLane
    BY ZenonT(60)
  <2>8. PICK q : q = stores'["payer"][c].nextLane
    BY ZenonT(60)
  <2>9. p \in Nat /\ q \in Nat
    BY <2>6, <2>7, <2>8, ZenonT(60) DEF Channel
  <2>10. m < p /\ p <= q
    BY <2>3, <2>5, <2>7, <2>8, ZenonT(60)
  <2>11. m < q /\ m # p
    BY ONLY <2>4, <2>9, <2>10, SMTT(60)
  <2>12. lanes[i] # x
    BY <1>4, <2>1, <2>2, <2>7, <2>11, ZenonT(60)
  <2> QED  BY <2>1, <2>2, <2>3, <2>5, <2>8, <2>11, <2>12, ZenonT(60)
<1>7. ASSUME NEW i \in DOMAIN lanes'
      PROVE  /\ ~ lanes'[i].used /\ lanes'[i].ch \in DOMAIN stores'["payer"]
             /\ lanes'[i].lane < stores'["payer"][lanes'[i].ch].nextLane
  <2>1. CASE i \in DOMAIN lanes
    BY <1>3, <1>6, <2>1, ZenonT(60)
  <2>2. CASE i = k
    BY <1>3, <1>4, <1>5, <2>2, ZenonT(60)
  <2> QED  BY <1>3, <1>7, <2>1, <2>2, ZenonT(60)
<1>8. ASSUME NEW i \in DOMAIN lanes', NEW j \in DOMAIN lanes', i # j PROVE lanes'[i] # lanes'[j]
  <2>1. \A a, b \in DOMAIN lanes : a # b => lanes[a] # lanes[b]
    BY ZenonT(60) DEF LanesOK
  <2>2. CASE i \in DOMAIN lanes /\ j \in DOMAIN lanes
    BY <1>3, <1>8, <2>1, <2>2, ZenonT(60)
  <2>3. CASE i = k /\ j \in DOMAIN lanes
    BY <1>3, <1>6, <2>3, ZenonT(60)
  <2>4. CASE i \in DOMAIN lanes /\ j = k
    BY <1>3, <1>6, <2>4, ZenonT(60)
  <2> QED  BY <1>3, <1>8, <2>2, <2>3, <2>4, ZenonT(60)
<1> QED  BY <1>3, <1>7, <1>8, ZenonT(60) DEF LanesOK

\* Steps that only change the stores, and keep channels in them.
LEMMA StoresStep ==
    ASSUME ChainOK, StoresOK(stores), SettlerOK, OneChannel,
           StoresOK(stores'), \A n \in Nodes : Grows(stores[n], stores'[n]),
           actors' = actors, msgs' = msgs, lk' = lk, failures' = failures, restarts' = restarts, settler' = settler
    PROVE  ChainOK' /\ StoresOK(stores)' /\ SettlerOK' /\ OneChannel'
<1>1. "payer" \in Nodes /\ "payee" \in Nodes
  BY DEF Nodes
<1>2. ChainOK' /\ Creating' = Creating
  BY ZenonT(60) DEF ChainOK, Creating
<1>3. StoresOK(stores)'
  BY ZenonT(60) DEF StoresOK
<1>4. \A n \in Nodes : DOMAIN stores[n] \subseteq DOMAIN stores'[n]
  BY ZenonT(60) DEF Grows
<1>5. SettlerOK'
  BY <1>1, <1>4, SettlerKept, ZenonT(60)
<1>6. OneChannel'
  BY <1>1, <1>2, <1>4, SameChannel, ZenonT(60)
<1> QED  BY <1>2, <1>3, <1>5, <1>6, ZenonT(60)

\* A call fails.
LEMMA CallFails ==
    ASSUME CallsOK, NEW t \in Tasks, tasks' = [tasks EXCEPT ![t].pc = "err"], sent' = sent
    PROVE  CallsOK'
<1>1. PICK a : a = tasks[t]
  BY ZenonT(60)
<1>2. a \in Task /\ sent' \subseteq Voucher
  BY <1>1, ZenonT(60) DEF CallsOK
<1>3. PICK y : y = [a EXCEPT !.pc = "err"]
  BY ZenonT(60)
<1>4. y \in Task
  BY <1>2, <1>3, ZenonT(60) DEF Task
<1>5. y.pc = "err"
  <2>1. DOMAIN a = {"pc", "ch", "lane", "nonce", "extra", "amts"}
    BY <1>2 DEF Task
  <2> QED  BY <1>3, <2>1
<1>6. tasks' = [tasks EXCEPT ![t] = y]
  BY <1>1, <1>3, ZenonT(60)
<1>7. y.pc \in {"end", "err"}
  BY <1>5
<1> QED  BY <1>2, <1>4, <1>6, <1>7, CallGoesOn, ZenonT(60)

\* AllocateLane.
LEMMA AllocateLaneKeeps ==
    ASSUME PaychInv, NEW t \in Tasks, AllocateLane(t), settler' = settler
    PROVE  PaychInv'
<1>1. ChainOK /\ StoresOK(stores) /\ CallsOK /\ SettlerOK /\ LanesOK /\ OneChannel
  BY ZenonT(60) DEF PaychInv
<1>2. /\ tasks[t].pc = "lane"
      /\ actors' = actors /\ msgs' = msgs /\ lk' = lk /\ sent' = sent /\ failures' = failures /\ restarts' = restarts
  BY DEF AllocateLane
<1>3. PICK a : a = tasks[t]
  BY ZenonT(60)
<1>4. a \in Task /\ a.amts # <<>> /\ sent' \subseteq Voucher
  <2>1. a \in Task /\ sent' \subseteq Voucher
    BY <1>1, <1>2, <1>3, ZenonT(60) DEF CallsOK
  <2>2. a.pc \notin {"end", "err"}
    BY <1>2, <1>3
  <2> QED  BY <1>1, <1>3, <2>1, <2>2, ZenonT(60) DEF CallsOK
<1>5. PICK ch \in Nat : ch = a.ch
  BY <1>4, ZenonT(60) DEF Task
<1>6. "payer" \in Nodes
  BY DEF Nodes
<1>7. CASE ch \notin DOMAIN stores["payer"]
  <2>1. tasks' = [tasks EXCEPT ![t].pc = "err"] /\ stores' = stores /\ lanes' = lanes
    BY <1>3, <1>5, <1>7, ZenonT(60) DEF AllocateLane
  <2>2. CallsOK'
    BY <1>1, <1>2, <2>1, CallFails, ZenonT(60)
  <2>3. \A n \in Nodes : Grows(stores[n], stores'[n])
    BY <1>1, <2>1, SameStores, ZenonT(60)
  <2>4. ChainOK' /\ StoresOK(stores)' /\ SettlerOK' /\ OneChannel'
    BY <1>1, <1>2, <2>1, <2>3, StoresStep, ZenonT(60)
  <2>5. LanesOK'
    BY <1>1, <1>6, <2>1, <2>3, <2>4, LanesKept, ZenonT(60)
  <2> QED  BY <2>2, <2>4, <2>5, ZenonT(60) DEF PaychInv
<1>8. CASE ch \in DOMAIN stores["payer"]
  <2>1. PICK ci : ci = stores["payer"][ch]
    BY ZenonT(60)
  <2>2. ChannelOK(ci) /\ ch \in DOMAIN actors /\ ci.dir = "out" /\ DOMAIN stores = Nodes
    BY <1>1, <1>6, <1>8, <2>1, ZenonT(60) DEF StoresOK
  <2>3. ci \in Channel /\ \A i \in DOMAIN ci.vouchers : ci.vouchers[i].voucher.lane < ci.nextLane
    BY <2>2, ZenonT(60) DEF ChannelOK
  <2>4. PICK l \in Nat : l = ci.nextLane
    BY <2>3, ZenonT(60) DEF Channel
  <2>5. PICK u : u = \E v \in Range(VouchersForPaych(stores, "payer", ch)) : v.lane = l
    BY ZenonT(60)
  <2>6. u = FALSE
    <3>1. PICK R : R = Range(VouchersForPaych(stores, "payer", ch))
      BY ZenonT(60)
    <3>2. R \subseteq Voucher /\ \A v \in R : v.lane < stores["payer"][ch].nextLane
      BY <1>1, <1>6, <1>8, <3>1, VouchersOf, ZenonT(60)
    <3>3. ASSUME NEW v \in R PROVE v.lane # l
      <4>1. v.lane < l
        BY <2>1, <2>4, <3>2, <3>3, ZenonT(60)
      <4>2. v.lane \in Nat
        BY <3>2, <3>3, ZenonT(60) DEF Voucher
      <4> QED  BY ONLY <4>1, <4>2, l \in Nat, SMTT(60)
    <3>4. ~ \E v \in Range(VouchersForPaych(stores, "payer", ch)) : v.lane = l
      BY <3>1, <3>3, ZenonT(60)
    <3> QED  BY <2>5, <3>4, ZenonT(60)
  <2>7. PICK x : x = [ch |-> ch, lane |-> l, used |-> u]
    BY ZenonT(60)
  <2>8. /\ stores' = [stores EXCEPT !["payer"][ch].nextLane = @ + 1]
        /\ lanes' = Append(lanes, x)
        /\ tasks' = [tasks EXCEPT ![t].pc = "nonce", ![t].lane = l]
    BY <1>3, <1>5, <1>8, <2>1, <2>4, <2>5, <2>7, ZenonT(60) DEF AllocateLane
  <2>9. PICK c : c = [ci EXCEPT !.nextLane = l + 1]
    BY ZenonT(60)
  <2>10. ChannelOK(c) /\ c.nextLane = l + 1 /\ c.dir = "out"
    <3>1. DOMAIN ci = {"dir", "vouchers", "nextLane"}
      BY <2>3 DEF Channel
    <3>2. c.nextLane = l + 1 /\ c.dir = ci.dir /\ c.vouchers = ci.vouchers
      BY <2>9, <3>1
    <3>3. l + 1 \in Nat
      OBVIOUS
    <3>4. c \in Channel
      BY <2>3, <2>9, <3>3, ZenonT(60) DEF Channel
    <3>5. PICK vs \in Seq(Stored) : vs = ci.vouchers
      BY <2>3, ZenonT(60) DEF Channel
    <3>6. ASSUME NEW i \in DOMAIN vs PROVE vs[i].voucher.lane < l + 1
      <4>1. vs[i] \in Stored
        BY <3>6
      <4>2. vs[i].voucher.lane \in Nat
        BY <4>1, ZenonT(60) DEF Stored, Voucher
      <4>3. vs[i].voucher.lane < l
        BY <2>3, <2>4, <3>5, <3>6, ZenonT(60)
      <4> QED  BY ONLY <4>2, <4>3, l \in Nat, SMTT(60)
    <3> QED  BY <2>2, <3>2, <3>4, <3>5, <3>6, ZenonT(60) DEF ChannelOK
  <2>11. Updated(stores, stores', "payer", ch, c)
    <3>1. PICK p : p = [stores["payer"] EXCEPT ![ch] = c]
      BY ZenonT(60)
    <3>2. stores' = [stores EXCEPT !["payer"] = p]
      BY <2>1, <2>4, <2>8, <2>9, <3>1, ZenonT(60)
    <3>3. DOMAIN p = DOMAIN stores["payer"] /\ \A y \in DOMAIN p : p[y] = IF y = ch THEN c ELSE stores["payer"][y]
      BY <3>1, ZenonT(60)
    <3>4. DOMAIN stores' = Nodes /\ stores'["payer"] = p /\ \A m \in Nodes : m # "payer" => stores'[m] = stores[m]
      BY <1>6, <2>2, <3>2, ZenonT(60)
    <3> QED  BY <1>8, <3>3, <3>4, ZenonT(60) DEF Updated
  <2>12. StoresOK(stores') /\ \A m \in Nodes : Grows(stores[m], stores'[m])
    <3>1. l <= l + 1
      OBVIOUS
    <3>2. stores["payer"][ch].nextLane <= c.nextLane
      BY <2>1, <2>4, <2>10, <3>1, ZenonT(60)
    <3> QED  BY <1>1, <1>6, <2>2, <2>10, <2>11, <3>2, UpdateKeeps, ZenonT(60)
  <2>13. ChainOK' /\ StoresOK(stores)' /\ SettlerOK' /\ OneChannel'
    BY <1>1, <1>2, <2>12, StoresStep, ZenonT(60)
  <2>14. LanesOK'
    <3>1. x = [ch |-> ch, lane |-> l, used |-> FALSE]
      BY <2>6, <2>7, ZenonT(60)
    <3>2. l < l + 1
      OBVIOUS
    <3>3. stores'["payer"][ch] = c
      BY <1>8, <2>11, ZenonT(60) DEF Updated
    <3>4. l < stores'["payer"][ch].nextLane
      BY <2>10, <3>2, <3>3, ZenonT(60)
    <3>5. l = stores["payer"][ch].nextLane
      BY <2>1, <2>4, ZenonT(60)
    <3> QED  BY <1>1, <1>6, <1>8, <2>8, <2>12, <2>13, <3>1, <3>4, <3>5, LaneGiven, ZenonT(60)
  <2>15. CallsOK'
    <3>1. PICK y : y = [a EXCEPT !.pc = "nonce", !.lane = l]
      BY ZenonT(60)
    <3>2. y \in Task
      BY <1>4, <3>1, ZenonT(60) DEF Task
    <3>3. y.amts = a.amts
      <4>1. DOMAIN a = {"pc", "ch", "lane", "nonce", "extra", "amts"}
        BY <1>4 DEF Task
      <4> QED  BY <3>1, <4>1
    <3>4. tasks' = [tasks EXCEPT ![t] = y]
      BY <1>3, <2>8, <3>1, ZenonT(60)
    <3> QED  BY <1>1, <1>4, <3>2, <3>3, <3>4, CallGoesOn, ZenonT(60)
  <2> QED  BY <2>13, <2>14, <2>15, ZenonT(60) DEF PaychInv
<1> QED  BY <1>7, <1>8

\* Steps that leave the channels, the messages and the stores alone.
LEMMA StillOK ==
    ASSUME ChainOK, StoresOK(stores), LanesOK, OneChannel,
           actors' = actors, msgs' = msgs, stores' = stores, lk' = lk, lanes' = lanes,
           failures' = failures, restarts' = restarts
    PROVE  ChainOK' /\ StoresOK(stores)' /\ LanesOK' /\ OneChannel'
  BY ZenonT(60) DEF ChainOK, StoresOK, LanesOK, OneChannel, Creating

\* The choice of a nonce.
LEMMA NextNonceKeeps ==
    ASSUME PaychInv, NEW t \in Tasks, NextNonceForLane(t), settler' = settler
    PROVE  PaychInv'
<1>1. ChainOK /\ StoresOK(stores) /\ CallsOK /\ SettlerOK /\ LanesOK /\ OneChannel
  BY ZenonT(60) DEF PaychInv
<1>2. /\ tasks[t].pc \in {"nonce", "create"}
      /\ actors' = actors /\ msgs' = msgs /\ stores' = stores /\ lk' = lk /\ lanes' = lanes /\ sent' = sent
      /\ failures' = failures /\ restarts' = restarts
  BY DEF NextNonceForLane
<1>3. ChainOK' /\ StoresOK(stores)' /\ LanesOK' /\ OneChannel'
  BY <1>1, <1>2, StillOK, ZenonT(60)
<1>4. SettlerOK'
  BY <1>1, <1>2, ZenonT(60) DEF SettlerOK
<1>5. PICK a : a = tasks[t]
  BY ZenonT(60)
<1>6. a \in Task /\ a.amts # <<>> /\ sent' \subseteq Voucher
  <2>1. a \in Task /\ sent' \subseteq Voucher
    BY <1>1, <1>2, <1>5, ZenonT(60) DEF CallsOK
  <2>2. a.pc \notin {"end", "err"}
    BY <1>2, <1>5
  <2> QED  BY <1>1, <1>5, <2>1, <2>2, ZenonT(60) DEF CallsOK
<1>7. PICK ch : ch = a.ch
  BY ZenonT(60)
<1>8. PICK R : R = Range(VouchersForPaych(stores, "payer", ch))
  BY ZenonT(60)
<1>9. PICK W : W = {v \in R : v.lane = a.lane}
  BY ZenonT(60)
<1>10. PICK M : M = {0} \cup {v.nonce : v \in W}
  BY ZenonT(60)
<1>11. tasks' = IF ch \notin DOMAIN stores["payer"] THEN [tasks EXCEPT ![t].pc = "err"]
                ELSE [tasks EXCEPT ![t].pc = "add", ![t].nonce = Max(M) + 1]
  BY <1>5, <1>7, <1>8, <1>9, <1>10, ZenonT(60) DEF NextNonceForLane
<1>12. CallsOK'
  <2>1. CASE ch \notin DOMAIN stores["payer"]
    <3>1. tasks' = [tasks EXCEPT ![t].pc = "err"]
      BY <1>11, <2>1, ZenonT(60)
    <3> QED  BY <1>1, <1>2, <3>1, CallFails, ZenonT(60)
  <2>2. CASE ch \in DOMAIN stores["payer"]
    <3>1. "payer" \in Nodes
      BY DEF Nodes
    <3>2. R \subseteq Voucher /\ IsFiniteSet(R)
      BY <1>1, <1>8, <2>2, <3>1, VouchersOf, ZenonT(60)
    <3>3. W \subseteq Voucher /\ IsFiniteSet(W)
      <4>1. W \subseteq R
        BY <1>9, ZenonT(60)
      <4> QED  BY <3>2, <4>1, FS_Subset, ZenonT(60)
    <3>4. M \in SUBSET Nat /\ M # {}
      <4>1. \A v \in W : v.nonce \in Nat
        BY <3>3, ZenonT(60) DEF Voucher
      <4> QED  BY <1>10, <4>1
    <3>5. IsFiniteSet(M)
      <4> DEFINE f == [v \in W |-> v.nonce]
      <4>1. IsFiniteSet({f[v] : v \in W})
        BY <3>3, ImageIsFinite, ZenonT(60)
      <4>2. {f[v] : v \in W} = {v.nonce : v \in W}
        BY ZenonT(60)
      <4>3. IsFiniteSet({v.nonce : v \in W} \cup {0})
        BY <4>1, <4>2, FS_AddElement, ZenonT(60)
      <4>4. M = {v.nonce : v \in W} \cup {0}
        BY <1>10, ZenonT(60)
      <4> QED  BY <4>3, <4>4, ZenonT(60)
    <3>6. PICK n : n = Max(M) + 1
      BY ZenonT(60)
    <3>7. n \in Nat
      <4>1. Max(M) \in Nat
        BY <3>4, <3>5, MaxOfFinite, ZenonT(60)
      <4> QED  BY <3>6, <4>1
    <3>8. PICK y : y = [a EXCEPT !.pc = "add", !.nonce = n]
      BY ZenonT(60)
    <3>9. y \in Task
      BY <1>6, <3>7, <3>8, ZenonT(60) DEF Task
    <3>10. y.amts = a.amts
      <4>1. DOMAIN a = {"pc", "ch", "lane", "nonce", "extra", "amts"}
        BY <1>6 DEF Task
      <4> QED  BY <3>8, <4>1
    <3>11. tasks' = [tasks EXCEPT ![t] = y]
      BY <1>5, <1>11, <2>2, <3>6, <3>8, ZenonT(60)
    <3> QED  BY <1>1, <1>6, <3>9, <3>10, <3>11, CallGoesOn, ZenonT(60)
  <2> QED  BY <2>1, <2>2
<1> QED  BY <1>3, <1>4, <1>12, ZenonT(60) DEF PaychInv

\* AddVoucher at the payer.
LEMMA AddVoucherKeeps ==
    ASSUME PaychInv, NEW t \in Tasks, AddVoucher(t), settler' = settler
    PROVE  PaychInv'
<1>1. ChainOK /\ StoresOK(stores) /\ CallsOK /\ SettlerOK /\ LanesOK /\ OneChannel
  BY ZenonT(60) DEF PaychInv
<1>2. /\ tasks[t].pc = "add"
      /\ actors' = actors /\ msgs' = msgs /\ lk' = lk /\ lanes' = lanes /\ failures' = failures /\ restarts' = restarts
  BY DEF AddVoucher
<1>3. PICK a : a = tasks[t]
  BY ZenonT(60)
<1>4. a \in Task /\ a.amts # <<>>
  <2>1. a \in Task
    BY <1>1, <1>3, ZenonT(60) DEF CallsOK
  <2>2. a.pc \notin {"end", "err"}
    BY <1>2, <1>3
  <2> QED  BY <1>1, <1>3, <2>1, <2>2, ZenonT(60) DEF CallsOK
<1>5. PICK sv : sv = [ch |-> a.ch, lane |-> a.lane, nonce |-> a.nonce, amt |-> Head(a.amts), extra |-> a.extra]
  BY ZenonT(60)
<1>6. PICK s \in Seq(Nat) : s = a.amts
  BY <1>4, ZenonT(60) DEF Task
<1>7. s # <<>> /\ Head(s) \in Nat /\ Tail(s) \in Seq(Nat) /\ (Len(s) # 1 => Tail(s) # <<>>)
  <2>1. s # <<>>
    BY <1>4, <1>6, ZenonT(60)
  <2>2. Len(s) \in Nat /\ Len(s) # 0 /\ Head(s) \in Nat /\ Tail(s) \in Seq(Nat) /\ Len(Tail(s)) = Len(s) - 1
    BY <2>1
  <2>3. Len(s) # 1 => Len(Tail(s)) # 0
    BY ONLY <2>2, SMTT(60)
  <2>4. Len(<<>>) = 0
    OBVIOUS
  <2> QED  BY <2>1, <2>2, <2>3, <2>4, ZenonT(60)
<1>8. sv \in Voucher
  <2>1. a.ch \in Nat /\ a.lane \in Nat /\ a.nonce \in Nat /\ a.extra \in BOOLEAN /\ Head(a.amts) \in Nat
    BY <1>4, <1>6, <1>7, ZenonT(60) DEF Task
  <2> QED  BY <1>5, <2>1, ZenonT(60) DEF Voucher
<1>9. PICK ch : ch = a.ch
  BY ZenonT(60)
<1>10. PICK res : res = Added(stores, "payer", ch, sv, FALSE, 0)
  BY ZenonT(60)
<1>11. /\ stores' = res.st
       /\ sent' = IF res.ok THEN sent \cup {sv} ELSE sent
       /\ tasks' = [tasks EXCEPT ![t].pc = IF ~ res.ok THEN "err" ELSE IF Len(a.amts) = 1 THEN "end" ELSE "nonce",
                                 ![t].amts = Tail(@)]
  BY <1>3, <1>5, <1>9, <1>10, ZenonT(60) DEF AddVoucher
<1>12. "payer" \in Nodes /\ FALSE \in BOOLEAN
  BY DEF Nodes
<1>13. StoresOK(stores') /\ \A m \in Nodes : Grows(stores[m], stores'[m])
  <2>1. stores' = Added(stores, "payer", ch, sv, FALSE, 0).st
    BY <1>10, <1>11, ZenonT(60)
  <2> QED  BY <1>1, <1>8, <1>12, <2>1, AddedKeeps, ZenonT(60)
<1>14. ChainOK' /\ StoresOK(stores)' /\ SettlerOK' /\ OneChannel'
  BY <1>1, <1>2, <1>13, StoresStep, ZenonT(60)
<1>15. LanesOK'
  BY <1>1, <1>2, <1>12, <1>13, <1>14, LanesKept, ZenonT(60)
<1>16. CallsOK'
  <2>1. sent' \subseteq Voucher
    <3>1. sent \subseteq Voucher
      BY <1>1, ZenonT(60) DEF CallsOK
    <3> QED  BY <1>8, <1>11, <3>1, ZenonT(60)
  <2>2. PICK p : p = IF ~ res.ok THEN "err" ELSE IF Len(a.amts) = 1 THEN "end" ELSE "nonce"
    BY ZenonT(60)
  <2>3. p \in {"err", "end", "nonce"} /\ (p = "nonce" => Len(s) # 1)
    BY <1>6, <2>2
  <2>4. PICK r \in Seq(Nat) : r = Tail(s)
    BY <1>7, ZenonT(60)
  <2>5. PICK y : y = [a EXCEPT !.pc = p, !.amts = r]
    BY ZenonT(60)
  <2>6. y \in Task
    BY <1>4, <2>3, <2>4, <2>5, ZenonT(60) DEF Task
  <2>7. y.amts = r /\ y.pc = p
    <3>1. DOMAIN a = {"pc", "ch", "lane", "nonce", "extra", "amts"}
      BY <1>4 DEF Task
    <3> QED  BY <2>5, <3>1
  <2>8. tasks' = [tasks EXCEPT ![t] = y]
    <3>1. tasks' = [tasks EXCEPT ![t].pc = p, ![t].amts = Tail(@)]
      BY <1>11, <2>2, ZenonT(60)
    <3> QED  BY <1>3, <1>6, <2>4, <2>5, <3>1, ZenonT(60)
  <2>9. y.pc \notin {"end", "err"} => y.amts # <<>>
    BY <1>7, <2>3, <2>4, <2>7
  <2> QED  BY <1>1, <2>1, <2>6, <2>8, <2>9, CallGoesOn, ZenonT(60)
<1> QED  BY <1>14, <1>15, <1>16, ZenonT(60) DEF PaychInv

\* A message about a channel that exists is pushed.
LEMMA PushedKeeps ==
    ASSUME ChainOK, StoresOK(stores), LanesOK, OneChannel, NEW kind \in {"settle", "update"}, NEW n \in Nodes, NEW ch \in DOMAIN stores[n],
           NEW sv \in Voucher \cup {<<>>}, kind = "update" => sv \in Voucher, msgs' = push(kind, ch, 0, sv),
           actors' = actors, stores' = stores, lk' = lk, lanes' = lanes, failures' = failures, restarts' = restarts
    PROVE  ChainOK' /\ StoresOK(stores)' /\ LanesOK' /\ OneChannel'
<1>1. PICK m : m = [kind |-> kind, ch |-> ch, amt |-> 0, sv |-> sv, st |-> "pushed"]
  BY ZenonT(60)
<1>2. msgs' = Append(msgs, m)
  BY <1>1, ZenonT(60) DEF push
<1>3. ch \in Nat
  <2>1. ch \in DOMAIN actors /\ actors \in Seq(Actor)
    BY ZenonT(60) DEF StoresOK, ChainOK
  <2> QED  BY <2>1
<1>4. m \in Message /\ m.kind = kind /\ m.sv = sv
  BY <1>1, <1>3 DEF Message
<1>5. kind # "create"
  OBVIOUS
<1>6. ChainOK' /\ OneChannel'
  BY <1>2, <1>4, <1>5, PushKeeps, ZenonT(60)
<1>7. StoresOK(stores)' /\ LanesOK'
  BY ZenonT(60) DEF StoresOK, LanesOK
<1> QED  BY <1>6, <1>7

\* PaychSettle.
LEMMA SettleKeeps ==
    ASSUME PaychInv, NEW ch, PaychSettle(ch), settler' = settler
    PROVE  PaychInv'
<1>1. ChainOK /\ StoresOK(stores) /\ CallsOK /\ SettlerOK /\ LanesOK /\ OneChannel
  BY ZenonT(60) DEF PaychInv
<1>2. /\ ch \in DOMAIN stores["payer"] /\ msgs' = push("settle", ch, 0, <<>>)
      /\ actors' = actors /\ stores' = stores /\ lk' = lk /\ tasks' = tasks /\ lanes' = lanes /\ sent' = sent
      /\ failures' = failures /\ restarts' = restarts
  BY DEF PaychSettle
<1>3. "payer" \in Nodes /\ "settle" \in {"settle", "update"} /\ "settle" # "update"
  BY DEF Nodes
<1>4. PICK sv \in Voucher \cup {<<>>} : sv = <<>>
  BY ZenonT(60)
<1>5. ChainOK' /\ StoresOK(stores)' /\ LanesOK' /\ OneChannel'
  BY <1>1, <1>2, <1>3, <1>4, PushedKeeps, ZenonT(60)
<1>6. CallsOK' /\ SettlerOK'
  BY <1>1, <1>2, ZenonT(60) DEF CallsOK, SettlerOK
<1> QED  BY <1>5, <1>6, ZenonT(60) DEF PaychInv

\* PaychVoucherSubmit at the payee, by hand.
LEMMA SubmitKeeps ==
    ASSUME PaychInv, NEW sv \in sent, PaychVoucherSubmit(sv), settler' = settler,
           UNCHANGED <<actors, stores, lk, tasks, lanes, sent, failures, restarts>>
    PROVE  PaychInv'
<1>1. ChainOK /\ StoresOK(stores) /\ CallsOK /\ SettlerOK /\ LanesOK /\ OneChannel
  BY ZenonT(60) DEF PaychInv
<1>2. /\ actors' = actors /\ stores' = stores /\ lk' = lk /\ tasks' = tasks /\ lanes' = lanes /\ sent' = sent
      /\ failures' = failures /\ restarts' = restarts
  OBVIOUS
<1>3. PICK ch : ch = sv.ch
  BY ZenonT(60)
<1>4. ch \in DOMAIN stores["payee"] /\ msgs' = push("update", ch, 0, sv)
  BY <1>3, ZenonT(60) DEF PaychVoucherSubmit
<1>5. "payee" \in Nodes /\ "update" \in {"settle", "update"}
  BY DEF Nodes
<1>6. sv \in Voucher /\ sv \in Voucher \cup {<<>>}
  BY <1>1, ZenonT(60) DEF CallsOK
<1>7. ChainOK' /\ StoresOK(stores)' /\ LanesOK' /\ OneChannel'
  BY <1>1, <1>2, <1>4, <1>5, <1>6, PushedKeeps, ZenonT(60)
<1>8. CallsOK' /\ SettlerOK'
  BY <1>1, <1>2, ZenonT(60) DEF CallsOK, SettlerOK
<1> QED  BY <1>7, <1>8, ZenonT(60) DEF PaychInv

\* PaychVoucherAdd: trackChannel and AddVoucher at the payee.
LEMMA VoucherAddKeeps ==
    ASSUME PaychInv, NEW sv, NEW proof \in BOOLEAN, NEW d, PaychVoucherAdd(sv, proof, d), settler' = settler
    PROVE  PaychInv'
<1>1. ChainOK /\ StoresOK(stores) /\ CallsOK /\ SettlerOK /\ LanesOK /\ OneChannel
  BY ZenonT(60) DEF PaychInv
<1>2. /\ sv \in sent
      /\ actors' = actors /\ msgs' = msgs /\ lk' = lk /\ tasks' = tasks /\ lanes' = lanes /\ sent' = sent
      /\ failures' = failures /\ restarts' = restarts
  BY DEF PaychVoucherAdd
<1>3. sv \in Voucher /\ actors \in Seq(Actor)
  BY <1>1, <1>2, ZenonT(60) DEF CallsOK, ChainOK
<1>4. PICK ch : ch = sv.ch
  BY ZenonT(60)
<1>5. PICK s : s = trackChannel("payee", ch, "in")
  BY ZenonT(60)
<1>6. "payer" \in Nodes /\ "payee" \in Nodes /\ "in" \in {"in", "out"} /\ "payee" # "payer"
  BY DEF Nodes
<1>7. StoresOK(s) /\ \A m \in Nodes : Grows(stores[m], s[m])
  BY <1>1, <1>3, <1>5, <1>6, Tracked, ZenonT(60)
<1>8. stores' = Added(s, "payee", ch, sv, proof, d).st
  BY <1>4, <1>5, ZenonT(60) DEF PaychVoucherAdd
<1>9. StoresOK(stores') /\ \A m \in Nodes : Grows(s[m], stores'[m])
  BY <1>3, <1>6, <1>7, <1>8, AddedKeeps, ZenonT(60)
<1>10. ASSUME NEW m \in Nodes PROVE Grows(stores[m], stores'[m])
  <2>1. DOMAIN stores[m] \subseteq DOMAIN s[m] /\ DOMAIN s[m] \subseteq DOMAIN stores'[m]
    BY <1>7, <1>9, <1>10, ZenonT(60) DEF Grows
  <2>2. ASSUME NEW c \in DOMAIN stores[m] PROVE stores[m][c].nextLane <= stores'[m][c].nextLane
    <3>1. c \in DOMAIN s[m] /\ c \in DOMAIN stores'[m]
      BY <2>1, <2>2, ZenonT(60)
    <3>2. stores[m][c] \in Channel /\ s[m][c] \in Channel /\ stores'[m][c] \in Channel
      BY <1>1, <1>7, <1>9, <1>10, <2>2, <3>1, ZenonT(60) DEF StoresOK, ChannelOK
    <3>3. PICK x \in Nat : x = stores[m][c].nextLane
      BY <3>2, ZenonT(60) DEF Channel
    <3>4. PICK y \in Nat : y = s[m][c].nextLane
      BY <3>2, ZenonT(60) DEF Channel
    <3>5. PICK z \in Nat : z = stores'[m][c].nextLane
      BY <3>2, ZenonT(60) DEF Channel
    <3>6. x <= y
      BY <1>7, <1>10, <2>2, <3>3, <3>4, ZenonT(60) DEF Grows
    <3>7. y <= z
      BY <1>9, <1>10, <3>1, <3>4, <3>5, ZenonT(60) DEF Grows
    <3>8. x <= z
      BY ONLY <3>6, <3>7, x \in Nat, y \in Nat, z \in Nat, SMTT(60)
    <3> QED  BY <3>3, <3>5, <3>8, ZenonT(60)
  <2> QED  BY <2>1, <2>2, ZenonT(60) DEF Grows
<1>11. ChainOK' /\ StoresOK(stores)' /\ SettlerOK' /\ OneChannel'
  BY <1>1, <1>2, <1>9, <1>10, StoresStep, ZenonT(60)
<1>12. LanesOK'
  BY <1>1, <1>2, <1>6, <1>10, <1>11, LanesKept, ZenonT(60)
<1>13. CallsOK'
  BY <1>1, <1>2, ZenonT(60) DEF CallsOK
<1> QED  BY <1>11, <1>12, <1>13, ZenonT(60) DEF PaychInv

\* The settler's own steps.
LEMMA SettlerKeeps ==
    ASSUME PaychInv, (\E id \in DOMAIN msgs : matcher(id)) \/ SettlerStep
    PROVE  PaychInv'
<1>1. ChainOK /\ StoresOK(stores) /\ CallsOK /\ SettlerOK /\ LanesOK /\ OneChannel
  BY ZenonT(60) DEF PaychInv
<1>2. /\ DOMAIN settler = {"pc", "ch", "list", "best", "waits", "owed"} /\ settler.best \subseteq Voucher
      /\ (settler.pc = "list" => settler.ch \in DOMAIN stores["payee"])
      /\ (settler.pc = "check" => settler.list \in Seq(Voucher))
  BY <1>1, ZenonT(60) DEF SettlerOK
<1>3. ASSUME UNCHANGED paychVars, SettlerOK' PROVE PaychInv'
  <2>1. /\ actors' = actors /\ msgs' = msgs /\ stores' = stores /\ lk' = lk /\ tasks' = tasks /\ lanes' = lanes /\ sent' = sent
        /\ failures' = failures /\ restarts' = restarts
    BY <1>3 DEF paychVars
  <2>2. ChainOK' /\ StoresOK(stores)' /\ LanesOK' /\ OneChannel'
    BY <1>1, <2>1, StillOK, ZenonT(60)
  <2>3. CallsOK'
    BY <1>1, <2>1, ZenonT(60) DEF CallsOK
  <2> QED  BY <1>3, <2>2, <2>3, ZenonT(60) DEF PaychInv
<1>4. UNCHANGED paychVars => stores' = stores
  BY DEF paychVars
<1>5. ASSUME NEW id \in DOMAIN msgs, matcher(id) PROVE PaychInv'
  <2>1. PICK o : o = Range(VouchersForPaych(stores, "payee", msgs[id].ch))
    BY ZenonT(60)
  <2>2. PICK c : c = msgs[id].ch
    BY ZenonT(60)
  <2>3. c \in DOMAIN stores["payee"] /\ settler' = [settler EXCEPT !.pc = "list", !.ch = c, !.owed = o] /\ UNCHANGED paychVars
    BY <1>5, <2>1, <2>2, ZenonT(60) DEF matcher
  <2>4. DOMAIN settler' = DOMAIN settler /\ settler'.best = settler.best /\ settler'.pc = "list" /\ settler'.ch = c
    BY <1>2, <2>3
  <2>5. settler'.pc # "check"
    BY <2>4
  <2>6. SettlerOK'
    BY <1>2, <1>4, <2>3, <2>4, <2>5, ZenonT(60) DEF SettlerOK
  <2> QED  BY <1>3, <2>3, <2>6, ZenonT(60)
<1>6. ASSUME NEW p, p \notin {"list", "check"}, settler' = [settler EXCEPT !.pc = p], UNCHANGED paychVars PROVE PaychInv'
  <2>1. DOMAIN settler' = DOMAIN settler /\ settler'.best = settler.best /\ settler'.pc = p
    BY <1>2, <1>6
  <2>2. SettlerOK'
    BY <1>2, <1>6, <2>1, ZenonT(60) DEF SettlerOK
  <2> QED  BY <1>3, <1>6, <2>2, ZenonT(60)
<1>7. ASSUME gaveUp, UNCHANGED paychVars PROVE PaychInv'
  <2>1. DOMAIN settler' = DOMAIN settler /\ settler'.best = {} /\ settler'.pc # "list" /\ settler'.pc # "check"
    BY <1>2, <1>7 DEF gaveUp, Idle
  <2>2. SettlerOK'
    BY <1>2, <2>1, ZenonT(60) DEF SettlerOK
  <2> QED  BY <1>3, <1>7, <2>2, ZenonT(60)
<1>8. ASSUME PaychVoucherList PROVE PaychInv'
  <2>1. PICK l : l = VouchersForPaych(stores, "payee", settler.ch)
    BY ZenonT(60)
  <2>2. settler.pc = "list" /\ (settler' = [settler EXCEPT !.pc = "check", !.list = l] \/ gaveUp) /\ UNCHANGED paychVars
    BY <1>8, <2>1, ZenonT(60) DEF PaychVoucherList
  <2>3. CASE settler' = [settler EXCEPT !.pc = "check", !.list = l]
    <3>1. DOMAIN settler' = DOMAIN settler /\ settler'.best = settler.best /\ settler'.pc = "check" /\ settler'.list = l
      BY <1>2, <2>3
    <3>2. settler'.pc # "list"
      BY <3>1
    <3>3. l \in Seq(Voucher)
      <4>1. "payee" \in Nodes
        BY DEF Nodes
      <4>2. PICK vs : vs = stores["payee"][settler.ch].vouchers
        BY ZenonT(60)
      <4>3. ChannelOK(stores["payee"][settler.ch])
        BY <1>1, <1>2, <2>2, <4>1, ZenonT(60) DEF StoresOK
      <4>4. vs \in Seq(Stored)
        BY <4>2, <4>3 DEF ChannelOK, Channel
      <4>5. \A i \in DOMAIN vs : vs[i].voucher \in Voucher
        <5>1. \A i \in DOMAIN vs : vs[i] \in Stored
          BY <4>4
        <5> QED  BY <5>1, ZenonT(60) DEF Stored
      <4>6. l = [i \in DOMAIN vs |-> vs[i].voucher]
        BY <2>1, <4>2, ZenonT(60) DEF VouchersForPaych
      <4>7. Len(vs) \in Nat /\ DOMAIN vs = 1 .. Len(vs)
        BY <4>4
      <4>8. l \in [1 .. Len(vs) -> Voucher]
        BY <4>5, <4>6, <4>7, ZenonT(60)
      <4> QED  BY <4>7, <4>8
    <3>4. SettlerOK'
      BY <1>2, <3>1, <3>2, <3>3, ZenonT(60) DEF SettlerOK
    <3> QED  BY <1>3, <2>2, <3>4, ZenonT(60)
  <2> QED  BY <1>7, <2>2, <2>3, ZenonT(60)
<1>9. ASSUME checkVoucher PROVE PaychInv'
  <2>1. settler.pc = "check" /\ UNCHANGED paychVars
    BY <1>9, ZenonT(60) DEF checkVoucher
  <2>2. CASE settler.list # <<>> /\ settler' = [settler EXCEPT !.list = Tail(@), !.best = bestByLane(@, settler.list[1])]
    <3>1. PICK b : b = bestByLane(settler.best, settler.list[1])
      BY ZenonT(60)
    <3>2. PICK l : l = Tail(settler.list)
      BY ZenonT(60)
    <3>3. settler' = [settler EXCEPT !.list = l, !.best = b]
      BY <2>2, <3>1, <3>2, ZenonT(60)
    <3>4. DOMAIN settler' = DOMAIN settler /\ settler'.best = b /\ settler'.list = l /\ settler'.pc = settler.pc
      BY <1>2, <3>3
    <3>5. settler'.pc # "list"
      BY <2>1, <3>4
    <3>6. PICK v : v = settler.list[1]
      BY ZenonT(60)
    <3>7. v \in Voucher /\ l \in Seq(Voucher)
      <4>1. PICK s : s = settler.list
        BY ZenonT(60)
      <4>2. s \in Seq(Voucher) /\ s # <<>>
        BY <1>2, <2>1, <2>2, <4>1, ZenonT(60)
      <4>3. s[1] \in Voucher /\ Tail(s) \in Seq(Voucher)
        BY <4>2
      <4> QED  BY <3>2, <3>6, <4>1, <4>3, ZenonT(60)
    <3>8. b \subseteq settler.best \cup {v}
      BY <3>1, <3>6, ZenonT(60) DEF bestByLane
    <3>9. b \subseteq Voucher
      BY <1>2, <3>7, <3>8, ZenonT(60)
    <3>10. SettlerOK'
      BY <1>2, <3>4, <3>5, <3>7, <3>9, ZenonT(60) DEF SettlerOK
    <3> QED  BY <1>3, <2>1, <3>10, ZenonT(60)
  <2>3. CASE settler' = [settler EXCEPT !.pc = "submit"]
    <3>1. "submit" \notin {"list", "check"}
      OBVIOUS
    <3> QED  BY <1>6, <2>1, <2>3, <3>1, ZenonT(60)
  <2> QED  BY <1>9, <1>7, <2>1, <2>2, <2>3, ZenonT(60) DEF checkVoucher
<1>10. ASSUME waited PROVE PaychInv'
  <2>1. settler' = [settler EXCEPT !.pc = "done"] /\ UNCHANGED paychVars
    BY <1>10, ZenonT(60) DEF waited
  <2>2. "done" \notin {"list", "check"}
    OBVIOUS
  <2> QED  BY <1>6, <2>1, <2>2, ZenonT(60)
<1>11. ASSUME NEW sv \in settler.best, submit(sv) PROVE PaychInv'
  <2>1. CASE gaveUp /\ UNCHANGED paychVars
    BY <1>7, <2>1, ZenonT(60)
  <2>2. CASE /\ PaychVoucherSubmit(sv)
             /\ settler' = [settler EXCEPT !.best = @ \ {sv}, !.waits = @ \cup {Len(msgs')}]
             /\ UNCHANGED <<actors, stores, lk, tasks, lanes, sent, failures, restarts>>
    <3>1. /\ actors' = actors /\ stores' = stores /\ lk' = lk /\ tasks' = tasks /\ lanes' = lanes /\ sent' = sent
          /\ failures' = failures /\ restarts' = restarts
      BY <2>2
    <3>2. PICK ch : ch = sv.ch
      BY ZenonT(60)
    <3>3. ch \in DOMAIN stores["payee"] /\ msgs' = push("update", ch, 0, sv)
      BY <2>2, <3>2, ZenonT(60) DEF PaychVoucherSubmit
    <3>4. "payee" \in Nodes /\ "update" \in {"settle", "update"}
      BY DEF Nodes
    <3>5. sv \in Voucher /\ sv \in Voucher \cup {<<>>}
      BY <1>2, <1>11, ZenonT(60)
    <3>6. ChainOK' /\ StoresOK(stores)' /\ LanesOK' /\ OneChannel'
      BY <1>1, <3>1, <3>3, <3>4, <3>5, PushedKeeps, ZenonT(60)
    <3>7. settler.pc = "submit"
      BY <1>11, ZenonT(60) DEF submit
    <3>8. PICK w : w = settler.waits \cup {Len(msgs')}
      BY ZenonT(60)
    <3>9. PICK b : b = settler.best \ {sv}
      BY ZenonT(60)
    <3>10. settler' = [settler EXCEPT !.best = b, !.waits = w]
      BY <2>2, <3>8, <3>9, ZenonT(60)
    <3>11. DOMAIN settler' = DOMAIN settler /\ settler'.best = b /\ settler'.pc = settler.pc
      BY <1>2, <3>10
    <3>12. settler'.pc # "list" /\ settler'.pc # "check"
      BY <3>7, <3>11
    <3>13. b \subseteq Voucher
      BY <1>2, <3>9, ZenonT(60)
    <3>14. SettlerOK'
      BY <1>2, <3>11, <3>12, <3>13, ZenonT(60) DEF SettlerOK
    <3>15. CallsOK'
      BY <1>1, <3>1, ZenonT(60) DEF CallsOK
    <3> QED  BY <3>6, <3>14, <3>15, ZenonT(60) DEF PaychInv
  <2> QED  BY <1>11, <2>1, <2>2, ZenonT(60) DEF submit
<1> QED  BY <1>5, <1>8, <1>9, <1>10, <1>11, ZenonT(60) DEF SettlerStep

-----------------------------------------------------------------------------
(* The theorem *)

\* The invariant holds at the start.
LEMMA InitInv == Init => PaychInv
<1> SUFFICES ASSUME Init PROVE PaychInv
  OBVIOUS
<1>1. /\ msgs = <<>> /\ lk = 0 /\ lanes = <<>> /\ sent = {} /\ failures = 0 /\ restarts = 0
      /\ settler = [pc |-> "idle", ch |-> 0, list |-> <<>>, best |-> {}, waits |-> {}, owed |-> {}]
  BY DEF Init, PaychInit, Idle
<1>2. PICK p \in Programs : tasks = [t \in Tasks |-> p[t]]
  BY ZenonT(60) DEF Init, PaychInit
<1>3. CallsOK
  <2>1. ASSUME NEW t \in Tasks PROVE tasks[t] \in Task /\ tasks[t].amts # <<>>
    <3>1. PICK a : a = p[t]
      BY ZenonT(60)
    <3>2. a \in [pc : {"get", "create"}, ch : Nat, lane : Nat, nonce : Nat, extra : BOOLEAN, amts : Seq(Nat) \ {<<>>}]
      BY <1>2, <2>1, <3>1, ProgramsAssumption, ZenonT(60)
    <3>3. a \in Task /\ a.amts # <<>>
      BY <3>2 DEF Task
    <3>4. tasks[t] = a
      BY <1>2, <2>1, <3>1, ZenonT(60)
    <3> QED  BY <3>3, <3>4, ZenonT(60)
  <2>2. tasks \in [Tasks -> Task]
    BY <1>2, <2>1, ZenonT(60)
  <2> QED  BY <1>1, <2>1, <2>2, ZenonT(60) DEF CallsOK
<1>4. SettlerOK
  BY <1>1 DEF SettlerOK
<1>5. msgs \in Seq(Message) /\ DOMAIN msgs = {} /\ lanes \in Seq(Lane) /\ DOMAIN lanes = {}
  BY <1>1
<1>6. Creating = {}
  BY <1>5, ZenonT(60) DEF Creating
<1>7. LanesOK
  BY <1>5, ZenonT(60) DEF LanesOK
<1>8. ASSUME actors \in Seq(Actor) PROVE ChainOK
  <2>1. failures \in Nat /\ restarts \in Nat
    BY <1>1
  <2> QED  BY <1>1, <1>5, <1>8, <2>1, ZenonT(60) DEF ChainOK
<1>9. CASE actors = <<>> /\ stores = [n \in Nodes |-> <<>>]
  <2>1. actors \in Seq(Actor) /\ Len(actors) = 0
    BY <1>9
  <2>2. StoresOK(stores)
    <3>1. DOMAIN <<>> = {}
      OBVIOUS
    <3> QED  BY <1>9, <3>1, ZenonT(60) DEF StoresOK
  <2>3. OneChannel
    <3>1. Len(actors) <= 1
      BY <2>1
    <3> QED  BY <1>6, <2>1, <3>1, ZenonT(60) DEF OneChannel
  <2> QED  BY <1>3, <1>4, <1>7, <1>8, <2>1, <2>2, <2>3, ZenonT(60) DEF PaychInv
<1>10. ASSUME NEW b \in Funded, actors = <<newActor(b)>>,
              stores = [n \in Nodes |-> IF n = "payee" THEN <<>> ELSE put(<<>>, 1, newChannel("out", 1))]
       PROVE  PaychInv
  <2>1. PICK a \in Actor : a = newActor(b)
    <3>1. b \in Nat
      BY <1>10, ProgramsAssumption, ZenonT(60)
    <3> QED  BY <3>1, NewActor, ZenonT(60)
  <2>2. actors = <<a>>
    BY <1>10, <2>1, ZenonT(60)
  <2>3. actors \in Seq(Actor) /\ Len(actors) = 1 /\ 1 \in DOMAIN actors
    BY <2>2
  <2>4. PICK c : c = newChannel("out", 1)
    BY ZenonT(60)
  <2>5. ChannelOK(c) /\ c.dir = "out"
    <3>1. "out" \in {"in", "out"}
      OBVIOUS
    <3> QED  BY <2>3, <2>4, <3>1, NewChannelIs, ZenonT(60)
  <2>6. PICK f : f = put(<<>>, 1, c)
    BY ZenonT(60)
  <2>7. DOMAIN f = {1} /\ f[1] = c
    <3>1. DOMAIN <<>> = {}
      OBVIOUS
    <3>2. f = [x \in DOMAIN <<>> \cup {1} |-> IF x = 1 THEN c ELSE <<>>[x]]
      BY <2>6, ZenonT(60) DEF put
    <3> QED  BY <3>1, <3>2, ZenonT(60)
  <2>8. DOMAIN stores = Nodes /\ stores["payer"] = f /\ stores["payee"] = <<>> /\ Nodes = {"payer", "payee"}
    <3>1. stores = [n \in {"payer", "payee"} |-> IF n = "payee" THEN <<>> ELSE f]
      BY <1>10, <2>4, <2>6, ZenonT(60) DEF Nodes
    <3> QED  BY <3>1 DEF Nodes
  <2>9. StoresOK(stores)
    <3>1. DOMAIN <<>> = {}
      OBVIOUS
    <3> QED  BY <2>3, <2>5, <2>7, <2>8, <3>1, ZenonT(60) DEF StoresOK
  <2>10. OneChannel
    <3>1. Len(actors) <= 1
      BY <2>3
    <3>2. DOMAIN stores["payer"] # {}
      BY <2>7, <2>8, ZenonT(60)
    <3> QED  BY <1>6, <3>1, <3>2, ZenonT(60) DEF OneChannel
  <2> QED  BY <1>3, <1>4, <1>7, <1>8, <2>3, <2>9, <2>10, ZenonT(60) DEF PaychInv
<1> QED  BY <1>9, <1>10, ZenonT(60) DEF Init, PaychInit

\* Every step of the two nodes, of the chain and of the settler keeps it.
LEMMA NextInv == PaychInv /\ [Next]_vars => PaychInv'
<1> SUFFICES ASSUME PaychInv, [Next]_vars PROVE PaychInv'
  OBVIOUS
<1>1. ASSUME NEW t \in Tasks, PayerStep(t), settler' = settler PROVE PaychInv'
  BY <1>1, GetPaychKeeps, AllocateLaneKeeps, NextNonceKeeps, AddVoucherKeeps, ZenonT(60) DEF PayerStep
<1>2. ASSUME NEW id \in DOMAIN msgs, Execute(id), settler' = settler PROVE PaychInv'
  <2>1. ChainOK /\ StoresOK(stores) /\ CallsOK /\ SettlerOK /\ LanesOK /\ OneChannel
    BY ZenonT(60) DEF PaychInv
  <2>2. ChainOK' /\ OneChannel' /\ DOMAIN actors \subseteq DOMAIN actors'
    BY <1>2, <2>1, ExecuteKeeps, ZenonT(60)
  <2>3. stores' = stores /\ tasks' = tasks /\ lanes' = lanes /\ sent' = sent
    <3>1. UNCHANGED <<stores, lk, tasks, lanes, sent, restarts>>
      BY <1>2, ZenonT(60) DEF Execute
    <3> QED  BY <3>1
  <2>4. StoresOK(stores)' /\ LanesOK' /\ SettlerOK'
    BY <1>2, <2>1, <2>2, <2>3, RestKept, ZenonT(60)
  <2>5. CallsOK'
    BY <2>1, <2>3, ZenonT(60) DEF CallsOK
  <2> QED  BY <2>2, <2>4, <2>5, ZenonT(60) DEF PaychInv
<1>3. ASSUME PaychNext, settler' = settler PROVE PaychInv'
  <2>1. ASSUME NEW sv \in sent, PaychVoucherSubmit(sv), UNCHANGED <<actors, stores, lk, tasks, lanes, sent, failures, restarts>>
        PROVE  PaychInv'
    BY <1>3, <2>1, SubmitKeeps, ZenonT(60)
  <2>2. ASSUME NEW sv \in sent, NEW proof \in BOOLEAN, NEW d \in MinDeltas, PaychVoucherAdd(sv, proof, d) PROVE PaychInv'
    BY <1>3, <2>2, VoucherAddKeeps, ZenonT(60)
  <2>3. ASSUME waitForPaychCreateMsg \/ waitForAddFundsMsg \/ Restart PROVE PaychInv'
    BY <1>3, <2>3, CreateWaitKeeps, FundsWaitKeeps, RestartKeeps, ZenonT(60)
  <2>4. ASSUME NEW ch \in DOMAIN actors, PaychSettle(ch) PROVE PaychInv'
    BY <1>3, <2>4, SettleKeeps, ZenonT(60)
  <2> QED  BY <1>1, <1>2, <1>3, <2>1, <2>2, <2>3, <2>4, ZenonT(60) DEF PaychNext
<1>4. CASE UNCHANGED vars
  <2>1. settler' = settler /\ UNCHANGED paychVars
    BY <1>4 DEF vars
  <2>2. /\ actors' = actors /\ msgs' = msgs /\ stores' = stores /\ lk' = lk /\ tasks' = tasks /\ lanes' = lanes /\ sent' = sent
        /\ failures' = failures /\ restarts' = restarts
    BY <2>1 DEF paychVars
  <2>3. ChainOK /\ StoresOK(stores) /\ CallsOK /\ SettlerOK /\ LanesOK /\ OneChannel
    BY ZenonT(60) DEF PaychInv
  <2>4. ChainOK' /\ StoresOK(stores)' /\ LanesOK' /\ OneChannel'
    BY <2>2, <2>3, StillOK, ZenonT(60)
  <2>5. CallsOK' /\ SettlerOK'
    BY <2>1, <2>2, <2>3, ZenonT(60) DEF CallsOK, SettlerOK
  <2> QED  BY <2>4, <2>5, ZenonT(60) DEF PaychInv
<1>5. CASE Next
  <2>1. CASE PaychNext /\ UNCHANGED settler
    BY <1>3, <2>1, ZenonT(60)
  <2>2. CASE (\E id \in DOMAIN msgs : matcher(id)) \/ SettlerStep
    BY <2>2, SettlerKeeps, ZenonT(60)
  <2> QED  BY <1>5, <2>1, <2>2, ZenonT(60) DEF Next
<1> QED  BY <1>4, <1>5, ZenonT(60)

\* Nothing is allocated twice, for any calls at the payer, any number of restarts and
\* failures, and vouchers that arrive in any order: without a restart or a failed wait, the
\* calls of GetPaych make at most one channel between the two nodes, and AllocateLane
\* never gives a lane twice, nor one in which there are vouchers.
THEOREM PaychAllocatedOnce == Spec => []AllocatedOnce
<1>1. PaychInv => AllocatedOnce
  BY ZenonT(60) DEF PaychInv, LanesOK, OneChannel, AllocatedOnce
<1> QED  BY <1>1, InitInv, NextInv, PTL DEF Spec
=============================================================================
