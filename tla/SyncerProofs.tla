----------------------------- MODULE SyncerProofs -----------------------------
(***************************************************************************)
(* Proofs about Syncer, for every tree of tipsets and any number of        *)
(* callers of Sync: nothing is validated on top of what was not, and a     *)
(* Sync that succeeds leaves a head as heavy as its target.                *)
(***************************************************************************)
EXTENDS SyncerLemmas

\* the time limit of the SMT solver covers the preparation of the next obligations
USE SMTT(60)

-----------------------------------------------------------------------------
(* Every step keeps the invariant *)

\* A node that starts has its genesis.
LEMMA InitInv == Init => Inv
<1> SUFFICES ASSUME Init PROVE Inv
  OBVIOUS
<1>1. /\ head = Genesis /\ headers = Cids(Genesis) /\ messages = Cids(Genesis)
      /\ validated = Cids(Genesis) /\ tracker = Cids(Genesis)
      /\ bad = {} /\ targets = {} /\ loose = {} /\ sync = [c \in Callers |-> Idle]
  BY ZenonT(60) DEF Init
<1>2. ASSUME NEW ts \in TipSets, ts # Genesis PROVE Cids(ts) \cap validated = {}
  <2>1. Cids(ts) \cap Cids(Genesis) # {} => Parent[ts] = Parent[Genesis]
    BY BlocksOf, GenesisAssumption
  <2> QED  BY <1>1, <1>2, <2>1, GenesisAssumption
<1>3. StoreOK
  BY <1>1, <1>2, GenesisAssumption DEF StoreOK, ChainValidated, settled
<1>4. CallerOK(Idle, settled, validated, headers, head)
  <2>1. DOMAIN Idle = Fields /\ Idle.pc = "idle" /\ Idle.res = "none"
    BY DEF Idle, Fields
  <2> QED  BY <2>1 DEF CallerOK
<1>5. CallersOK
  <2>1. \A c \in Callers : sync[c] = Idle
    BY <1>1
  <2> QED  BY <1>1, <1>4, <2>1, ZenonT(60) DEF CallersOK
<1>6. BadOK
  BY <1>1 DEF BadOK
<1> QED  BY <1>3, <1>5, <1>6 DEF Inv

\* Announcements.
LEMMA InformNewHeadInv ==
    ASSUME Inv, NEW ts \in TipSets, InformNewHead(ts)
    PROVE  Inv'
<1>1. /\ UNCHANGED <<head, validated, tracker, bad, blamed, loose>> /\ messages \subseteq messages'
      /\ \/ UNCHANGED <<headers, targets, sync>>
         \/ headers' = headers \cup Cids(ts) /\ targets' \in {targets, targets \cup {ts}} /\ UNCHANGED sync
         \/ /\ UNCHANGED <<headers, targets>>
            /\ \E c \in Callers : sync' = [sync EXCEPT ![c] = begun(ts)]
  BY DEF InformNewHead
<1>2. StoreOK /\ CallersOK /\ BadOK /\ head \in TipSets /\ targets \subseteq TipSets
  BY DEF Inv, StoreOK
<1>3. headers \subseteq headers' /\ targets' \subseteq TipSets
  BY <1>1, <1>2
<1>4. StoreOK' /\ settled \subseteq settled'
  BY <1>1, <1>2, <1>3, SameStore
<1>5. BadOK'
  BY <1>1, <1>2, BadSame
<1>6. CallersOK'
  <2>1. CASE sync' = sync
    BY <1>1, <1>2, <1>3, <1>4, <2>1, NoCaller
  <2>2. ASSUME NEW c \in Callers, sync' = [sync EXCEPT ![c] = begun(ts)] PROVE CallersOK'
    <3>1. CallerOK(begun(ts), settled', validated', headers', head')
      BY BegunOK
    <3>2. head' \in TipSets /\ validated \subseteq validated' /\ Weight[head] <= Weight[head']
      BY <1>1, <1>2, WeightAssumption
    <3> QED  BY <1>2, <1>3, <1>4, <2>2, <3>1, <3>2, OneCaller, ZenonT(60)
  <2> QED  BY <1>1, <2>1, <2>2
<1> QED  BY <1>4, <1>5, <1>6 DEF Inv

\* A step of a caller that validates nothing and leaves the head alone.
LEMMA CallerInv ==
    ASSUME Inv, NEW c \in Callers, NEW s, sync' = [sync EXCEPT ![c] = s],
           CallerOK(s, settled, validated, headers', head), BadOK',
           UNCHANGED <<head, messages, validated, tracker, loose>>, headers \subseteq headers', targets' \subseteq targets
    PROVE  Inv'
<1>1. StoreOK /\ CallersOK /\ head \in TipSets /\ targets \subseteq TipSets
  BY DEF Inv, StoreOK
<1>2. StoreOK' /\ settled \subseteq settled'
  BY <1>1, SameStore
<1>3. head' \in TipSets /\ validated \subseteq validated' /\ Weight[head] <= Weight[head']
  BY <1>1, WeightAssumption
<1>4. CallerOK(s, settled', validated', headers', head')
  <2>1. settled' = settled /\ validated' = validated /\ head' = head
    BY DEF settled
  <2> QED  BY <2>1, ZenonT(60)
<1>5. CallersOK'
  BY <1>1, <1>2, <1>3, <1>4, OneCaller, ZenonT(60)
<1> QED  BY <1>2, <1>5 DEF Inv

\* A worker takes a target.
LEMMA SyncInv ==
    ASSUME Inv, NEW c \in Callers, Sync(c)
    PROVE  Inv'
<1>1. PICK ts \in targets : targets' = targets \ {ts} /\ sync' = [sync EXCEPT ![c] = begun(ts)]
  BY ZenonT(60) DEF Sync
<1>2. UNCHANGED <<head, headers, messages, validated, tracker, bad, blamed, loose>>
  BY DEF Sync, stored
<1>3. ts \in TipSets
  BY <1>1 DEF Inv, StoreOK
<1>4. CallerOK(begun(ts), settled, validated, headers', head)
  BY <1>3, BegunOK
<1>5. BadOK'
  BY <1>2, BadSame DEF Inv
<1> DEFINE s == begun(ts)
<1>6. sync' = [sync EXCEPT ![c] = s] /\ CallerOK(s, settled, validated, headers', head)
  BY <1>1, <1>4
<1> HIDE DEF s
<1>7. headers \subseteq headers' /\ targets' \subseteq targets
  BY <1>1, <1>2
<1>8. UNCHANGED <<head, messages, validated, tracker, loose>>
  BY <1>2
<1> QED  BY <1>5, <1>6, <1>7, <1>8, CallerInv, ZenonT(60)

\* The fields of a caller.
LEMMA CallerOf ==
    ASSUME Inv, NEW c \in Callers
    PROVE  CallerOK(sync[c], settled, validated, headers, head) /\ DOMAIN sync[c] = Fields
BY DEF Inv, CallersOK, CallerOK

\* The start of collectHeaders.
LEMMA CollectChainInv ==
    ASSUME Inv, NEW c \in Callers, collectChain(c)
    PROVE  Inv'
<1> DEFINE ts == sync[c].ts
           s == [sync[c] EXCEPT !.known = head, !.set = <<ts>>]
<1>1. /\ sync[c].pc = "collect"
      /\ \/ hasBad(Parent[ts]) /\ bad' = bad \cup Cids(ts) /\ sync' = [sync EXCEPT ![c] = ended(s, "bad")]
         \/ Blocks[ts][1] \in Unsorted /\ bad' = bad \cup {Blocks[ts][1]} /\ sync' = [sync EXCEPT ![c] = ended(s, "bad")]
         \/ bad' = bad /\ sync' = [sync EXCEPT ![c] = ended(s, "beacon")]
         \/ bad' = bad /\ sync' = [sync EXCEPT ![c] = [s EXCEPT !.pc = "headers"]]
  BY DEF collectChain, goes
<1>2. UNCHANGED <<head, headers, messages, validated, tracker, targets, blamed, loose>>
  BY DEF collectChain, stored
<1>3. CallerOK(sync[c], settled, validated, headers, head) /\ DOMAIN sync[c] = Fields
  BY CallerOf
<1>4. ts \in TipSets /\ ts # Genesis /\ sync[c].res = "none" /\ sync[c].accepted = {}
  BY <1>1, <1>3 DEF CallerOK
<1>5. DOMAIN s = Fields /\ s.ts = ts /\ s.known = head /\ s.set = <<ts>> /\ s.res = "none" /\ s.accepted = {}
  BY <1>3, <1>4 DEF Fields
<1>0. UNCHANGED <<head, messages, validated, tracker, loose>> /\ headers \subseteq headers' /\ targets' \subseteq targets
  BY <1>2
<1>9. blamed \subseteq blamed' /\ loose \subseteq loose'
  BY <1>2
<1>6. head \in TipSets /\ Cids(head) \subseteq settled /\ BadOK
  BY DEF Inv, StoreOK
<1> HIDE DEF s
<1>7. CASE sync' = [sync EXCEPT ![c] = ended(s, "bad")]
  <2>1. CallerOK(ended(s, "bad"), settled, validated, headers', head)
    BY <1>5, FailedOK
  <2>2. BadOK'
    <3>1. ASSUME hasBad(Parent[ts]), bad' = bad \cup Cids(ts) PROVE BadOK'
      <4>1. Parent[ts] \in TipSets /\ Parent[ts] \in Chain[Parent[ts]]
        BY <1>4, ChainOf
      <4>2. above(Parent[ts], Invalid \cup blamed \cup loose)
        BY <1>6, <3>1, <4>1, BadBelow
      <4>3. \A b \in Cids(ts) : HasReason(b)'
        <5>1. above(Parent[ts], Invalid \cup blamed' \cup loose')
          BY <1>2, <4>2, ZenonT(60)
        <5> QED  BY <1>4, <5>1, Reason, ZenonT(60)
      <4> QED  BY <1>6, <1>9, <3>1, <4>3, BadGrows, ZenonT(60)
    <3>2. ASSUME Blocks[ts][1] \in Unsorted, bad' = bad \cup {Blocks[ts][1]} PROVE BadOK'
      <4>1. Blocks[ts][1] \in Cids(ts) /\ Blocks[ts][1] \in Invalid
        BY <1>4, <3>2, BlocksOf, InvalidAssumption
      <4>2. PICK N : N = {Blocks[ts][1]}
        BY ZenonT(60)
      <4>3. bad' = bad \cup N /\ \A b \in N : b \in Cids(ts) /\ b \in Invalid \cup blamed'
        BY <3>2, <4>1, <4>2
      <4>4. \A b \in N : HasReason(b)'
        BY <1>4, <4>3, Reason, ZenonT(60)
      <4> QED  BY <1>6, <1>9, <4>3, <4>4, BadGrows, ZenonT(60)
    <3>3. CASE bad' = bad
      BY <1>2, <1>6, <3>3, BadSame
    <3> QED  BY <1>1, <3>1, <3>2, <3>3
  <2> QED  BY <1>0, <1>7, <2>1, <2>2, CallerInv, ZenonT(60)
<1>8. CASE bad' = bad /\ sync' = [sync EXCEPT ![c] = [s EXCEPT !.pc = "headers"]]
  <2> DEFINE n == [s EXCEPT !.pc = "headers"]
  <2>1. /\ DOMAIN n = Fields /\ n.pc = "headers" /\ n.ts = ts /\ n.known = head /\ n.set = <<ts>>
        /\ n.res = "none" /\ n.accepted = {}
    BY <1>5 DEF Fields
  <2>2. sync' = [sync EXCEPT ![c] = n]
    BY <1>8
  <2> HIDE DEF n
  <2>3. Linked(n.set) /\ n.set[1] = ts
    BY <1>4, <2>1, LinkedOne
  <2>4. Collected(n, settled)
    BY <1>4, <1>6, <2>1, <2>3 DEF Collected
  <2>5. Accepted(n)
    BY <2>1 DEF Accepted
  <2>6. CallerOK(n, settled, validated, headers', head)
    BY <1>4, <2>1, <2>4, <2>5 DEF CallerOK
  <2>7. BadOK'
    BY <1>6, <1>8, <1>9, BadSame
  <2> QED  BY <1>0, <2>2, <2>6, <2>7, CallerInv, ZenonT(60)
<1>10. CASE bad' = bad /\ sync' = [sync EXCEPT ![c] = ended(s, "beacon")]
  <2>1. CallerOK(ended(s, "beacon"), settled, validated, headers', head)
    BY <1>5, FailedOK
  <2>2. BadOK'
    BY <1>6, <1>9, <1>10, BadSame
  <2> QED  BY <1>0, <1>10, <2>1, <2>2, CallerInv, ZenonT(60)
<1> QED  BY <1>1, <1>7, <1>8, <1>10

\* A call that collected headers down to a bad tipset marks what it had accepted.
LEMMA RefusedInv ==
    ASSUME Inv, NEW c \in Callers, NEW t, NEW s, s = sync[c], s.pc = "headers", Collected(s, settled),
           Accepted(s), Last(s.set) # Genesis, t \in Chain[Parent[Last(s.set)]], hasBad(t),
           bad' = bad \cup s.accepted, UNCHANGED <<blamed, loose>>
    PROVE  BadOK'
<1>1. BadOK /\ Linked(s.set)
  BY DEF Inv, Collected
<1>2. ASSUME NEW b \in s.accepted PROVE HasReason(b)'
  <2>1. PICK j \in 1 .. Len(s.set) : b \in Cids(s.set[j])
    BY ZenonT(60) DEF Accepted
  <2> DEFINE u == s.set[j]
  <2>2. u \in TipSets /\ u # Genesis /\ Parent[u] \in TipSets /\ Chain[Parent[Last(s.set)]] \subseteq Chain[Parent[u]]
    BY <1>1, BelowAll
  <2> HIDE DEF u
  <2>3. t \in Chain[Parent[u]]
    BY <2>2
  <2>4. above(Parent[u], Invalid \cup blamed \cup loose)
    BY <1>1, <2>2, <2>3, BadBelow, ZenonT(60)
  <2>5. b \in Cids(u)
    BY <2>1 DEF u
  <2>6. above(Parent[u], Invalid \cup blamed' \cup loose')
    BY <2>4, ZenonT(60)
  <2> QED  BY <2>2, <2>5, <2>6, Reason, ZenonT(60)
<1>3. blamed \subseteq blamed' /\ loose \subseteq loose' /\ \A b \in s.accepted : HasReason(b)'
  BY <1>2
<1> QED  BY <1>1, <1>3, BadGrows, ZenonT(60)

\* What a caller knows at the start of a round of collectHeaders.
LEMMA RoundOf ==
    ASSUME Inv, NEW c \in Callers, NEW s, s = sync[c], s.pc = "headers",
           Height[Last(s.set)] > untilHeight(s),
           NEW got \in collectChainSegment(Parent[Last(s.set)], Min({Window, Height[Last(s.set)] - untilHeight(s)}))
    PROVE  LET at == Parent[Last(s.set)] IN
           /\ DOMAIN s = Fields /\ s.ts \in TipSets /\ s.res = "none" /\ Collected(s, settled) /\ Accepted(s)
           /\ Linked(s.set) /\ Last(s.set) \in TipSets /\ Last(s.set) # Genesis /\ at \in TipSets
           /\ untilHeight(s) \in Nat /\ untilHeight(s) = Height[s.known] + 1 /\ Height[s.known] \in Nat
           /\ Linked(got) /\ got[1] = at
<1> DEFINE at == Parent[Last(s.set)]
           n == Min({Window, Height[Last(s.set)] - untilHeight(s)})
<1>1. CallerOK(s, settled, validated, headers, head) /\ DOMAIN s = Fields
  BY CallerOf
<1>2. s.ts \in TipSets /\ s.res = "none" /\ Collected(s, settled) /\ Accepted(s)
  BY <1>1, ZenonT(60) DEF CallerOK
<1>3. Linked(s.set) /\ s.known \in TipSets
  BY <1>2 DEF Collected
<1>4. Last(s.set) \in TipSets
  BY <1>3, LinkedEnds
<1>5. Height[s.known] \in Nat /\ Height[Last(s.set)] \in Nat /\ untilHeight(s) = Height[s.known] + 1
  BY <1>3, <1>4, ForksAssumption DEF untilHeight
<1>6. Last(s.set) # Genesis
  BY <1>5, GenesisAssumption
<1>7. at \in TipSets
  BY <1>4, <1>6, ChainOf
<1>8. n \in Nat \ {0}
  <2> DEFINE m == Height[Last(s.set)] - untilHeight(s)
  <2>1. m \in Nat /\ m # 0
    BY <1>5
  <2> HIDE DEF m
  <2>2. Window \in Nat /\ Window # 0
    BY SizesAssumption
  <2>3. Min({Window, m}) \in {Window, m}
    BY <2>1, <2>2, MinOfTwo
  <2> QED  BY <2>1, <2>2, <2>3 DEF m
<1> HIDE DEF at, n
<1>9. Linked(got) /\ got[1] = at
  <2>1. got \in collectChainSegment(at, n)
    BY DEF at, n
  <2> QED  BY <1>7, <1>8, <2>1, AnswerLinked, ZenonT(60)
<1>10. untilHeight(s) \in Nat
  BY <1>5
<1> QED  BY <1>1, <1>2, <1>3, <1>4, <1>5, <1>6, <1>7, <1>9, <1>10, ZenonT(60) DEF at, n

\* One round of collectHeaders.
LEMMA CollectHeadersInv ==
    ASSUME Inv, NEW c \in Callers, collectHeaders(c)
    PROVE  Inv'
<1>1. PICK s : s = sync[c]
  BY ZenonT(60)
<1> DEFINE Parts(x, g) ==
      LET p == Parent[Last(x.set)]
          k == SubSeq(g, 1, Kept(g, untilHeight(x)))
      IN  \/ /\ hasBad(p) \/ (\E i \in DOMAIN k : hasBad(k[i]))
             /\ bad' = bad \cup x.accepted /\ sync' = [sync EXCEPT ![c] = ended(x, "bad")]
          \/ /\ UNCHANGED bad
             /\ sync' = [sync EXCEPT ![c] = [x EXCEPT !.set = Append(@, p), !.accepted = @ \cup Cids(p)]]
          \/ /\ UNCHANGED bad
             /\ sync' = [sync EXCEPT ![c] = [x EXCEPT !.set = @ \o k, !.accepted = @ \cup Cids(p),
                                                      !.pc = IF Len(k) < Len(g) THEN "base" ELSE @]]
          \/ UNCHANGED bad /\ sync' = [sync EXCEPT ![c] = ended(x, "net")]
    Answers(x) == collectChainSegment(Parent[Last(x.set)], Min({Window, Height[Last(x.set)] - untilHeight(x)}))
<1>0. /\ sync[c].pc = "headers" /\ Height[Last(sync[c].set)] > untilHeight(sync[c])
      /\ \E g \in Answers(sync[c]) : Parts(sync[c], g)
  BY ZenonT(60) DEF collectHeaders, goes, Kept
<1>14. /\ s.pc = "headers" /\ Height[Last(s.set)] > untilHeight(s)
       /\ \E g \in Answers(s) : Parts(s, g)
  <2> HIDE DEF Parts, Answers
  <2> QED  BY <1>0, <1>1
<1>15. PICK got \in Answers(s) : Parts(s, got)
  BY <1>14, Zenon
<1> DEFINE at == Parent[Last(s.set)]
           new == SubSeq(got, 1, Kept(got, untilHeight(s)))
           near == [s EXCEPT !.set = Append(@, at), !.accepted = @ \cup Cids(at)]
           far == [s EXCEPT !.set = @ \o new, !.accepted = @ \cup Cids(at), !.pc = IF Len(new) < Len(got) THEN "base" ELSE @]
<1>2. /\ s.pc = "headers" /\ Height[Last(s.set)] > untilHeight(s)
      /\ \/ /\ hasBad(at) \/ (\E i \in DOMAIN new : hasBad(new[i]))
            /\ bad' = bad \cup s.accepted /\ sync' = [sync EXCEPT ![c] = ended(s, "bad")]
         \/ UNCHANGED bad /\ sync' = [sync EXCEPT ![c] = near]
         \/ UNCHANGED bad /\ sync' = [sync EXCEPT ![c] = far]
         \/ UNCHANGED bad /\ sync' = [sync EXCEPT ![c] = ended(s, "net")]
  BY <1>14, <1>15, ZenonT(60)
<1>3. UNCHANGED <<head, headers, messages, validated, tracker, targets, blamed, loose>>
  BY ZenonT(60) DEF collectHeaders, stored
<1>4. UNCHANGED <<head, messages, validated, tracker, loose>> /\ headers \subseteq headers' /\ targets' \subseteq targets
  BY <1>3
<1>5. /\ DOMAIN s = Fields /\ s.ts \in TipSets /\ s.res = "none" /\ Collected(s, settled) /\ Accepted(s)
      /\ Linked(s.set) /\ Last(s.set) \in TipSets /\ Last(s.set) # Genesis /\ at \in TipSets
      /\ untilHeight(s) \in Nat /\ untilHeight(s) = Height[s.known] + 1 /\ Height[s.known] \in Nat
      /\ Linked(got) /\ got[1] = at
  BY <1>1, <1>2, <1>15, RoundOf, ZenonT(60)
<1> DEFINE n == Kept(got, untilHeight(s))
           u == s.set \o new
<1>6. n \in 0 .. Len(got) /\ (n < Len(got) => Height[got[n + 1]] < untilHeight(s))
  BY <1>5, KeptPart, ZenonT(60)
<1>7. /\ Linked(u) /\ u[1] = s.set[1] /\ Len(new) = n /\ Len(u) = Len(s.set) + n
      /\ \A j \in 1 .. Len(s.set) : u[j] = s.set[j]
      /\ n > 0 => u[Len(s.set) + 1] = at
      /\ n < Len(got) => Last(u) # Genesis /\ Parent[Last(u)] = got[n + 1]
      /\ \A i \in 1 .. n : new[i] = got[i]
  <2>1. Extended(s.set, got, n, new, u)
    BY <1>5, <1>6, JoinKept, ZenonT(60)
  <2> QED  BY <2>1, ZenonT(60) DEF Extended
<1>8. Len(got) \in Nat /\ Len(got) >= 1 /\ Len(s.set) \in Nat /\ Len(s.set) >= 1
  BY <1>5, LinkedEnds
<1> HIDE DEF n, at
<1>9. UNCHANGED bad => BadOK'
  <2>1. BadOK /\ blamed \subseteq blamed' /\ loose \subseteq loose'
    BY <1>3 DEF Inv
  <2> QED  BY <2>1, BadSame, ZenonT(60)
<1>10. CASE /\ hasBad(at) \/ (\E i \in DOMAIN new : hasBad(new[i]))
            /\ bad' = bad \cup s.accepted /\ sync' = [sync EXCEPT ![c] = ended(s, "bad")]
  <2>1. PICK t \in Chain[at] : hasBad(t)
    <3>1. CASE hasBad(at)
      BY <1>5, <3>1, ChainOf
    <3>2. ASSUME NEW i \in DOMAIN new, hasBad(new[i]) PROVE \E t \in Chain[at] : hasBad(t)
      <4>1. i \in 1 .. n /\ i \in 1 .. Len(got)
        <5>1. i \in 1 .. n
          <6>1. new \in Seq(TipSets)
            <7>1. \A k \in 1 .. n : got[k] \in TipSets
              BY <1>5, <1>6, <1>8, LinkedEnds
            <7> QED  BY <1>6, <1>8, <7>1, SubSeqProperties DEF n
          <6> HIDE DEF new
          <6>2. DOMAIN new = 1 .. Len(new)
            BY <6>1, LenProperties
          <6> QED  BY <1>7, <3>2, <6>2, ZenonT(60)
        <5> QED  BY <1>6, <1>8, <5>1
      <4>2. got[i] \in Chain[at]
        BY <1>5, <4>1, OnChain
      <4>3. new[i] = got[i]
        BY <1>7, <4>1, ZenonT(60)
      <4> QED  BY <3>2, <4>2, <4>3, ZenonT(60)
    <3> QED  BY <1>10, <3>1, <3>2, ZenonT(60)
  <2>2. BadOK'
    <3>1. UNCHANGED <<blamed, loose>> /\ t \in Chain[Parent[Last(s.set)]]
      BY <1>3, <2>1 DEF at
    <3> QED  BY <1>1, <1>2, <1>5, <1>10, <2>1, <3>1, RefusedInv, ZenonT(60)
  <2>3. CallerOK(ended(s, "bad"), settled, validated, headers', head)
    BY <1>5, FailedOK
  <2> QED  BY <1>4, <1>10, <2>2, <2>3, CallerInv, ZenonT(60)
<1>11. CASE UNCHANGED bad /\ sync' = [sync EXCEPT ![c] = near]
  <2> DEFINE w == Append(s.set, at)
  <2>1. Joined(s.set, <<at>>, w)
    <3>1. Linked(<<at>>) /\ <<at>>[1] = at
      BY <1>5, LinkedOne
    <3>2. w = s.set \o <<at>>
      <4>1. s.set \in Seq(TipSets)
        BY <1>5, LinkedEnds
      <4> QED  BY <1>5, <4>1, AppendIsConcat
    <3>3. <<at>>[1] = Parent[Last(s.set)]
      BY <3>1 DEF at
    <3> QED  BY <1>5, <3>1, <3>2, <3>3, LinkedJoin, ZenonT(60)
  <2> HIDE DEF w
  <2>2. Linked(w) /\ w[1] = s.set[1] /\ Len(w) = Len(s.set) + 1 /\ w[Len(s.set) + 1] = at /\ \A j \in 1 .. Len(s.set) : w[j] = s.set[j]
    BY <2>1 DEF Joined
  <2>3. /\ DOMAIN near = Fields /\ near.set = w /\ near.accepted = s.accepted \cup Cids(at) /\ near.pc = "headers"
        /\ near.ts = s.ts /\ near.known = s.known /\ near.res = s.res
    BY <1>2, <1>5 DEF Fields, w
  <2> HIDE DEF near
  <2>4. Collected(near, settled)
    BY <1>5, <2>2, <2>3 DEF Collected
  <2>5. Accepted(near)
    <3>1. \A j \in 1 .. Len(s.set) : j \in 1 .. Len(w)
      BY <1>8, <2>2
    <3>2. Len(s.set) + 1 \in 1 .. Len(w)
      BY <1>8, <2>2
    <3>3. ASSUME NEW b \in s.accepted PROVE \E j \in 1 .. Len(w) : b \in Cids(w[j])
      <4>1. PICK j \in 1 .. Len(s.set) : b \in Cids(s.set[j])
        BY <1>5, ZenonT(60) DEF Accepted
      <4> QED  BY <2>2, <3>1, <4>1, ZenonT(60)
    <3>4. ASSUME NEW b \in Cids(at) PROVE \E j \in 1 .. Len(w) : b \in Cids(w[j])
      BY <2>2, <3>2, ZenonT(60)
    <3> QED  BY <2>3, <3>3, <3>4 DEF Accepted
  <2>6. CallerOK(near, settled, validated, headers', head)
    BY <1>2, <1>5, <2>3, <2>4, <2>5, GoesOn, ZenonT(60)
  <2> QED  BY <1>4, <1>9, <1>11, <2>6, CallerInv, ZenonT(60)
<1>12. CASE UNCHANGED bad /\ sync' = [sync EXCEPT ![c] = far]
  <2> HIDE DEF new, u
  <2>1. /\ DOMAIN far = Fields /\ far.set = u /\ far.accepted = s.accepted \cup Cids(at)
        /\ far.pc = (IF Len(new) < Len(got) THEN "base" ELSE "headers")
        /\ far.ts = s.ts /\ far.known = s.known /\ far.res = s.res
    BY <1>2, <1>5 DEF Fields, u
  <2> HIDE DEF far
  <2>2. Collected(far, settled)
    BY <1>5, <1>7, <2>1 DEF Collected
  <2>3. CASE n < Len(got)
    <3>1. far.pc = "base"
      BY <1>7, <2>1, <2>3
    <3>2. Last(far.set) # Genesis /\ Height[Parent[Last(far.set)]] <= Height[far.known]
      <4>1. Height[got[n + 1]] \in Nat /\ Height[got[n + 1]] < Height[s.known] + 1
        <5>1. n + 1 \in 1 .. Len(got)
          BY <1>6, <1>8, <2>3
        <5>2. got[n + 1] \in TipSets
          BY <1>5, <5>1, LinkedEnds
        <5> QED  BY <1>5, <1>6, <2>3, <5>2, ForksAssumption
      <4>2. Height[got[n + 1]] <= Height[s.known]
        BY ONLY <1>5, <4>1, SMTT(60)
      <4> QED  BY <1>7, <2>1, <2>3, <4>2, ZenonT(60)
    <3>3. CallerOK(far, settled, validated, headers', head)
      BY <1>5, <2>1, <2>2, <3>1, <3>2, GoesOn, ZenonT(60)
    <3> QED  BY <1>4, <1>9, <1>12, <3>3, CallerInv, ZenonT(60)
  <2>4. CASE ~ (n < Len(got))
    <3>1. far.pc = "headers"
      BY <1>7, <2>1, <2>4
    <3>2. n > 0
      BY <1>6, <1>8, <2>4
    <3>3. Len(s.set) + 1 \in 1 .. Len(u) /\ \A j \in 1 .. Len(s.set) : j \in 1 .. Len(u)
      BY <1>6, <1>7, <1>8, <3>2
    <3>4. Accepted(far)
      <4>1. ASSUME NEW b \in s.accepted PROVE \E j \in 1 .. Len(u) : b \in Cids(u[j])
        <5>1. PICK j \in 1 .. Len(s.set) : b \in Cids(s.set[j])
          BY <1>5, ZenonT(60) DEF Accepted
        <5> QED  BY <1>7, <3>3, <5>1, ZenonT(60)
      <4>2. ASSUME NEW b \in Cids(at) PROVE \E j \in 1 .. Len(u) : b \in Cids(u[j])
        BY <1>7, <3>2, <3>3, ZenonT(60)
      <4> QED  BY <2>1, <4>1, <4>2 DEF Accepted
    <3>5. CallerOK(far, settled, validated, headers', head)
      BY <1>5, <2>1, <2>2, <3>1, <3>4, GoesOn, ZenonT(60)
    <3> QED  BY <1>4, <1>9, <1>12, <3>5, CallerInv, ZenonT(60)
  <2> QED  BY <2>3, <2>4
<1>13. CASE UNCHANGED bad /\ sync' = [sync EXCEPT ![c] = ended(s, "net")]
  <2>1. CallerOK(ended(s, "net"), settled, validated, headers', head)
    BY <1>5, FailedOK
  <2> QED  BY <1>4, <1>9, <1>13, <2>1, CallerInv, ZenonT(60)
<1> QED  BY <1>2, <1>10, <1>11, <1>12, <1>13, ZenonT(60)

\* The tipsets below one that was found valid are settled.
LEMMA ValidatedDown ==
    ASSUME Inv, NEW t \in TipSets, Cids(t) \subseteq settled, NEW u \in Chain[t]
    PROVE  /\ u \in TipSets /\ Cids(u) \subseteq validated
           /\ u # Genesis => Cids(Parent[u]) \subseteq settled
<1> DEFINE X == {v \in TipSets : Cids(v) \subseteq validated}
<1>1. ASSUME NEW v \in TipSets, Cids(v) \subseteq validated, v # Genesis
      PROVE  Parent[v] \in TipSets /\ Cids(Parent[v]) \subseteq validated /\ Cids(Parent[v]) \subseteq settled
  <2>1. Cids(v) \cap validated # {}
    BY <1>1, BlocksOf
  <2>2. Cids(Parent[v]) \subseteq validated /\ Cids(Parent[v]) \subseteq settled
    BY <1>1, <2>1 DEF Inv, StoreOK, ChainValidated, settled
  <2> QED  BY <1>1, <2>2, ChainOf
<1>2. \A v \in TipSets \cap X : Parent[v] # NoTs => Parent[v] \in X
  BY <1>1, GenesisAssumption
<1>3. t \in TipSets \cap X
  BY DEF settled
<1> HIDE DEF X
<1>4. Chain[t] \subseteq X
  <2>1. Tree(TipSets, NoTs, Parent, Height) /\ Ancestry(TipSets, NoTs, Parent, Chain)
    BY ForkTree
  <2> QED  BY <1>2, <1>3, <2>1, LineageLeast
<1>5. u \in TipSets /\ Cids(u) \subseteq validated
  BY <1>4 DEF X
<1> QED  BY <1>1, <1>5, ZenonT(60)

\* The state of a caller whose headers were persisted.
LEMMA PersistedOK ==
    ASSUME NEW s, DOMAIN s = Fields, s.ts \in TipSets, s.res = "none",
           NEW set, Linked(set), set[1] = s.ts, NEW V, NEW W, NEW H, NEW hd,
           \A j \in 1 .. Len(set) : Cids(set[j]) \subseteq H,
           Last(set) # Genesis => Cids(Parent[Last(set)]) \subseteq V
    PROVE  CallerOK(persisted(s, set), V, W, H, hd)
<1> DEFINE p == persisted(s, set)
<1>1. /\ DOMAIN p = Fields /\ p.pc = "messages" /\ p.res = "none"
      /\ p.ts = s.ts /\ p.set = set /\ p.i = Len(set) /\ p.have = Len(set) + 1
  BY DEF persisted, Fields
<1> HIDE DEF p
<1>2. Len(set) \in 0 .. Len(set) /\ Len(set) + 1 \in Int /\ \A j \in 1 .. Len(set) : ~ (j > Len(set))
  BY LinkedEnds
<1>3. Fetched(p, V, H)
  BY <1>1, <1>2, ZenonT(60) DEF Fetched
<1>4. CallerOK(p, V, W, H, hd)
  BY <1>1, <1>3 DEF CallerOK
<1> QED  BY <1>4 DEF p

\* A fork refused as too long: known itself is not on it.
LEMMA LongFork ==
    ASSUME NEW s, Linked(s.set), Last(s.set) # Genesis, s.known \in TipSets,
           Height[Parent[Last(s.set)]] <= Height[s.known],
           Parent[Last(s.set)] \notin {s.known, Parent[s.known]},
           NEW tips, Linked(tips), tips[1] = Parent[Last(s.set)],
           syncFork(tips, s.known).err = "long"
    PROVE  Apart(Last(s.set), s.known, Len(tips))
<1> DEFINE base == Last(s.set)
           known == s.known
<1>1. base \in TipSets
  BY LinkedEnds
<1>2. /\ known # Genesis
      /\ \A ts \in Chain[Parent[known]] : Cardinality(Chain[base] \ Chain[ts]) > Len(tips)
  BY <1>1, ForkLinks, ZenonT(60)
<1>3. /\ Parent[base] \in TipSets /\ Chain[base] = {base} \cup Chain[Parent[base]]
      /\ Chain[known] = {known} \cup Chain[Parent[known]]
  BY <1>1, <1>2, ChainOf
<1>4. known \notin Chain[base]
  <2>1. \A y \in Chain[Parent[base]] : y # Parent[base] => Height[y] < Height[Parent[base]]
    BY <1>3, ChainOf
  <2>2. Height[known] \in Nat /\ Height[Parent[base]] \in Nat
    BY <1>3, ForksAssumption
  <2>3. known \notin Chain[Parent[base]]
    BY <2>1, <2>2
  <2>4. known # base
    OBVIOUS
  <2> QED  BY <1>3, <2>3, <2>4
<1> HIDE DEF base, known
<1>5. \A ts \in Chain[base] \cap Chain[known] : ts \in Chain[Parent[known]]
  BY <1>3, <1>4
<1> QED  BY <1>2, <1>5, ZenonT(60) DEF Apart, base, known

\* What is stored with the headers of a sequence.
LEMMA HeadersOf ==
    ASSUME NEW set, Linked(set), headers' = headers \cup UNION {Cids(set[i]) : i \in DOMAIN set}
    PROVE  headers \subseteq headers' /\ \A j \in 1 .. Len(set) : Cids(set[j]) \subseteq headers'
<1>1. DOMAIN set = 1 .. Len(set)
  BY LinkedEnds
<1> QED  BY <1>1

\* The end of collectHeaders.
LEMMA LinkHeadersInv ==
    ASSUME Inv, NEW c \in Callers, linkHeaders(c)
    PROVE  Inv'
<1>1. PICK s : s = sync[c]
  BY ZenonT(60)
<1> DEFINE base == Last(s.set)
           linked == Parent[base] \in {s.known, Parent[s.known]}
           stores(set) == headers' = headers \cup UNION {Cids(set[i]) : i \in DOMAIN set}
           Refused(x, link) == IF link.err = "long" THEN Cids(x.ts) ELSE {}
           Forked(x, tips, link) ==
               \/ /\ link.err = "none" /\ stores(x.set \o link.fork)
                  /\ sync' = [sync EXCEPT ![c] = persisted(x, x.set \o link.fork)]
                  /\ UNCHANGED <<bad, blamed>>
               \/ /\ bad' = bad \cup Refused(x, link) /\ blamed' = blamed \cup Refused(x, link)
                  /\ link.err # "none"
                  /\ sync' = [sync EXCEPT ![c] = [ended(x, link.err) EXCEPT !.have = Len(tips)]]
                  /\ UNCHANGED headers
           Answers(x) == collectChainSegment(Parent[Last(x.set)], ForkLengthThreshold)
<1>2. /\ s.pc = "base" \/ (s.pc = "headers" /\ Height[base] <= untilHeight(s))
      /\ \/ /\ linked /\ stores(s.set) /\ sync' = [sync EXCEPT ![c] = persisted(s, s.set)]
            /\ UNCHANGED <<bad, blamed>>
         \/ ~ linked /\ base # Genesis /\ \E tips \in Answers(s) : Forked(s, tips, syncFork(tips, s.known))
         \/ sync' = [sync EXCEPT ![c] = ended(s, "net")] /\ UNCHANGED <<headers, bad, blamed>>
  <2> DEFINE Parts(x) ==
        LET bs == Last(x.set)
            near == Parent[bs] \in {x.known, Parent[x.known]}
        IN  /\ x.pc = "base" \/ (x.pc = "headers" /\ Height[bs] <= untilHeight(x))
            /\ \/ /\ near /\ stores(x.set) /\ sync' = [sync EXCEPT ![c] = persisted(x, x.set)]
                  /\ UNCHANGED <<bad, blamed>>
               \/ ~ near /\ bs # Genesis /\ \E tips \in Answers(x) : Forked(x, tips, syncFork(tips, x.known))
               \/ sync' = [sync EXCEPT ![c] = ended(x, "net")] /\ UNCHANGED <<headers, bad, blamed>>
  <2>1. Parts(sync[c])
    BY ZenonT(60) DEF linkHeaders, goes
  <2>2. Parts(s)
    <3> HIDE DEF Parts
    <3> QED  BY <1>1, <2>1
  <2> HIDE DEF Forked, Answers
  <2> QED  BY <2>2, ZenonT(60)
<1>3. UNCHANGED <<head, messages, validated, tracker, loose>> /\ targets' \subseteq targets
  BY ZenonT(60) DEF linkHeaders
<1>4. CallerOK(s, settled, validated, headers, head) /\ DOMAIN s = Fields
  BY <1>1, CallerOf
<1>5. /\ s.ts \in TipSets /\ s.res = "none" /\ Collected(s, settled)
      /\ s.pc = "base" => base # Genesis /\ Height[Parent[base]] <= Height[s.known]
  BY <1>2, <1>4, ZenonT(60) DEF CallerOK
<1>6. /\ Linked(s.set) /\ s.set[1] = s.ts /\ s.ts # Genesis /\ base \in TipSets
      /\ s.known \in TipSets /\ Cids(s.known) \subseteq settled
  BY <1>5, LinkedEnds DEF Collected
<1>7. UNCHANGED <<bad, blamed>> => BadOK'
  <2>1. BadOK /\ loose \subseteq loose'
    BY <1>3 DEF Inv
  <2> QED  BY <2>1, BadSame
<1>8. CASE linked /\ stores(s.set) /\ sync' = [sync EXCEPT ![c] = persisted(s, s.set)] /\ UNCHANGED <<bad, blamed>>
  <2>1. ASSUME base # Genesis PROVE Cids(Parent[base]) \subseteq settled
    <3>1. Parent[base] \in TipSets
      BY <1>6, <2>1, ChainOf
    <3>2. CASE Parent[base] = s.known
      BY <1>6, <3>2
    <3>3. CASE Parent[base] = Parent[s.known]
      <4>1. s.known # Genesis
        BY <3>1, <3>3, GenesisAssumption, ForksAssumption
      <4>2. s.known \in Chain[s.known]
        BY <1>6, ChainOf
      <4>3. Cids(Parent[s.known]) \subseteq settled
        BY <1>6, <4>1, <4>2, ValidatedDown, ZenonT(60)
      <4> QED  BY <3>3, <4>3
    <3> QED  BY <1>8, <3>2, <3>3
  <2>2. headers \subseteq headers' /\ \A j \in 1 .. Len(s.set) : Cids(s.set[j]) \subseteq headers'
    BY <1>6, <1>8, HeadersOf, ZenonT(60)
  <2>3. CallerOK(persisted(s, s.set), settled, validated, headers', head)
    BY <1>4, <1>5, <1>6, <2>1, <2>2, PersistedOK, ZenonT(60)
  <2> QED  BY <1>3, <1>7, <1>8, <2>2, <2>3, CallerInv, ZenonT(60)
<1>9. ASSUME ~ linked, base # Genesis, NEW tips \in Answers(s), NEW link, link = syncFork(tips, s.known),
              Forked(s, tips, link)
      PROVE  Inv'
  <2>1. Height[Parent[base]] <= Height[s.known]
    <3>1. CASE s.pc = "base"
      BY <1>5, <3>1
    <3>2. CASE s.pc = "headers" /\ Height[base] <= untilHeight(s)
      <4>1. Parent[base] \in TipSets /\ Height[Parent[base]] < Height[base]
        BY <1>6, <1>9, ChainOf, ZenonT(60)
      <4>2. Height[base] \in Nat /\ Height[Parent[base]] \in Nat /\ Height[s.known] \in Nat
        BY <1>6, <4>1, ForksAssumption
      <4>3. Height[base] <= Height[s.known] + 1
        BY <3>2, ZenonT(60) DEF untilHeight
      <4> QED  BY ONLY <4>1, <4>2, <4>3, SMTT(60)
    <3> QED  BY <1>2, <3>1, <3>2, ZenonT(60)
  <2>2. Linked(tips) /\ tips[1] = Parent[base]
    <3>1. Parent[base] \in TipSets
      BY <1>6, <1>9, ChainOf, ZenonT(60)
    <3>2. ForkLengthThreshold \in Nat \ {0}
      BY SizesAssumption
    <3> QED  BY <1>9, <3>1, <3>2, AnswerLinked, ZenonT(60)
  <2>3. /\ link.err \in {"load", "long", "genesis", "none"}
        /\ link.err = "none" =>
              Linked(link.fork) /\ link.fork[1] = Parent[base] /\ Last(link.fork) \in Chain[s.known]
    BY <1>6, <1>9, <2>2, ForkLinks, ZenonT(60)
  <2>4. link.err = "long" => Apart(base, s.known, Len(tips))
    BY <1>6, <1>9, <2>1, <2>2, LongFork, ZenonT(60)
  <2> HIDE DEF base, Answers
  <2>5. CASE /\ link.err = "none" /\ stores(s.set \o link.fork)
             /\ sync' = [sync EXCEPT ![c] = persisted(s, s.set \o link.fork)]
             /\ UNCHANGED <<bad, blamed>>
    <3> DEFINE u == s.set \o link.fork
    <3>1. Joined(s.set, link.fork, u)
      BY <1>6, <1>9, <2>3, <2>5, LinkedJoin, ZenonT(60) DEF base
    <3>2. stores(u) /\ sync' = [sync EXCEPT ![c] = persisted(s, u)]
      BY <2>5, ZenonT(60)
    <3> HIDE DEF u
    <3>3. Linked(u) /\ u[1] = s.ts /\ Last(u) = Last(link.fork)
      BY <1>6, <3>1, ZenonT(60) DEF Joined
    <3>4. Last(u) # Genesis => Cids(Parent[Last(u)]) \subseteq settled
      BY <1>6, <2>3, <2>5, <3>3, ValidatedDown, ZenonT(60)
    <3>5. headers \subseteq headers' /\ \A j \in 1 .. Len(u) : Cids(u[j]) \subseteq headers'
      BY <3>2, <3>3, HeadersOf, ZenonT(60)
    <3>6. CallerOK(persisted(s, u), settled, validated, headers', head)
      BY <1>4, <1>5, <3>3, <3>4, <3>5, PersistedOK, ZenonT(60)
    <3> QED  BY <1>3, <1>7, <2>5, <3>2, <3>5, <3>6, CallerInv, ZenonT(60)
  <2>6. CASE /\ bad' = bad \cup Refused(s, link) /\ blamed' = blamed \cup Refused(s, link)
             /\ sync' = [sync EXCEPT ![c] = [ended(s, link.err) EXCEPT !.have = Len(tips)]]
             /\ UNCHANGED headers
    <3> DEFINE e == [ended(s, link.err) EXCEPT !.have = Len(tips)]
    <3>1. CallerOK(e, settled, validated, headers', head)
      <4>1. PICK res : res = link.err
        BY ZenonT(60)
      <4>2. res # "ok" /\ (res = "long" => Apart(Last(s.set), s.known, Len(tips)))
        BY <2>3, <2>4, <4>1 DEF base
      <4>3. CallerOK([ended(s, res) EXCEPT !.have = Len(tips)], settled, validated, headers', head)
        BY <1>4, <4>2, ForkedOK, ZenonT(60)
      <4> QED  BY <4>1, <4>3
    <3>2. sync' = [sync EXCEPT ![c] = e]
      BY <2>6
    <3> HIDE DEF e
    <3>3. BadOK'
      <4>1. PICK N : N = Refused(s, link)
        BY ZenonT(60)
      <4>2. N \subseteq Cids(s.ts) /\ bad' = bad \cup N /\ blamed' = blamed \cup N
        BY <2>6, <4>1
      <4>3. \A b \in N : HasReason(b)'
        BY <1>5, <1>6, <4>2, Reason
      <4>4. BadOK /\ blamed \subseteq blamed' /\ loose \subseteq loose'
        BY <1>3, <4>2 DEF Inv
      <4> QED  BY <4>2, <4>3, <4>4, BadGrows, ZenonT(60)
    <3>4. headers \subseteq headers'
      BY <2>6
    <3> QED  BY <1>3, <3>1, <3>2, <3>3, <3>4, CallerInv, ZenonT(60)
  <2> QED  BY <1>9, <2>5, <2>6, ZenonT(60)
<1>11. CASE sync' = [sync EXCEPT ![c] = ended(s, "net")] /\ UNCHANGED <<headers, bad, blamed>>
  <2>1. CallerOK(ended(s, "net"), settled, validated, headers', head)
    BY <1>4, FailedOK
  <2>2. headers \subseteq headers' /\ BadOK'
    BY <1>7, <1>11
  <2> QED  BY <1>3, <1>11, <2>1, <2>2, CallerInv, ZenonT(60)
<1>10. ASSUME ~ linked, base # Genesis, NEW tips \in Answers(s), Forked(s, tips, syncFork(tips, s.known)) PROVE Inv'
  <2>1. PICK link : link = syncFork(tips, s.known)
    BY ZenonT(60)
  <2> HIDE DEF Forked, linked, base, Answers
  <2> QED  BY <1>9, <1>10, <2>1
<1> HIDE DEF Forked, linked, base, Answers
<1> QED  BY <1>2, <1>8, <1>10, <1>11, ZenonT(60)

\* What a caller knows that validates tipsets.
LEMMA FetchedOf ==
    ASSUME Inv, NEW c \in Callers, NEW s, s = sync[c], s.pc \in {"messages", "persist"}
    PROVE  /\ DOMAIN s = Fields /\ s.ts \in TipSets /\ s.res = "none" /\ Fetched(s, settled, headers)
           /\ Linked(s.set) /\ s.i \in 0 .. Len(s.set) /\ s.have \in Int /\ Len(s.set) \in Nat /\ Len(s.set) >= 1
<1>1. CallerOK(s, settled, validated, headers, head) /\ DOMAIN s = Fields
  BY CallerOf
<1>2. s.ts \in TipSets /\ s.res = "none" /\ Fetched(s, settled, headers)
  BY <1>1, ZenonT(60) DEF CallerOK
<1>3. Linked(s.set) /\ s.i \in 0 .. Len(s.set) /\ s.have \in Int
  BY <1>2, ZenonT(60) DEF Fetched
<1> QED  BY <1>1, <1>2, <1>3, LinkedEnds, ZenonT(60)

\* Messages are fetched.
LEMMA FetchMessagesInv ==
    ASSUME Inv, NEW c \in Callers, fetchMessages(c)
    PROVE  Inv'
<1>1. PICK s : s = sync[c]
  BY ZenonT(60)
<1> DEFINE n == [s EXCEPT !.have = batchStart(s.i)]
<1>2. /\ s.pc = "messages" /\ s.i > 0
      /\ sync' = [sync EXCEPT ![c] = n] \/ sync' = [sync EXCEPT ![c] = ended(s, "net")]
  BY <1>1 DEF fetchMessages, unfilled, goes
<1>3. UNCHANGED <<head, headers, messages, validated, tracker, bad, targets, blamed, loose>>
  BY DEF fetchMessages, stored
<1>4. /\ DOMAIN s = Fields /\ s.ts \in TipSets /\ s.res = "none" /\ Fetched(s, settled, headers)
      /\ Linked(s.set) /\ s.i \in 0 .. Len(s.set) /\ s.have \in Int /\ Len(s.set) \in Nat /\ Len(s.set) >= 1
  BY <1>1, <1>2, FetchedOf, ZenonT(60)
<1>5. batchStart(s.i) \in Int
  <2>1. Window \in Nat /\ s.i - 1 \in Nat /\ s.i \in Int
    BY <1>2, <1>4, SizesAssumption
  <2>2. Min({Window, s.i - 1}) \in {Window, s.i - 1}
    BY <2>1, MinOfTwo
  <2>3. Min({Window, s.i - 1}) \in Int
    BY <2>1, <2>2
  <2> QED  BY <2>1, <2>3 DEF batchStart
<1>6. UNCHANGED <<head, messages, validated, tracker, loose>> /\ headers \subseteq headers' /\ targets' \subseteq targets
  BY <1>3
<1>7. BadOK'
  BY <1>3, BadSame DEF Inv
<1>8. CallerOK(n, settled, validated, headers', head)
  <2> DEFINE h == batchStart(s.i)
  <2>1. DOMAIN n = Fields /\ n.pc = s.pc /\ n.ts = s.ts /\ n.set = s.set /\ n.i = s.i /\ n.have = h /\ n.res = s.res
    <3> HIDE DEF h
    <3> QED  BY <1>4 DEF Fields, h
  <2> HIDE DEF n, h
  <2>2. Fetched(n, settled, headers)
    BY <1>4, <1>5, <2>1, ZenonT(60) DEF Fetched, h
  <2>3. headers' = headers
    BY <1>3
  <2> QED  BY <1>2, <1>4, <2>1, <2>2, <2>3, GoesOn, ZenonT(60)
<1>9. CallerOK(ended(s, "net"), settled, validated, headers', head)
  BY <1>4, FailedOK
<1> HIDE DEF n
<1> QED  BY <1>2, <1>6, <1>7, <1>8, <1>9, CallerInv, ZenonT(60)

\* Settled blocks stay settled.
LEMMA SettledGrows ==
    ASSUME validated \subseteq validated', messages \subseteq messages', loose \subseteq loose'
    PROVE  settled \subseteq settled'
BY DEF settled

\* Blocks of ts are found valid, whose parents were.
LEMMA StoreGrows ==
    ASSUME Inv, NEW ts \in TipSets, NEW g, ts = Genesis => g = {}, g \subseteq Cids(ts), Cids(ts) \subseteq headers,
           ts # Genesis => Cids(Parent[ts]) \subseteq settled,
           \A b \in g : validBlock(ts, b),
           validated' = validated \cup g, tracker' = tracker \cup g, UNCHANGED <<head, headers, messages, targets, loose>>
    PROVE  StoreOK'
<1>1. /\ head \in TipSets /\ Cids(head) \subseteq settled /\ Cids(Genesis) \subseteq settled
      /\ tracker = validated /\ validated \subseteq headers /\ validated \cap Invalid = {}
      /\ targets \subseteq TipSets /\ ChainValidated
  BY ZenonT(60) DEF Inv, StoreOK
<1>2. \A b \in g : b \notin Invalid
  BY <1>1 DEF validBlock
<1>3. ChainValidated'
  <2>1. SUFFICES ASSUME NEW u \in TipSets, u # Genesis, Cids(u) \cap validated' # {}
                 PROVE  Cids(Parent[u]) \subseteq validated \cap headers \cap messages
    BY DEF ChainValidated
  <2>2. CASE Cids(u) \cap validated # {}
    BY <1>1, <2>1, <2>2 DEF ChainValidated
  <2>3. CASE Cids(u) \cap validated = {}
    <3>1. PICK b \in g : b \in Cids(u) /\ b \notin validated
      BY <2>1, <2>3
    <3>2. ts # Genesis /\ Cids(u) \cap Cids(ts) # {}
      BY <3>1
    <3>3. Parent[u] = Parent[ts]
      BY <2>1, <3>2, BlocksOf
    <3>4. Cids(Parent[ts]) \subseteq headers \cap messages
      BY <3>1, ZenonT(60) DEF validBlock
    <3> QED  BY <3>2, <3>3, <3>4 DEF settled
  <2> QED  BY <2>2, <2>3
<1>4. settled \subseteq settled'
  BY SettledGrows
<1>5. /\ head' \in TipSets /\ Cids(head') \subseteq settled' /\ Cids(Genesis) \subseteq settled'
      /\ tracker' = validated' /\ validated' \subseteq headers' /\ validated' \cap Invalid = {}
      /\ targets' \subseteq TipSets
  BY <1>1, <1>2, <1>4
<1> QED  BY <1>3, <1>5, ZenonT(60) DEF StoreOK

\* The tipset that is validated next: its parent is settled.
LEMMA NextTipSet ==
    ASSUME Inv, NEW s, Fetched(s, settled, headers), s.i > 0
    PROVE  /\ s.i \in 1 .. Len(s.set) /\ s.set[s.i] \in TipSets /\ Cids(s.set[s.i]) \subseteq headers
           /\ s.set[s.i] # Genesis => /\ Parent[s.set[s.i]] \in TipSets
                                      /\ Cids(Parent[s.set[s.i]]) \subseteq settled
<1>1. /\ Linked(s.set) /\ s.i \in 0 .. Len(s.set)
      /\ \A j \in 1 .. Len(s.set) : Cids(s.set[j]) \subseteq headers
      /\ \A j \in 1 .. Len(s.set) : j > s.i => Cids(s.set[j]) \subseteq settled
      /\ Last(s.set) # Genesis => Cids(Parent[Last(s.set)]) \subseteq settled
  BY ZenonT(60) DEF Fetched
<1>2. Len(s.set) \in Nat /\ \A j \in 1 .. Len(s.set) : s.set[j] \in TipSets
  BY <1>1, LinkedEnds
<1>3. s.i \in 1 .. Len(s.set)
  BY <1>1, <1>2
<1>4. s.set[s.i] \in TipSets /\ Cids(s.set[s.i]) \subseteq headers
  BY <1>1, <1>2, <1>3, ZenonT(60)
<1>5. ASSUME s.set[s.i] # Genesis PROVE Parent[s.set[s.i]] \in TipSets /\ Cids(Parent[s.set[s.i]]) \subseteq settled
  <2>1. Parent[s.set[s.i]] \in TipSets
    BY <1>4, <1>5, ChainOf
  <2>2. CASE s.i = Len(s.set)
    BY <1>1, <1>5, <2>1, <2>2 DEF Last
  <2>3. CASE s.i # Len(s.set)
    <3>1. s.i \in 1 .. Len(s.set) - 1 /\ s.i + 1 \in 1 .. Len(s.set) /\ s.i + 1 > s.i
      BY <1>2, <1>3, <2>3
    <3>2. s.set[s.i + 1] = Parent[s.set[s.i]]
      BY <1>1, <3>1 DEF Linked
    <3>3. Cids(s.set[s.i + 1]) \subseteq settled
      BY <1>1, <3>1
    <3> QED  BY <2>1, <3>2, <3>3
  <2> QED  BY <2>2, <2>3
<1> QED  BY <1>3, <1>4, <1>5

\* Blocks that were not found valid, and blocks blamed for a failure, have a reason to be bad.
LEMMA UnvalidReason ==
    ASSUME Inv, NEW ts \in TipSets, ts # Genesis, Cids(Parent[ts]) \subseteq settled, Parent[ts] \in TipSets,
           loose \subseteq loose', NEW b \in Cids(ts), ~ validBlock(ts, b) \/ b \in blamed'
    PROVE  HasReason(b)'
<1>1. CASE b \in Invalid \cup blamed'
  BY <1>1, Reason, ZenonT(60)
<1>2. CASE b \notin Invalid \cup blamed'
  <2>1. ~ (Cids(Parent[ts]) \subseteq headers \cap messages)
    BY <1>2, ZenonT(60) DEF validBlock
  <2>2. settled \subseteq headers /\ settled \subseteq messages \cup loose
    BY DEF Inv, StoreOK, settled
  <2>3. PICK p \in Cids(Parent[ts]) : p \in loose
    BY <2>1, <2>2
  <2>4. Parent[ts] \in Chain[Parent[ts]]
    BY ChainOf
  <2>5. above(Parent[ts], Invalid \cup blamed' \cup loose')
    BY <2>3, <2>4 DEF above
  <2> QED  BY <2>5, Reason, ZenonT(60)
<1> QED  BY <1>1, <1>2

\* A step of a caller that finds blocks valid or stores messages.
LEMMA ValidatorInv ==
    ASSUME Inv, NEW c \in Callers, NEW s, sync' = [sync EXCEPT ![c] = s], StoreOK', BadOK',
           CallerOK(s, settled', validated', headers', head'), UNCHANGED <<head, headers>>, validated \subseteq validated',
           messages \subseteq messages', loose \subseteq loose'
    PROVE  Inv'
<1>1. CallersOK /\ head \in TipSets
  BY DEF Inv, StoreOK
<1>2. head' \in TipSets /\ headers \subseteq headers' /\ Weight[head] <= Weight[head']
  BY <1>1, WeightAssumption
<1>3. settled \subseteq settled'
  BY SettledGrows
<1>4. CallersOK'
  BY <1>1, <1>2, <1>3, OneCaller, ZenonT(60)
<1> QED  BY <1>4 DEF Inv

\* One tipset more is settled.
LEMMA FetchedMore ==
    ASSUME NEW s, NEW n, DOMAIN s = Fields, Fetched(s, settled, headers), s.i \in 1 .. Len(s.set), Len(s.set) \in Nat,
           n.set = s.set, n.ts = s.ts, n.i = s.i - 1, n.have = s.have,
           settled \subseteq settled', UNCHANGED headers, Cids(s.set[s.i]) \subseteq settled'
    PROVE  Fetched(n, settled', headers')
<1>1. /\ Linked(s.set) /\ s.have \in Int /\ s.set[1] = s.ts
      /\ \A j \in 1 .. Len(s.set) : Cids(s.set[j]) \subseteq headers
      /\ \A j \in 1 .. Len(s.set) : j > s.i => Cids(s.set[j]) \subseteq settled
      /\ Last(s.set) # Genesis => Cids(Parent[Last(s.set)]) \subseteq settled
  BY ZenonT(60) DEF Fetched
<1>2. s.i - 1 \in 0 .. Len(s.set) /\ \A j \in 1 .. Len(s.set) : j > s.i - 1 => j > s.i \/ j = s.i
  OBVIOUS
<1>3. \A j \in 1 .. Len(s.set) : j > s.i - 1 => Cids(s.set[j]) \subseteq settled'
  <2>1. ASSUME NEW j \in 1 .. Len(s.set), j > s.i - 1 PROVE Cids(s.set[j]) \subseteq settled'
    <3>1. CASE j > s.i
      BY <1>1, <3>1
    <3>2. CASE j = s.i
      BY <3>2
    <3> QED  BY <1>2, <2>1, <3>1, <3>2
  <2> QED  BY <2>1
<1>4. Last(s.set) # Genesis => Cids(Parent[Last(s.set)]) \subseteq settled'
  BY <1>1
<1> QED  BY <1>1, <1>2, <1>3, <1>4, ZenonT(60) DEF Fetched

\* A tipset is validated.
LEMMA ValidateTipSetInv ==
    ASSUME Inv, NEW c \in Callers, ValidateTipSet(c)
    PROVE  Inv'
<1> DEFINE Parts(x, ts, blks, good) ==
      /\ x.pc = "messages" /\ x.i > 0 /\ ~ unfilled(x)
      /\ \/ /\ good = blks /\ validated' = validated \cup blks /\ tracker' = tracker \cup blks
            /\ sync' = [sync EXCEPT ![c] = IF x.i < x.have THEN [x EXCEPT !.i = @ - 1] ELSE [x EXCEPT !.pc = "persist"]]
            /\ UNCHANGED <<bad, blamed>>
         \/ /\ validated' = validated \cup good /\ tracker' = tracker \cup good
            /\ bad' = bad \cup (blks \ good)
            /\ sync' = [sync EXCEPT ![c] = ended(x, "invalid")]
            /\ UNCHANGED blamed
         \/ \E b \in good \ validated :
              /\ \E failed \in {{}, {b}} : bad' = bad \cup failed \cup (blks \ good) /\ blamed' = blamed \cup failed
              /\ validated' = validated \cup (good \ {b}) /\ tracker' = tracker \cup (good \ {b})
              /\ sync' = [sync EXCEPT ![c] = ended(x, "invalid")]
      /\ UNCHANGED <<head, headers, messages, targets, loose>>
<1> DEFINE Blks(ts) == IF ts = Genesis THEN {} ELSE Cids(ts)
           Good(ts) == {b \in Blks(ts) : validBlock(ts, b)}
<1>1. Parts(sync[c], sync[c].set[sync[c].i], Blks(sync[c].set[sync[c].i]), Good(sync[c].set[sync[c].i]))
  BY ZenonT(60) DEF ValidateTipSet, goes
<1>2. PICK s : s = sync[c]
  BY ZenonT(60)
<1>3. PICK ts : ts = s.set[s.i]
  BY ZenonT(60)
<1>4. PICK blks : blks = Blks(ts)
  BY ZenonT(60)
<1>5. PICK good : good = Good(ts)
  BY ZenonT(60)
<1>6. Parts(s, ts, blks, good)
  <2> HIDE DEF Parts, Blks, Good
  <2> QED  BY <1>1, <1>2, <1>3, <1>4, <1>5
<1>7. s.pc = "messages" /\ s.i > 0 /\ ~ unfilled(s) /\ UNCHANGED <<head, headers, messages, targets, loose>>
  BY <1>6, ZenonT(60)
<1>8. /\ DOMAIN s = Fields /\ s.ts \in TipSets /\ s.res = "none" /\ Fetched(s, settled, headers)
      /\ Linked(s.set) /\ s.i \in 0 .. Len(s.set) /\ s.have \in Int /\ Len(s.set) \in Nat /\ Len(s.set) >= 1
  BY <1>2, <1>7, FetchedOf, ZenonT(60)
<1>9. /\ s.i \in 1 .. Len(s.set) /\ ts \in TipSets /\ Cids(ts) \subseteq headers
      /\ ts # Genesis => Parent[ts] \in TipSets /\ Cids(Parent[ts]) \subseteq settled
  BY <1>3, <1>7, <1>8, NextTipSet, ZenonT(60)
<1>10. /\ blks \subseteq Cids(ts) /\ (ts = Genesis => blks = {}) /\ (ts # Genesis => blks = Cids(ts))
       /\ good \subseteq blks /\ \A b \in blks : b \in good <=> validBlock(ts, b)
  BY <1>4, <1>5
<1> HIDE DEF Blks, Good
<1>11. ASSUME NEW g, g \subseteq good, validated' = validated \cup g, tracker' = tracker \cup g
       PROVE  StoreOK' /\ validated \subseteq validated' /\ messages \subseteq messages' /\ loose \subseteq loose'
  <2>1. g \subseteq Cids(ts) /\ (ts = Genesis => g = {}) /\ \A b \in g : validBlock(ts, b)
    BY <1>10, <1>11
  <2>2. UNCHANGED <<head, headers, messages, targets, loose>>
    BY <1>7
  <2>3. StoreOK'
    BY <1>9, <1>11, <2>1, <2>2, StoreGrows, ZenonT(60)
  <2> QED  BY <1>11, <2>2, <2>3
<1>12. ASSUME NEW N, bad' = bad \cup N, blamed \subseteq blamed', loose \subseteq loose', N \subseteq blks,
              \A b \in N : b \notin good \/ b \in blamed'
       PROVE  BadOK'
  <2>1. ASSUME NEW b \in N PROVE HasReason(b)'
    <3>1. ts # Genesis /\ b \in Cids(ts) /\ (~ validBlock(ts, b) \/ b \in blamed')
      BY <1>10, <1>12, <2>1
    <3> QED  BY <1>9, <1>12, <3>1, UnvalidReason, ZenonT(60)
  <2>2. BadOK
    BY DEF Inv
  <2> QED  BY <1>12, <2>1, <2>2, BadGrows, ZenonT(60)
<1>13. CallerOK(ended(s, "invalid"), settled', validated', headers', head')
  BY <1>8, FailedOK
<1>14. CASE /\ good = blks /\ validated' = validated \cup blks /\ tracker' = tracker \cup blks
            /\ sync' = [sync EXCEPT ![c] = IF s.i < s.have THEN [s EXCEPT !.i = @ - 1] ELSE [s EXCEPT !.pc = "persist"]]
            /\ UNCHANGED <<bad, blamed>>
  <2>1. StoreOK' /\ validated \subseteq validated' /\ messages \subseteq messages' /\ loose \subseteq loose'
    <3>1. blks \subseteq good
      BY <1>14
    <3> QED  BY <1>11, <1>14, <3>1, ZenonT(60)
  <2>2. BadOK'
    BY <1>14, <2>1, BadSame DEF Inv
  <2>3. settled \subseteq settled'
    BY <2>1, SettledGrows
  <2>4. Cids(ts) \subseteq validated'
    <3>1. Cids(Genesis) \subseteq validated
      BY DEF Inv, StoreOK, settled
    <3> QED  BY <1>10, <1>14, <3>1
  <2>5. CASE s.i < s.have
    <3> DEFINE n == [s EXCEPT !.i = @ - 1]
    <3>1. DOMAIN n = Fields /\ n.pc = s.pc /\ n.ts = s.ts /\ n.set = s.set /\ n.i = s.i - 1 /\ n.have = s.have /\ n.res = s.res
      BY <1>8 DEF Fields
    <3>2. sync' = [sync EXCEPT ![c] = n]
      BY <1>14, <2>5
    <3> HIDE DEF n
    <3>3. Cids(ts) \subseteq settled'
      <4>1. Cids(ts) \subseteq messages
        BY <1>3, <1>7, <2>5, ZenonT(60) DEF unfilled
      <4> QED  BY <1>7, <2>4, <4>1 DEF settled
    <3>4. UNCHANGED headers /\ Cids(s.set[s.i]) \subseteq settled'
      BY <1>3, <1>7, <3>3
    <3>5. Fetched(n, settled', headers')
      BY <1>8, <1>9, <2>3, <3>1, <3>4, FetchedMore, ZenonT(60)
    <3>6. CallerOK(n, settled', validated', headers', head')
      BY <1>7, <1>8, <3>1, <3>5, GoesOn, ZenonT(60)
    <3> QED  BY <1>7, <2>1, <2>2, <3>2, <3>6, ValidatorInv, ZenonT(60)
  <2>6. CASE ~ (s.i < s.have)
    <3> DEFINE n == [s EXCEPT !.pc = "persist"]
    <3>1. DOMAIN n = Fields /\ n.pc = "persist" /\ n.ts = s.ts /\ n.set = s.set /\ n.i = s.i /\ n.have = s.have /\ n.res = s.res
      BY <1>8 DEF Fields
    <3>2. sync' = [sync EXCEPT ![c] = n]
      BY <1>14, <2>6
    <3> HIDE DEF n
    <3>3. Fetched(n, settled', headers')
      <4>1. headers \subseteq headers'
        BY <1>7
      <4> QED  BY <1>8, <2>3, <3>1, <4>1 DEF Fetched
    <3>4. n.i > 0 /\ Cids(n.set[n.i]) \subseteq validated'
      BY <1>3, <1>7, <2>4, <3>1, ZenonT(60)
    <3>5. CallerOK(n, settled', validated', headers', head')
      BY <1>8, <3>1, <3>3, <3>4, GoesOn, ZenonT(60)
    <3> QED  BY <1>7, <2>1, <2>2, <3>2, <3>5, ValidatorInv, ZenonT(60)
  <2> QED  BY <2>5, <2>6
<1>15. CASE /\ validated' = validated \cup good /\ tracker' = tracker \cup good
            /\ bad' = bad \cup (blks \ good)
            /\ sync' = [sync EXCEPT ![c] = ended(s, "invalid")]
            /\ UNCHANGED blamed
  <2>1. StoreOK' /\ validated \subseteq validated' /\ messages \subseteq messages' /\ loose \subseteq loose'
    <3>1. good \subseteq good
      OBVIOUS
    <3> QED  BY <1>11, <1>15, <3>1, ZenonT(60)
  <2>2. BadOK'
    <3>1. PICK N : N = blks \ good
      BY ZenonT(60)
    <3>2. bad' = bad \cup N /\ N \subseteq blks /\ blamed \subseteq blamed' /\ \A b \in N : b \notin good \/ b \in blamed'
      BY <1>15, <3>1
    <3> QED  BY <1>12, <2>1, <3>2, ZenonT(60)
  <2> QED  BY <1>7, <1>13, <1>15, <2>1, <2>2, ValidatorInv, ZenonT(60)
<1>16. ASSUME NEW b \in good \ validated, NEW failed \in {{}, {b}},
              bad' = bad \cup failed \cup (blks \ good), blamed' = blamed \cup failed,
              validated' = validated \cup (good \ {b}), tracker' = tracker \cup (good \ {b}),
              sync' = [sync EXCEPT ![c] = ended(s, "invalid")]
       PROVE  Inv'
  <2>1. StoreOK' /\ validated \subseteq validated' /\ messages \subseteq messages' /\ loose \subseteq loose'
    <3>1. PICK g : g = good \ {b}
      BY ZenonT(60)
    <3>2. g \subseteq good /\ validated' = validated \cup g /\ tracker' = tracker \cup g
      BY <1>16, <3>1
    <3> QED  BY <1>11, <3>2, ZenonT(60)
  <2>2. BadOK'
    <3>1. PICK N : N = failed \cup (blks \ good)
      BY ZenonT(60)
    <3>2. bad' = bad \cup N /\ N \subseteq blks /\ blamed \subseteq blamed' /\ \A x \in N : x \notin good \/ x \in blamed'
      BY <1>10, <1>16, <3>1
    <3> QED  BY <1>12, <2>1, <3>2, ZenonT(60)
  <2> QED  BY <1>7, <1>13, <1>16, <2>1, <2>2, ValidatorInv, ZenonT(60)
<1> QED  BY <1>6, <1>14, <1>15, <1>16, ZenonT(60)

\* Fetched messages are stored.
LEMMA PersistMessagesInv ==
    ASSUME Inv, NEW c \in Callers, persistMessages(c)
    PROVE  Inv'
<1>1. PICK s : s = sync[c]
  BY ZenonT(60)
<1> DEFINE n == [s EXCEPT !.pc = "messages", !.i = @ - 1]
<1>2. /\ s.pc = "persist"
      /\ \/ messages' = messages \cup Cids(s.set[s.i]) /\ sync' = [sync EXCEPT ![c] = n]
         \/ UNCHANGED messages /\ sync' = [sync EXCEPT ![c] = ended(s, "store")]
      /\ UNCHANGED <<head, headers, validated, tracker, bad, targets, blamed, loose>>
  BY <1>1 DEF persistMessages, goes
<1>3. /\ DOMAIN s = Fields /\ s.ts \in TipSets /\ s.res = "none" /\ Fetched(s, settled, headers)
      /\ Linked(s.set) /\ s.i \in 0 .. Len(s.set) /\ s.have \in Int /\ Len(s.set) \in Nat /\ Len(s.set) >= 1
  BY <1>1, <1>2, FetchedOf
<1>4. s.i > 0 /\ Cids(s.set[s.i]) \subseteq validated
  BY <1>1, <1>2, CallerOf DEF CallerOK
<1>5. messages \subseteq messages' /\ validated \subseteq validated' /\ loose \subseteq loose'
  BY <1>2
<1>6. StoreOK' /\ BadOK'
  <2>1. StoreOK /\ BadOK /\ targets \subseteq TipSets
    BY DEF Inv, StoreOK
  <2>2. StoreOK'
    BY <1>2, <1>5, <2>1, SameStore
  <2> QED  BY <1>2, <1>5, <2>1, <2>2, BadSame
<1>7. UNCHANGED <<head, headers>>
  BY <1>2
<1>8. CASE messages' = messages \cup Cids(s.set[s.i]) /\ sync' = [sync EXCEPT ![c] = n]
  <2>1. DOMAIN n = Fields /\ n.pc = "messages" /\ n.ts = s.ts /\ n.set = s.set /\ n.i = s.i - 1 /\ n.have = s.have /\ n.res = s.res
    BY <1>3 DEF Fields
  <2> HIDE DEF n
  <2>2. settled \subseteq settled'
    BY <1>5, SettledGrows
  <2>3. Cids(s.set[s.i]) \subseteq settled'
    BY <1>4, <1>5, <1>8 DEF settled
  <2>4. s.i \in 1 .. Len(s.set)
    BY <1>3, <1>4
  <2>5. Fetched(n, settled', headers')
    BY <1>3, <1>7, <2>1, <2>2, <2>3, <2>4, FetchedMore, ZenonT(60)
  <2>6. CallerOK(n, settled', validated', headers', head')
    BY <1>3, <2>1, <2>5, GoesOn, ZenonT(60)
  <2> QED  BY <1>5, <1>6, <1>7, <1>8, <2>6, ValidatorInv, ZenonT(60)
<1>9. CASE sync' = [sync EXCEPT ![c] = ended(s, "store")]
  <2>1. CallerOK(ended(s, "store"), settled', validated', headers', head')
    BY <1>3, FailedOK
  <2> QED  BY <1>5, <1>6, <1>7, <1>9, <2>1, ValidatorInv, ZenonT(60)
<1> QED  BY <1>2, <1>8, <1>9

\* A tipset made of a valid target and the tracker's blocks beside it: all of its
\* blocks were found valid, and it is as heavy as the target.
LEMMA Expanded ==
    ASSUME Inv, NEW ts \in TipSets, Cids(ts) \subseteq validated, NEW e \in expandTipset(ts)
    PROVE  e \in TipSets /\ Cids(e) \subseteq validated /\ Weight[ts] <= Weight[e]
<1> DEFINE all == {Blocks[ts][1]} \cup (tracker \cap beside(ts))
<1>1. tracker = validated
  BY DEF Inv, StoreOK
<1>2. Cids(ts) \subseteq beside(ts)
  BY ZenonT(60) DEF beside
<1>3. Blocks[ts][1] \in Cids(ts)
  BY BlocksOf
<1>4. all \subseteq validated /\ Cids(ts) \subseteq all
  <2>1. PICK B : B = beside(ts)
    BY ZenonT(60)
  <2>2. PICK C : C = Cids(ts)
    BY ZenonT(60)
  <2> QED  BY <1>1, <1>2, <1>3, <2>1, <2>2
<1>5. e \in TipSets /\ Blocks[ts][1] \in Cids(e) /\ Cids(e) \subseteq all /\ {Miner[b] : b \in all} \subseteq Miners(e)
  BY ZenonT(60) DEF expandTipset
<1> HIDE DEF all
<1>6. Miners(ts) \subseteq Miners(e)
  BY <1>4, <1>5 DEF Miners
<1>7. Parent[ts] = Parent[e] /\ Height[ts] = Height[e]
  <2>1. Cids(ts) \cap Cids(e) # {}
    BY <1>3, <1>5
  <2> QED  BY <1>5, <2>1, BlocksOf, ZenonT(60)
<1>8. Weight[ts] <= Weight[e]
  BY <1>5, <1>6, <1>7, WeightAssumption, ZenonT(60)
<1> QED  BY <1>4, <1>5, <1>8

\* The target is put into the store.
LEMMA PutTipSetInv ==
    ASSUME Inv, NEW c \in Callers, PutTipSet(c)
    PROVE  Inv'
<1>1. PICK s : s = sync[c]
  BY ZenonT(60)
<1>2. /\ s.pc = "messages" /\ s.i = 0 /\ headers' = headers \cup Cids(s.ts)
      /\ \E e \in expandTipset(s.ts) : head' = IF Weight[e] > Weight[head] THEN e ELSE head
      /\ loose' = loose \cup (Cids(head') \ messages)
      /\ sync' = [sync EXCEPT ![c] = ended(s, "ok")]
      /\ UNCHANGED <<messages, validated, tracker, bad, targets, blamed>>
  BY <1>1, ZenonT(60) DEF PutTipSet, goes, MaybeTakeHeavierTipSet
<1>3. /\ DOMAIN s = Fields /\ s.ts \in TipSets /\ s.res = "none" /\ Fetched(s, settled, headers)
      /\ Linked(s.set) /\ s.i \in 0 .. Len(s.set) /\ s.have \in Int /\ Len(s.set) \in Nat /\ Len(s.set) >= 1
  BY <1>1, <1>2, FetchedOf
<1>4. Cids(s.ts) \subseteq validated
  <2>1. 1 \in 1 .. Len(s.set) /\ 1 > s.i
    BY <1>2, <1>3
  <2>2. Cids(s.ts) \subseteq settled
    BY <1>3, <2>1, ZenonT(60) DEF Fetched
  <2> QED  BY <2>2 DEF settled
<1>5. PICK e \in expandTipset(s.ts) : head' = IF Weight[e] > Weight[head] THEN e ELSE head
  BY <1>2, Zenon
<1>6. e \in TipSets /\ Cids(e) \subseteq validated /\ Weight[s.ts] <= Weight[e]
  BY <1>3, <1>4, <1>5, Expanded, ZenonT(60)
<1>7. StoreOK /\ CallersOK /\ BadOK /\ head \in TipSets /\ Cids(head) \subseteq validated
  BY DEF Inv, StoreOK, settled
<1>9. head' \in TipSets /\ Cids(head') \subseteq validated /\ Weight[head] <= Weight[head'] /\ Weight[head'] >= Weight[s.ts]
  <2>1. Weight[e] \in Nat /\ Weight[head] \in Nat /\ Weight[s.ts] \in Nat
    BY <1>3, <1>6, <1>7, WeightAssumption
  <2>2. CASE Weight[e] > Weight[head]
    <3>1. head' = e
      BY <1>5, <2>2
    <3> QED  BY <1>6, <2>1, <2>2, <3>1
  <2>3. CASE ~ (Weight[e] > Weight[head])
    <3>1. head' = head
      BY <1>5, <2>3
    <3> QED  BY <1>6, <1>7, <2>1, <2>3, <3>1
  <2> QED  BY <2>2, <2>3
<1>10. headers \subseteq headers' /\ validated \subseteq validated' /\ messages \subseteq messages' /\ loose \subseteq loose'
  BY <1>2
<1>15. settled \subseteq settled' /\ Cids(head') \subseteq settled'
  <2>1. Cids(head') \subseteq settled'
    BY <1>2, <1>9 DEF settled
  <2> QED  BY <1>10, <2>1, SettledGrows
<1>11. StoreOK'
  <2>1. ChainValidated'
    BY <1>2, <1>7, <1>10 DEF StoreOK, ChainValidated
  <2>2. /\ Cids(Genesis) \subseteq settled /\ tracker = validated /\ validated \subseteq headers
        /\ validated \cap Invalid = {} /\ targets \subseteq TipSets
    BY <1>7, ZenonT(60) DEF StoreOK
  <2>3. /\ Cids(Genesis) \subseteq settled' /\ tracker' = validated'
        /\ validated' \subseteq headers' /\ validated' \cap Invalid = {} /\ targets' \subseteq TipSets
    BY <1>2, <1>10, <1>15, <2>2
  <2> QED  BY <1>9, <1>15, <2>1, <2>3, ZenonT(60) DEF StoreOK
<1>12. BadOK'
  BY <1>2, <1>7, <1>10, BadSame
<1>13. CallerOK(ended(s, "ok"), settled', validated', headers', head')
  <2>1. "ok" # "long"
    OBVIOUS
  <2> QED  BY <1>3, <1>9, <2>1, EndedOK, ZenonT(60)
<1>14. CallersOK'
  BY <1>2, <1>7, <1>9, <1>10, <1>13, <1>15, OneCaller, ZenonT(60)
<1> QED  BY <1>11, <1>12, <1>14 DEF Inv

\* Every step keeps the invariant.
LEMMA NextInv == Inv /\ [Next]_vars => Inv'
<1> SUFFICES ASSUME Inv, [Next]_vars PROVE Inv'
  OBVIOUS
<1>1. ASSUME NEW ts \in TipSets, InformNewHead(ts) PROVE Inv'
  BY <1>1, InformNewHeadInv
<1>2. ASSUME NEW c \in Callers, Sync(c) PROVE Inv'
  BY <1>2, SyncInv
<1>3. ASSUME NEW c \in Callers, Step(c) PROVE Inv'
  BY <1>3, CollectChainInv, CollectHeadersInv, LinkHeadersInv, FetchMessagesInv, ValidateTipSetInv,
     PersistMessagesInv, PutTipSetInv, ZenonT(60) DEF Step
<1>4. CASE UNCHANGED vars
  <2>1. UNCHANGED <<head, headers, messages, validated, tracker, bad, targets, sync, blamed, loose>>
    BY <1>4, ZenonT(60) DEF vars
  <2>2. StoreOK /\ CallersOK /\ BadOK /\ head \in TipSets
    BY DEF Inv, StoreOK
  <2>3. StoreOK'
    BY <2>1, <2>2 DEF StoreOK, ChainValidated, settled
  <2>4. CallersOK'
    <3>1. settled \subseteq settled'
      BY <2>1 DEF settled
    <3> QED  BY <2>1, <2>2, <3>1, NoCaller
  <2>5. BadOK'
    BY <2>1, <2>2, BadSame
  <2> QED  BY <2>3, <2>4, <2>5 DEF Inv
<1> QED  BY <1>1, <1>2, <1>3, <1>4, ZenonT(60) DEF Next

-----------------------------------------------------------------------------
(* The theorems *)

\* The inductive invariant holds always.
LEMMA SyncerInv == Spec => []Inv
<1>1. Init => Inv
  BY InitInv
<1>2. Inv /\ [Next]_vars => Inv'
  BY NextInv
<1> QED  BY <1>1, <1>2, PTL DEF Spec

\* Nothing is validated on top of a tipset that was not (ValidateBlock, sync.go:616):
\* whatever peers announce and serve, however many calls of Sync run side by side
\* and wherever they fail, the parent tipset of a valid block was found valid, and
\* its headers and messages are stored.
THEOREM SyncChainValidated == Spec => []ChainValidated
<1>1. Inv => ChainValidated
  BY DEF Inv, StoreOK
<1> QED  BY <1>1, SyncerInv, PTL

\* A block is in the bad block cache (sync.go:551, 1157, 1170, 1206, 1255, 1286) only if it
\* is invalid, was itself refused (a target after ErrForkTooLong, a block whose own
\* validation the node failed), or stands on such a block or on one that the tracker
\* put into the head without messages.
THEOREM SyncBadSound == Spec => []BadSound
<1>1. Inv => BadSound
  BY ZenonT(60) DEF Inv, BadOK, BadSound
<1> QED  BY <1>1, SyncerInv, PTL

\* However many tips a peer answers with, syncFork (sync.go:1338) refuses a fork as too
\* long only if it parts from the head's chain below all of them.
THEOREM SyncForkRefused == Spec => []ForkRefused
<1>1. Inv => ForkRefused
  <2> SUFFICES ASSUME Inv PROVE ForkRefused
    OBVIOUS
  <2>1. \A c \in Callers : sync[c].res = "long" => Apart(Last(sync[c].set), sync[c].known, sync[c].have)
    BY ZenonT(60) DEF Inv, CallersOK, CallerOK
  <2> QED  BY <2>1, ZenonT(60) DEF Apart, ForkRefused
<1> QED  BY <1>1, SyncerInv, PTL

\* A Sync that returns without error leaves a head at least as heavy as its target,
\* and no other call of Sync moves it back (MaybeTakeHeavierTipSet).
THEOREM SyncSyncedOrHeavier == Spec => []SyncedOrHeavier
<1>1. Inv => SyncedOrHeavier
  BY ZenonT(60) DEF Inv, CallersOK, CallerOK, SyncedOrHeavier
<1> QED  BY <1>1, SyncerInv, PTL

\* The blocks of the head were found valid and have their headers in the store.
HeadValidated == Cids(head) \subseteq validated \cap headers

\* What is left of HeadComplete: the blocks of the head, those expandTipset adds from
\* the store's tracker included, were found valid and have their headers stored
\* (the messages of the added ones may be missing, as run syncer_head_messages shows).
THEOREM SyncHeadValidated == Spec => []HeadValidated
<1>1. Inv => HeadValidated
  BY DEF Inv, StoreOK, HeadValidated, settled
<1> QED  BY <1>1, SyncerInv, PTL
=============================================================================
