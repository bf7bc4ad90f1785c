------------------------------ MODULE ChainIndex ------------------------------
(***************************************************************************)
(* Finding a tipset by its height (chain/store/index.go, and               *)
(* GetTipsetByHeight and IsAncestorOf of chain/store/store.go).  The index *)
(* caches, for a tipset near each multiple of SkipLength, the tipset about *)
(* SkipLength epochs below it.  Lookups share the cache, an ARC cache that *)
(* may drop any entry.                                                     *)
(*                                                                         *)
(* A tipset is given by the epochs of its chain: <<0, 1, 4>> is a tipset   *)
(* at epoch 4 with parent <<0, 1>>, after null rounds at epochs 2 and 3.   *)
(***************************************************************************)
EXTENDS Integers, FiniteSets, SequencesExt

CONSTANTS
    Heads,          \* lookups start from these tipsets and their ancestors
    Asked,          \* pairs of tipsets IsAncestorOf is asked about
    SkipLength,     \* 20
    CacheSize,      \* entries of the cache (8192)
    Callers

VARIABLES
    skipCache,      \* from tipset keys to entries [parentHeight, targetHeight, target]
    lookup          \* what each caller does

vars == <<skipCache, lookup>>

Err == <<>>         \* an error, and the key without blocks
HeightOf(ts) == Last(ts)
ParentOf(ts) == Front(ts)     \* <<>> for the genesis tipset: LoadTipSet fails on it
Ancestors(ts) == {SubSeq(ts, 1, i) : i \in 1 .. Len(ts)}

-----------------------------------------------------------------------------
(* index.go *)

\* Mutant: for a null round the tipset below it is returned.
walkBackBelow(from, to) ==
    IF to > HeightOf(from) THEN Err
    ELSE IF \E ts \in Ancestors(from) : HeightOf(ts) <= to
         THEN CHOOSE ts \in Ancestors(from) :
                  HeightOf(ts) <= to /\ \A a \in Ancestors(from) : HeightOf(a) <= to => Len(a) <= Len(ts)
         ELSE Err

walkBack(from, to) ==
    LET walk[i \in 1 .. Len(from)] ==
            LET ts == SubSeq(from, 1, i)
                pts == ParentOf(ts)
            IN  IF pts = Err THEN Err
                ELSE IF to > HeightOf(pts) THEN ts
                ELSE IF to = HeightOf(pts) THEN pts
                ELSE walk[i - 1]
    IN  IF to > HeightOf(from) THEN Err
        ELSE IF to = HeightOf(from) THEN from
        ELSE walk[Len(from)]

roundHeight(h) == (h \div SkipLength) * SkipLength
roundDown(ts) == walkBack(ts, roundHeight(HeightOf(ts)))

\* where the entry of ts leads
skipTarget(ts) ==
    LET rheight == roundHeight(HeightOf(ts)) - SkipLength
    IN  IF HeightOf(ParentOf(ts)) < rheight THEN ParentOf(ts) ELSE walkBack(ParentOf(ts), rheight)

\* the entry that fillCache makes; the one of genesis is not cached
newEntry(ts) ==
    LET target == skipTarget(ts)
    IN  IF HeightOf(ts) = 0 THEN [parentHeight |-> 0, targetHeight |-> 0, target |-> Err]
        ELSE IF target = Err THEN Err
        ELSE [parentHeight |-> HeightOf(ParentOf(ts)), targetHeight |-> HeightOf(target), target |-> target]

\* Add may evict any other entry, and must when the cache is full
cacheAdd(ts, lbe) ==
    \E keep \in SUBSET (DOMAIN skipCache \ {ts}) :
        /\ Cardinality(keep) < CacheSize
        /\ Cardinality(DOMAIN skipCache \ keep) <= 1
        /\ skipCache' = [k \in keep \cup {ts} |-> IF k = ts THEN lbe ELSE skipCache[k]]

-----------------------------------------------------------------------------
(* store.go *)

Idle == [pc |-> "idle", from |-> Err, to |-> 0, prev |-> FALSE, cur |-> Err, res |-> Err, slow |-> FALSE]

Init == skipCache = [k \in {} |-> Err] /\ lookup = [c \in Callers |-> Idle]

\* GetTipsetByHeight once the index has answered lbts
answer(k, lbts) ==
    LET slow == lbts # Err /\ HeightOf(lbts) < k.to
        found == IF slow THEN walkBack(k.from, k.to) ELSE lbts
    IN  [k EXCEPT !.pc = "done", !.slow = slow,
                  !.res = IF found = Err \/ HeightOf(found) = k.to \/ ~ k.prev THEN found ELSE ParentOf(found)]

GetTipsetByHeight(c, ts, h, prev) ==
    /\ lookup[c].pc = "idle"
    /\ LET k == [Idle EXCEPT !.from = ts, !.to = h, !.prev = prev]
       IN  lookup' = [lookup EXCEPT ![c] =
               IF h > HeightOf(ts) THEN [k EXCEPT !.pc = "done"]
               ELSE IF h = HeightOf(ts) THEN [k EXCEPT !.pc = "done", !.res = ts]
               ELSE IF HeightOf(ts) - h <= SkipLength THEN answer(k, walkBack(ts, h))
               ELSE [k EXCEPT !.pc = "index", !.cur = roundDown(ts)]]
    /\ UNCHANGED skipCache

\* one turn of the loop of ChainIndex.GetTipsetByHeight
indexStep(c) ==
    /\ lookup[c].pc = "index"
    /\ LET k == lookup[c]
           hit == k.cur \in DOMAIN skipCache
           lbe == IF hit THEN skipCache[k.cur] ELSE IF k.cur = Err THEN Err ELSE newEntry(k.cur)
       IN  /\ IF hit \/ lbe = Err \/ k.cur = <<0>> THEN UNCHANGED skipCache ELSE cacheAdd(k.cur, lbe)
           /\ lookup' = [lookup EXCEPT ![c] =
                  IF lbe = Err THEN [k EXCEPT !.pc = "done"]
                  ELSE IF HeightOf(k.cur) = k.to \/ lbe.parentHeight < k.to THEN answer(k, k.cur)
                  ELSE IF k.to > lbe.targetHeight THEN answer(k, walkBack(k.cur, k.to))
                  ELSE [k EXCEPT !.cur = lbe.target]]

\* from holds b, cur the tipset reached; to and prev are not used
IsAncestorOf(c, a, b) ==
    /\ lookup[c].pc = "idle"
    /\ lookup' = [lookup EXCEPT ![c] =
           [Idle EXCEPT !.pc = IF HeightOf(b) <= HeightOf(a) THEN "false" ELSE "ancestor",
                        !.from = b, !.cur = b, !.res = a]]
    /\ UNCHANGED skipCache

\* one turn of its loop, which loads the parents of b each time
ancestorStep(c) ==
    /\ lookup[c].pc = "ancestor"
    /\ LET k == lookup[c]
       IN  lookup' = [lookup EXCEPT ![c] =
               IF k.res = k.cur \/ HeightOf(k.cur) <= HeightOf(k.res)
               THEN [k EXCEPT !.pc = IF k.cur = k.res THEN "true" ELSE "false"]
               ELSE [k EXCEPT !.cur = ParentOf(k.from)]]
    /\ UNCHANGED skipCache

return(c) ==
    /\ lookup[c].pc \in {"done", "true", "false"}
    /\ lookup' = [lookup EXCEPT ![c] = Idle]
    /\ UNCHANGED skipCache

Next ==
    \E c \in Callers :
        \/ \E head \in Heads : \E ts \in Ancestors(head), h \in 0 .. HeightOf(head), prev \in BOOLEAN :
               GetTipsetByHeight(c, ts, h, prev)
        \/ indexStep(c)
        \/ \E p \in Asked : IsAncestorOf(c, p[1], p[2])
        \/ ancestorStep(c)
        \/ return(c)

-----------------------------------------------------------------------------
(* Properties *)

\* the tipset at height h behind ts, or before or after the null round h is in
At(ts, h, prev) ==
    LET same == {a \in Ancestors(ts) : HeightOf(a) = h}
        below == {a \in Ancestors(ts) : HeightOf(a) < h}
        above == {a \in Ancestors(ts) : HeightOf(a) > h}
    IN  IF same # {} THEN CHOOSE a \in same : TRUE
        ELSE IF prev THEN CHOOSE a \in below : \A b \in below : HeightOf(b) <= HeightOf(a)
        ELSE CHOOSE a \in above : \A b \in above : HeightOf(a) <= HeightOf(b)

\* GetTipsetByHeight returns the tipset at the height asked for or, for a null round, the
\* one before or after it as prev says, and fails only for a height above its start,
\* whatever other lookups left in or dropped from the cache; the index never answers with
\* a tipset below the height, which GetTipsetByHeight would repair with a slow walk.
RightTipSet ==
    \A c \in Callers :
        lookup[c].pc = "done" =>
            /\ lookup[c].res = IF lookup[c].to > HeightOf(lookup[c].from) THEN Err
                             ELSE At(lookup[c].from, lookup[c].to, lookup[c].prev)
            /\ ~ lookup[c].slow
=============================================================================
