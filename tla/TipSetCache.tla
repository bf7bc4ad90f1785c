------------------------------ MODULE TipSetCache ------------------------------
(***************************************************************************)
(* The ring buffer of recent tipsets of chain/events/tscache.go, one slot  *)
(* for each epoch and nil in the slots of null rounds, as operators on a   *)
(* record [cache, start, len].                                             *)
(***************************************************************************)
EXTENDS Forks

CONSTANT Cap            \* slots (2 * ForkLengthThreshold)

ASSUME CapAssumption == Cap \in Nat \ {0}

\* ChainGetTipSetByHeight, with prev: the tipset behind ts at height h or below it
AtOrBelow(ts, h) ==
    LET low == {a \in Chain[ts] : Height[a] <= h}
    IN  CHOOSE a \in low : \A b \in low : Height[b] <= Height[a]

newTSCache == [cache |-> [i \in 0 .. Cap - 1 |-> NoTs], start |-> 0, len |-> 0]

best(c) == c.cache[c.start]

\* the slot i epochs below the head
slot(c, i) == c.cache[(c.start - i) % Cap]

push(c, ts) ==
    LET i == (c.start + 1) % Cap
    IN  [cache |-> [c.cache EXCEPT ![i] = ts], start |-> i, len |-> Min({c.len + 1, Cap})]

\* the check of add, which fails otherwise
canAdd(c, ts) == c.len > 0 => Height[best(c)] < Height[ts]

add(c, ts) ==
    LET nulls == IF c.len > 0 THEN Height[ts] - Height[best(c)] - 1 ELSE 0
        filled[i \in 0 .. nulls] == IF i = 0 THEN c ELSE push(filled[i - 1], NoTs)
    IN  push(filled[nulls], ts)

\* the check of revert; with an empty cache it does nothing
canRevert(c, ts) == c.len > 0 => best(c) = ts

pop(c) == [cache |-> [c.cache EXCEPT ![c.start] = NoTs], start |-> (c.start - 1) % Cap, len |-> c.len - 1]

\* the head, then the null rounds below it
revert(c, ts) ==
    LET popped[i \in 1 .. Cap] == IF i = 1 THEN pop(c) ELSE pop(popped[i - 1])
        n == CHOOSE i \in 1 .. c.len :
                 /\ i = c.len \/ best(popped[i]) # NoTs
                 /\ \A j \in 1 .. i - 1 : best(popped[j]) = NoTs
    IN  IF c.len = 0 THEN c ELSE popped[n]

\* the lowest tipset in the cache
tail(c) == LET full == {i \in 0 .. c.len - 1 : slot(c, i) # NoTs} IN slot(c, Max(full))

\* get fails above the head; head is the store's, which an empty cache asks
canGet(c, h, head) == h <= Height[IF c.len = 0 THEN head ELSE best(c)]

\* the tipset at height h, NoTs for a null round; storage answers below the tail
get(c, h, head) ==
    IF c.len = 0 THEN AtOrBelow(head, h)
    ELSE IF h < Height[tail(c)] THEN AtOrBelow(tail(c), h)
    ELSE slot(c, Height[best(c)] - h)

\* the tipset at height h or the first above it
getNonNull(c, h, head) ==
    LET top == Height[IF c.len = 0 THEN head ELSE best(c)]
        at == {i \in h .. top : get(c, i, head) # NoTs}
    IN  IF at = {} THEN NoTs ELSE get(c, Min(at), head)
=============================================================================
