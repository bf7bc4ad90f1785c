------------------------------ MODULE StateTree ------------------------------
(***************************************************************************)
(* The state tree (chain/state/statetree.go) as operators on a record      *)
(* [root, layers]: actors by ID in a stored map, and above it a stack of   *)
(* snapshot layers, each with the actors set or deleted (and those read    *)
(* from the root) and the addresses resolved while it was the top one.     *)
(* The Init actor's head is [map, next]: the IDs given to addresses.       *)
(***************************************************************************)
EXTENDS Integers, SequencesExt

CONSTANTS
    IDs, InitID,        \* ID addresses
    NoActor, Deleted    \* nil, and streeOp.Delete

newStateSnapLayer == [actors |-> <<>>, resolveCache |-> <<>>]

NewTree(root) == [root |-> root, layers |-> <<newStateSnapLayer>>]

addLayer(t) == [t EXCEPT !.layers = Append(@, newStateSnapLayer)]

dropLayer(t) == [t EXCEPT !.layers = Front(@)]

\* Mutant: the layer below wins.
mergeUnder(t) ==
    LET n == Len(t.layers)
        last == t.layers[n]
    IN  dropLayer([t EXCEPT !.layers[n - 1] =
            [actors |-> @.actors @@ last.actors, resolveCache |-> last.resolveCache @@ @.resolveCache]])

mergeLastLayer(t) ==
    LET n == Len(t.layers)
        last == t.layers[n]
    IN  dropLayer([t EXCEPT !.layers[n - 1] =
            [actors |-> last.actors @@ @.actors, resolveCache |-> last.resolveCache @@ @.resolveCache]])

Snapshot(t) == addLayer(t)
ClearSnapshot(t) == mergeLastLayer(t)

\* Mutant: what the layer resolved is kept.
RevertActors(t) == [t EXCEPT !.layers[Len(t.layers)].actors = <<>>]

Revert(t) == addLayer(dropLayer(t))

-----------------------------------------------------------------------------
\* the actor at an ID, looked for from the top layer down, then in the root
actorAt(t, id) ==
    LET at == {i \in DOMAIN t.layers : id \in DOMAIN t.layers[i].actors}
        op == t.layers[Max(at)].actors[id]
    IN  IF at # {} THEN IF op = Deleted THEN NoActor ELSE op
        ELSE IF id \in DOMAIN t.root THEN t.root[id] ELSE NoActor

put(t, id, op) == [t EXCEPT !.layers[Len(t.layers)].actors = (id :> op) @@ @]

\* GetActor keeps what it reads from the root in the top layer
loaded(t, id) ==
    IF id \in DOMAIN t.root /\ \A i \in DOMAIN t.layers : id \notin DOMAIN t.layers[i].actors
    THEN put(t, id, t.root[id]) ELSE t

cached(t, addr) == {i \in DOMAIN t.layers : addr \in DOMAIN t.layers[i].resolveCache}

\* the ID of an address: itself, a resolution that is cached, or what Init's state says
resolves(t, addr) ==
    addr \in IDs \/ cached(t, addr) # {} \/ addr \in DOMAIN actorAt(t, InitID).head.map

LookupID(t, addr) ==
    IF addr \in IDs THEN addr
    ELSE IF cached(t, addr) # {} THEN t.layers[Max(cached(t, addr))].resolveCache[addr]
    ELSE actorAt(t, InitID).head.map[addr]

\* the tree after LookupID: Init was read and the answer cached
looked(t, addr) ==
    IF addr \in IDs \/ cached(t, addr) # {} THEN t
    ELSE LET u == loaded(t, InitID)
         IN  IF resolves(t, addr)
             THEN [u EXCEPT !.layers[Len(u.layers)].resolveCache = (addr :> LookupID(t, addr)) @@ @]
             ELSE u

GetActor(t, addr) == actorAt(t, LookupID(t, addr))

\* the tree after GetActor
gotActor(t, addr) == loaded(looked(t, addr), LookupID(t, addr))

SetActor(t, addr, act) == put(looked(t, addr), LookupID(t, addr), act)

\* of an actor that is there
DeleteActor(t, addr) == put(gotActor(t, addr), LookupID(t, addr), Deleted)

\* f maps an actor to the new one
MutateActor(t, addr, f(_)) == SetActor(gotActor(t, addr), addr, f(GetActor(t, addr)))

\* the tree after Init gave addr the next ID
RegisterNewAddress(t, addr) ==
    LET give(a) == [a EXCEPT !.head = [map |-> (addr :> @.next) @@ @.map, next |-> @.next + 1]]
    IN  MutateActor(t, InitID, give)

\* refused while snapshots are on the stack; the map of actors refuses to delete one it does
\* not have, set and deleted since the last flush
canFlush(t) ==
    /\ Len(t.layers) = 1
    /\ \A id \in DOMAIN t.layers[1].actors : t.layers[1].actors[id] = Deleted => id \in DOMAIN t.root

Flush(t) ==
    LET ops == t.layers[1].actors
    IN  [t EXCEPT !.root = [id \in {i \in DOMAIN ops \cup DOMAIN @ : i \in DOMAIN ops => ops[i] # Deleted} |->
                               IF id \in DOMAIN ops THEN ops[id] ELSE @[id]]]

-----------------------------------------------------------------------------
\* the actors there are
view(t) == [id \in IDs |-> actorAt(t, id)]

\* the tree without its layers above the n-th
upTo(t, n) == [t EXCEPT !.layers = SubSeq(@, 1, n)]

\* Every cached resolution is what Init says in the state of its layer.
CacheRight(t) ==
    \A i \in DOMAIN t.layers : \A a \in DOMAIN t.layers[i].resolveCache :
        LET map == actorAt(upTo(t, i), InitID).head.map
        IN  a \in DOMAIN map /\ map[a] = t.layers[i].resolveCache[a]
=============================================================================
