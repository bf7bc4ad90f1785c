------------------------------- MODULE HeadFeed -------------------------------
(***************************************************************************)
(* What the chain store promises a component that follows its head: every  *)
(* change of the head is queued as a pair of the old and the new head, and *)
(* delivered once and in order.  ChainStore implements this specification, *)
(* and MessagePool is written against it.                                  *)
(***************************************************************************)
EXTENDS Naturals, Sequences

CONSTANT TipSets

VARIABLES
    head,       \* the head of the chain
    changes,    \* changes not delivered yet: <<old head, new head>>
    view        \* the head as the follower knows it

vars == <<head, changes, view>>

Init == head \in TipSets /\ changes = <<>> /\ view = head

Move ==
    \E ts \in TipSets :
        /\ head' = ts
        /\ changes' = Append(changes, <<head, ts>>)
        /\ view' = view

Deliver ==
    /\ changes # <<>>
    /\ view' = Head(changes)[2]
    /\ changes' = Tail(changes)
    /\ head' = head

\* a restart: the follower starts from the head that was persisted
Restart == head' \in TipSets /\ changes' = <<>> /\ view' = head'

Next == Move \/ Deliver \/ Restart

Spec == Init /\ [][Next]_vars

\* Every change starts where the one before it ended; the first starts at the
\* follower's view and the last ends at the head.
Connected ==
    /\ changes = <<>> => view = head
    /\ changes # <<>> => changes[1][1] = view /\ changes[Len(changes)][2] = head
    /\ \A i \in 1 .. Len(changes) - 1 : changes[i][2] = changes[i + 1][1]

TypeOK == head \in TipSets /\ changes \in Seq(TipSets \X TipSets) /\ view \in TipSets
=============================================================================
