------------------------------- MODULE Notifs -------------------------------
(* The chain store's head and a subscription to its changes, as clients of the node see them. *)
EXTENDS Forks

CONSTANTS
    Weight,         \* of a tipset: the head only gets heavier
    MaxPending      \* bound: head changes not yet received when the head moves

VARIABLES
    head,           \* the store's head
    changes         \* <<old head, new head>> not received yet

\* external: the store takes a heavier head
HeadMoves(ts) ==
    /\ Weight[ts] > Weight[head] /\ Len(changes) <= MaxPending
    /\ head' = ts /\ changes' = Append(changes, <<head, ts>>)
=============================================================================
