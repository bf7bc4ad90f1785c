----------------------------- MODULE WindowPoSt -----------------------------
(***************************************************************************)
(* The window PoSt scheduler of a storage miner (storage/wdpost_sched.go   *)
(* and wdpost_run.go).  It follows the node's head over a subscription     *)
(* that may break, starts a goroutine that proves the deadline of the      *)
(* head, and aborts it when the chain leaves that deadline.  The goroutine *)
(* also declares recoveries and faults of the next deadline.               *)
(***************************************************************************)
EXTENDS Notifs

CONSTANTS
    DeadlineEpochs, ChallengeLookback,  \* epochs of a deadline; how far before it the challenge is drawn
    FirstEpoch,                         \* of the first proving period
    StartConfidence,
    PostHeads,                          \* heads when the scheduler starts
    MaxPosts,                           \* bound: PoSts the heads of an instance can start
    MaxBreaks                           \* bound: subscriptions broken and calls to the node failed

VARIABLES
    sched,      \* [on, cur, active]: is it subscribed, the lowest tipset reverted last,
                \* the index into posts of the active PoSt or 0
    posts,      \* goroutines of doPost: [dl, ts, live, proof, decl], dl a deadline;
                \* a message pushed and an error are the same end
    breaks,
    missed      \* history: the scheduler did not see a head change, or could not look up its deadline

postVars == <<sched, posts, breaks, missed>>

PostInit ==
    /\ head \in PostHeads /\ changes = <<>>
    /\ sched = [on |-> FALSE, cur |-> NoTs, active |-> 0]
    /\ posts = <<>> /\ breaks = 0 /\ missed = FALSE

\* no scheduler runs
NoSched == [on |-> FALSE]
NoPost == sched = NoSched /\ posts = <<>> /\ breaks = MaxBreaks /\ missed = FALSE

-----------------------------------------------------------------------------
(* Deadlines *)

\* StateMinerProvingDeadline, by its index: before the first period it is that period's first
Deadline(ts) == (Max({Height[ts], FirstEpoch}) - FirstEpoch) \div DeadlineEpochs
Challenge(dl) == FirstEpoch + dl * DeadlineEpochs - ChallengeLookback

\* the tipset that ChainGetRandomness draws from
drawnFrom(ts, dl) == CHOOSE t \in Chain[ts] :
    /\ Height[t] <= Max({0, Challenge(dl)})
    /\ \A u \in Chain[ts] : Height[u] <= Max({0, Challenge(dl)}) => Height[u] <= Height[t]

activeDeadline(s, ps) == IF s.active = 0 THEN -1 ELSE ps[s.active].dl

-----------------------------------------------------------------------------
(* The scheduler: it changes a pair of sched and posts *)

abortActivePoSt(st) ==
    IF st[1].active = 0 THEN st
    ELSE <<[st[1] EXCEPT !.active = 0], [st[2] EXCEPT ![st[1].active].live = FALSE]>>

doPost(st, dl, ts) ==
    <<[st[1] EXCEPT !.active = Len(st[2]) + 1],
      Append(st[2], [dl |-> dl, ts |-> ts, live |-> TRUE, proof |-> "running", decl |-> "recoveries"])>>

update(st, new) ==
    LET dl == Deadline(new)
    IN  IF activeDeadline(st[1], st[2]) = dl \/ Height[new] < FirstEpoch THEN st
        ELSE IF Challenge(dl) + StartConfidence >= Height[new] THEN abortActivePoSt(st)
        ELSE doPost(abortActivePoSt(st), dl, new)

\* Mutant: only the first revert is looked at.
revertOnce(st, newLowest) ==
    LET s == <<[st[1] EXCEPT !.cur = newLowest], st[2]>>
    IN  IF st[1].cur = NoTs /\ activeDeadline(st[1], st[2]) # Deadline(newLowest) THEN abortActivePoSt(s) ELSE s

\* (without a revert newLowest is the scheduler's own cur and nothing is done; a tipset
\* received over RPC is another object than cur, whichever it is)
revert(st, newLowest) ==
    LET s == <<[st[1] EXCEPT !.cur = newLowest], st[2]>>
    IN  IF activeDeadline(st[1], st[2]) # Deadline(newLowest) THEN abortActivePoSt(s) ELSE s

becomes(st) == sched' = st[1] /\ posts' = st[2]

\* ChainNotify sends the current head first, here as a change from NoTs
subscribe ==
    /\ ~ sched.on
    /\ sched' = [sched EXCEPT !.on = TRUE]
    /\ changes' = <<<<NoTs, head>>>>
    /\ UNCHANGED <<head, posts, breaks, missed>>

\* one notification; a lookup of a deadline may fail
headChange ==
    /\ sched.on /\ changes # <<>>
    /\ LET c == changes[1]
           gone == IF c[1] = NoTs THEN <<>> ELSE reverted(c[1], c[2])
           st == <<sched, posts>>
           low == IF gone = <<>> THEN st ELSE revert(st, gone[Len(gone)])
           lowFailed == IF gone = <<>> THEN st ELSE <<[sched EXCEPT !.cur = gone[Len(gone)]], posts>>
       IN  \/ becomes(update(low, c[2])) /\ missed' = (missed /\ sched'.active = sched.active) /\ UNCHANGED breaks
           \/ /\ breaks < MaxBreaks /\ breaks' = breaks + 1
              /\ becomes(low) \/ becomes(update(lowFailed, c[2]))
              /\ missed' = TRUE
    /\ changes' = Tail(changes)
    /\ UNCHANGED head

\* the channel is closed, with changes lost
notifsClosed ==
    /\ sched.on /\ breaks < MaxBreaks
    /\ sched' = [sched EXCEPT !.on = FALSE]
    /\ changes' = <<>> /\ breaks' = breaks + 1 /\ missed' = (sched.active # 0)
    /\ UNCHANGED <<head, posts>>

\* the miner's process ends, for one by the index of wdpost_run.go:419 that is out of range, and starts again
Restart ==
    /\ breaks < MaxBreaks /\ breaks' = breaks + 1
    /\ sched' = [on |-> FALSE, cur |-> NoTs, active |-> 0] /\ posts' = <<>> /\ changes' = <<>> /\ missed' = FALSE
    /\ UNCHANGED head

-----------------------------------------------------------------------------
(* The goroutine of a PoSt: runPost, whose proof is held back until the declarations are over, and submitPost *)

proved(p) == IF p.proof = "running" THEN {[p EXCEPT !.proof = "returned"]} ELSE {}

\* the partitions of the next deadline cannot be read, or checkNextRecoveries, then checkNextFaults:
\* messages are waited for, context or not
declared(p) ==
    CASE p.decl = "recoveries" -> {[p EXCEPT !.decl = d] : d \in {"faults", "done"}}
      [] p.decl = "faults" -> {[p EXCEPT !.decl = "done"]}
      [] OTHER -> {}

\* the end of doPost, which cancels the context: a message is pushed if it still lives and there is a proof
submitPost(p) ==
    IF p.proof = "returned" /\ p.decl = "done" THEN {[p EXCEPT !.live = FALSE, !.proof = "over"]} ELSE {}

runPost(i) ==
    /\ i \in DOMAIN posts
    /\ \E p \in proved(posts[i]) \cup declared(posts[i]) \cup submitPost(posts[i]) : posts' = [posts EXCEPT ![i] = p]
    /\ UNCHANGED <<head, changes, sched, breaks, missed>>

PostNext ==
    /\ sched # NoSched
    /\ \/ /\ \E ts \in TipSets : IF sched.on THEN HeadMoves(ts) ELSE Weight[ts] > Weight[head] /\ head' = ts /\ UNCHANGED changes
          /\ UNCHANGED postVars
       \/ subscribe \/ headChange \/ notifsClosed \/ Restart
       \/ \E i \in DOMAIN posts : runPost(i)

-----------------------------------------------------------------------------
(* Properties *)

\* Once the scheduler has received every head change, the active PoSt is for the head's
\* deadline and its challenge is drawn from the head's chain: a reorg below the challenge
\* has aborted it (wdpost_sched.go:152-168).  A revert it could not see or look up may leave a
\* stale one until the next deadline.  So may null rounds from the challenge to the
\* deadline, which the instance leaves out, and, in the first deadline, any reorg: tipsets
\* before the first period have that deadline too.  No other PoSt runs but those that were
\* aborted, which submit nothing.
PostCurrent ==
    /\ Len(posts) <= MaxPosts /\ \A i \in DOMAIN posts : posts[i].live => i = sched.active
    /\ sched.on /\ changes = <<>> /\ ~ missed =>
        LET dl == Deadline(head) IN
        \/ Height[head] < FirstEpoch \/ Challenge(dl) + StartConfidence >= Height[head]
        \/ /\ activeDeadline(sched, posts) = dl
           /\ dl > 0 => drawnFrom(posts[sched.active].ts, dl) = drawnFrom(head, dl)
=============================================================================
