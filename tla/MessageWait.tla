----------------------------- MODULE MessageWait -----------------------------
(***************************************************************************)
(* Finding the tipset that executed a message (chain/stmgr/stmgr.go):      *)
(* SearchForMessage and WaitForMessage, which subscribes to head changes,  *)
(* has a goroutine search back from the head it found, and returns when    *)
(* the message is as deep as asked.  Messages of a tipset are executed by  *)
(* its child.                                                              *)
(***************************************************************************)
EXTENDS Notifs, SequencesExt

CONSTANTS
    Starts,         \* pairs: the head at the subscription, and changes up to it delivered late
    Wanted, Nonce,  \* the message asked for, and the nonces of its sender's messages
    Msgs,           \* of a tipset: the messages of that sender, in order
    Funded,         \* tipsets in which the sender's account is made
    Confidences     \* what callers ask for

VARIABLES
    wait            \* the call of WaitForMessage: [pc, confidence, from, back, cand, top, reverts, seen, late, res];
                    \* top: heightOfHead; history: seen, the head last received,
                    \* and late, whether changes from before the subscription were still to come

waitVars == <<head, changes, wait>>

-----------------------------------------------------------------------------
(* Searching back *)

\* whether a tipset executed the message: "found", "none", or "conflict" for another of its
\* nonce; the messages are scanned from the last one
tipsetExecutedMessage(ts) ==
    LET ms == IF Height[ts] = 0 THEN <<>> ELSE Msgs[Parent[ts]]
        low == {i \in DOMAIN ms : Nonce[ms[i]] <= Nonce[Wanted]}
    IN  IF low = {} \/ Nonce[ms[Max(low)]] < Nonce[Wanted] THEN "none"
        ELSE IF ms[Max(low)] = Wanted THEN "found" ELSE "conflict"

\* the sender's nonce in a tipset's parent state
actorNonce(ts) == MapThenSumSet(LAMBDA a : Len(Msgs[a]), Chain[ts] \ {ts})

hasActor(ts) == (Chain[ts] \ {ts}) \cap Funded # {}

\* one round of the loop of searchBackForMsg
lookedBack(ts) ==
    IF Height[ts] = 0 THEN "stop"
    ELSE IF ~ hasActor(ts) THEN "noActor"
    ELSE IF actorNonce(ts) = 0 \/ actorNonce(ts) < Nonce[Wanted] THEN "stop"
    ELSE tipsetExecutedMessage(Parent[ts])

\* answers of a search: the tipset, NoTs, or an error
searchErr == "searchErr"

searchBackForMsg(from) ==
    LET path == TopDown(Chain[from])
        last == path[Min({i \in DOMAIN path : lookedBack(path[i]) # "none"})]
    IN  CASE lookedBack(last) = "found" -> Parent[last]
          [] lookedBack(last) \in {"conflict", "noActor"} -> searchErr
          [] OTHER -> NoTs

SearchForMessage(from) ==
    CASE tipsetExecutedMessage(from) = "found" -> from
      [] tipsetExecutedMessage(from) = "conflict" -> searchErr
      [] OTHER -> searchBackForMsg(from)

-----------------------------------------------------------------------------
(* WaitForMessage *)

WaitInit ==
    \E start \in Starts, c \in Confidences :
        /\ head = start[1] /\ changes = start[2]
        /\ wait = [pc |-> "called", confidence |-> c, from |-> NoTs, back |-> "none", cand |-> NoTs, top |-> 0,
                   reverts |-> {}, seen |-> head, late |-> FALSE, res |-> NoTs]

\* nobody waits
NoWait ==
    /\ \E ts \in TipSets : Parent[ts] = NoTs /\ head = ts
    /\ changes = <<>>
    /\ wait = [pc |-> "off"]

ended(w, res) == [w EXCEPT !.pc = "returned", !.res = res]

\* the subscription, and a look at the current head
WaitForMessage ==
    /\ wait.pc = "called"
    /\ LET w == [wait EXCEPT !.from = head, !.seen = head, !.top = Height[head], !.late = changes # <<>>]
       IN  wait' = CASE tipsetExecutedMessage(head) = "found" -> ended(w, head)
                     [] tipsetExecutedMessage(head) = "conflict" -> ended(w, searchErr)
                     [] OTHER -> [w EXCEPT !.pc = "loop", !.back = "running"]
    /\ UNCHANGED <<head, changes>>

\* the goroutine ends; only without an error does it say so
backSearch ==
    /\ wait.pc = "loop" /\ wait.back = "running"
    /\ wait' = [wait EXCEPT !.back = IF searchBackForMsg(wait.from) = searchErr THEN "failed" ELSE "found"]
    /\ UNCHANGED <<head, changes>>

onRevert(w, ts) ==
    [w EXCEPT !.cand = IF @ = ts THEN NoTs ELSE @,
              !.reverts = IF w.back = "taken" THEN @ ELSE @ \cup {ts}]

\* Mutant: the height of the head stays that of the subscription.
onApplyTop(w, ts) ==
    LET r == tipsetExecutedMessage(ts)
    IN  CASE w.pc # "loop" -> w
          [] w.cand # NoTs /\ Height[ts] >= Height[w.cand] + w.confidence -> ended(w, w.cand)
          [] OTHER -> IF r = "conflict" THEN ended(w, searchErr)
                      ELSE IF r = "found" /\ w.confidence = 0 THEN ended(w, ts)
                      ELSE [w EXCEPT !.cand = IF r = "found" THEN ts ELSE @]

onApply(w, ts) ==
    LET r == tipsetExecutedMessage(ts)
    IN  CASE w.pc # "loop" -> w
          [] w.cand # NoTs /\ Height[ts] >= Height[w.cand] + w.confidence -> ended(w, w.cand)
          [] OTHER -> IF r = "conflict" THEN ended(w, searchErr)
                      ELSE IF r = "found" /\ w.confidence = 0 THEN ended(w, ts)
                      ELSE [w EXCEPT !.cand = IF r = "found" THEN ts ELSE @, !.top = Height[ts]]

\* one notification
onNotif ==
    /\ wait.pc = "loop" /\ changes # <<>>
    /\ LET c == changes[1]
           w == FoldLeft(onRevert, wait, reverted(c[1], c[2]))
       IN  wait' = [FoldLeft(onApply, w, applied(c[1], c[2])) EXCEPT !.seen = c[2]]
    /\ changes' = Tail(changes)
    /\ UNCHANGED head

\* Mutant: the result is taken whatever was reverted during the search.
takenAny(w, ts) ==
    IF ts = NoTs THEN w
    ELSE IF w.top >= Height[ts] + w.confidence THEN ended(w, ts)
    ELSE [w EXCEPT !.cand = ts]

taken(w, ts) ==
    IF ts = NoTs \/ ts \in w.reverts THEN w
    ELSE IF w.top >= Height[ts] + w.confidence THEN ended(w, ts)
    ELSE [w EXCEPT !.cand = ts]

backSearchWait ==
    /\ wait.pc = "loop" /\ wait.back = "found"
    /\ wait' = [taken(wait, searchBackForMsg(wait.from)) EXCEPT !.back = "taken", !.reverts = {}]
    /\ UNCHANGED <<head, changes>>

ctxDone ==
    /\ wait.pc = "loop"
    /\ wait' = ended(wait, NoTs)
    /\ UNCHANGED <<head, changes>>

WaitStep == WaitForMessage \/ backSearch \/ onNotif \/ backSearchWait

WaitNext ==
    \/ wait.pc \in {"called", "loop"} /\ (\E ts \in TipSets : HeadMoves(ts)) /\ UNCHANGED wait
    \/ WaitStep
    \/ ctxDone

-----------------------------------------------------------------------------
(* Properties *)

\* the tipset of a chain that executed the message, if any
Executing(chain) == {ts \in chain : Height[ts] > 0 /\ Wanted \in Range(Msgs[Parent[ts]])}
Replaced(chain) ==
    \E ts \in chain : Height[ts] > 0 /\ \E m \in Range(Msgs[Parent[ts]]) : m # Wanted /\ Nonce[m] = Nonce[Wanted]

\* what SearchForMessage should answer below the head
Sought ==
    IF Replaced(Chain[head]) THEN {searchErr}
    ELSE IF Executing(Chain[head]) # {} THEN Executing(Chain[head])
    ELSE {NoTs} \cup {searchErr : ts \in {t \in Chain[head] : Height[t] > 0 /\ ~ hasActor(t)}}

\* What WaitForMessage returns executed the message, is on the chain of the head it last
\* received, although it was found by a search that ran while the head moved, and is as
\* deep as asked, unless it was that head when the call was made, which is returned at once
\* whatever depth was asked for.  Changes from before the subscription that come late may
\* count for the depth of what the search found.  The search finds the tipset wherever it is:
\* neither the shortcut on the sender's nonce nor the scan from the last message hides it; it
\* fails when another message with the nonce was executed, and otherwise only where the chain
\* has tipsets from before the sender's account.
WaitResult ==
    /\ wait.pc # "off" => SearchForMessage(head) \in Sought
    /\ wait.pc = "returned" /\ wait.res \in TipSets =>
        \/ /\ wait.res \in Executing(Chain[wait.seen])
           /\ Height[wait.seen] >= Height[wait.res] + wait.confidence \/ wait.res = wait.from
        \/ wait.late /\ wait.res \in Executing(Chain[wait.from])

\* When all head changes are received and the search is over, WaitForMessage has returned
\* if the message was executed as deep below the head as asked.
NoneMissed ==
    wait.pc = "loop" /\ changes = <<>> /\ wait.back # "running" /\ wait.back # "found" =>
        \A ts \in Executing(Chain[head]) : Height[head] < Height[ts] + wait.confidence
=============================================================================
