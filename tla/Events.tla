-------------------------------- MODULE Events --------------------------------
(***************************************************************************)
(* The two consumers of a head change (chain/events): headChange first     *)
(* lets headChangeAt of HeightEvents move the cache and call the height    *)
(* handlers, then processHeadChangeEvent (events_called.go) queues message *)
(* calls and state changes, calls the watchers whose confidence is reached *)
(* and times out those that saw nothing.                                   *)
(*                                                                         *)
(* hcEvents.lk is held over the whole of processHeadChangeEvent; matchers  *)
(* have a lock of their own, taken for one tipset at a time, so a matcher  *)
(* can be added between two tipsets.  Watchers' own callbacks do not fail. *)
(***************************************************************************)
EXTENDS HeightEvents, SequencesExt

CONSTANTS
    Watchers,
    Kind,               \* "msg" (Called) or "state" (StateChanged)
    Matches, MatchOnce, \* the messages MsgMatchFunc matches, and its matchOnce
    Conf, Timeout,      \* confidence and timeout (NoTimeout)
    More,               \* what handlers answer
    Msgs, State,        \* of a tipset: messages included, the state watched
    NoTimeout

NoHeight == -1

VARIABLES
    lastTs,     \* e.lastTs
    hc,         \* headChange: [stage, rev, app]; hcEvents.lk is held when stage is "locked"
    trigger,    \* e.triggers and matchers: [stage, disabled]
    queue,      \* confQueue and revertQueue: [trigger, h, prevH, called], with the tipset
                \* that was applied (ts) in place of the event's data
    calls,      \* timeouts: trigger -> calls, for those with a timeout
    since,      \* history: the tipset check looked at
    delivered,  \* history: <<watcher, tipset>> handled and not reverted
    again,      \* history: watchers handling an event once more without a revert
    timedOut,   \* history: watchers told of a timeout, with the tipset that brought it
    missed      \* history: <<watcher, tipset>> processed between check and matcher

heightVars == vars
registered == <<trigger, calls, since>>
seenBy == <<delivered, again, timedOut, missed>>
hcVars == <<lastTs, hc, registered, queue, seenBy>>
evars == <<heightVars, hcVars>>

NoHc == [stage |-> "idle", rev |-> <<>>, app |-> <<>>]

EventsInit ==
    /\ Init
    /\ lastTs = head
    /\ hc = NoHc
    /\ trigger \in [Watchers -> [stage : {"new", "never"}, disabled : {FALSE}]]
    /\ queue = {} /\ calls = <<>>
    /\ since = [w \in Watchers |-> NoTs]
    /\ delivered = {} /\ again = {} /\ timedOut = {} /\ missed = {}

-----------------------------------------------------------------------------
(* headChange: headChangeAt, then processHeadChangeEvent unless it failed *)

startHeadChange ==
    /\ hc.stage = "idle" /\ headChange
    /\ hc' = IF change'.stage = "idle" THEN NoHc
             ELSE LET old == Head(changes)[1]
                      new == Head(changes)[2]
                  IN  [stage |-> "height", rev |-> reverted(old, new), app |-> applied(old, new)]
    /\ UNCHANGED <<lastTs, registered, queue, seenBy>>

\* headChangeAt came through its last tipset
heightDone == change.stage = "apply" /\ ~ change.fail /\ Len(change.app) = 1

stepHeadChange ==
    /\ revertAt \/ applyAt
    /\ hc' = IF change'.stage # "idle" THEN hc
             ELSE IF heightDone THEN [hc EXCEPT !.stage = "ready"] ELSE NoHc
    /\ UNCHANGED <<lastTs, registered, queue, seenBy>>

\* Mutant: queued events of the tipset stay queued.
handleRevertsKeep(ts) ==
    /\ delivered' = delivered \ {<<e.trigger, ts>> : e \in {d \in queue : d.h = Height[ts] /\ d.called}}
    /\ UNCHANGED <<queue, calls, trigger, again, timedOut, missed>>

\* RevertHandlers of the events that were called, and all events of the height dropped
handleReverts(ts) ==
    LET dropped == {e \in queue : e.h = Height[ts]}
    IN  /\ delivered' = delivered \ {<<e.trigger, ts>> : e \in {d \in dropped : d.called}}
        /\ queue' = queue \ dropped
        /\ UNCHANGED <<calls, trigger, again, timedOut, missed>>

matching == {w \in Watchers : trigger[w].stage = "matching"}

\* matchers against the last tipset processed and this one
checkStateChanges(old, ts) == {w \in matching : Kind[w] = "state" /\ State[old] # State[ts]}

\* who is told of message m: the matchers are visited in any order, up to the first match
\* that says matchOnce
toldOf(m) ==
    LET match == {w \in matching : Kind[w] = "msg" /\ m \in Matches[w]}
        once == {w \in match : MatchOnce[w]}
    IN  IF once = {} THEN {match} ELSE {S \cup {w} : S \in SUBSET (match \ once), w \in once}

\* the watchers with a call: messages of the parent tipset were executed by this one
checkNewCalls(ts) ==
    LET pm == Msgs[Parent[ts]]
    IN  {UNION {f[m] : m \in pm} : f \in {g \in [pm -> SUBSET Watchers] : \A m \in pm : g[m] \in toldOf(m)}}

queueForConfidence(W, prevH, ts) ==
    {[trigger |-> w, h |-> Height[ts], prevH |-> prevH, called |-> FALSE, ts |-> ts] : w \in W}

\* s: [queue, trigger, calls, delivered, again, timedOut] as processing goes on
triggerH(e) == e.h + Conf[e.trigger]

\* the queued events to call at a height
dueAt(s, height) ==
    {e \in s.queue : /\ triggerH(e) = height /\ ~ e.called /\ ~ s.trigger[e.trigger].disabled
                     /\ e.prevH # NoHeight => canGet(tsc, e.prevH, head)}

\* the tipset handed to the handler
triggerTs(e) == get(tsc, e.h, head)

applyWithConfidence(s, height) ==
    LET due == dueAt(s, height)
        W == {e.trigger : e \in due}
        told == {<<e.trigger, triggerTs(e)>> : e \in due}
    IN  [s EXCEPT !.queue = (@ \ due) \cup {[e EXCEPT !.called = TRUE] : e \in due},
                  !.calls = [w \in DOMAIN @ |-> IF w \in W THEN @[w] + 1 ELSE @[w]],
                  !.trigger = [w \in Watchers |-> IF w \in W THEN [@[w] EXCEPT !.disabled = ~ More[w]] ELSE @[w]],
                  !.again = @ \cup {p[1] : p \in told \cap s.delivered}
                            \cup {e.trigger : e \in {d \in due : \E f \in due \ {d} : f.trigger = d.trigger}},
                  !.delivered = @ \cup told]

\* timeouts filed under the tipset's height.  The handler of Called looks for the receipt
\* of its nil message first, which a node does not have: it fails.
applyTimeouts(s, ts) ==
    LET W == {w \in DOMAIN s.calls : /\ Timeout[w] + Conf[w] = Height[ts] /\ s.calls[w] = 0
                                     /\ ~ s.trigger[w].disabled /\ Kind[w] = "state"}
    IN  [s EXCEPT !.timedOut = @ \cup {<<w, ts>> : w \in W},
                  !.trigger = [w \in Watchers |-> IF w \in W THEN [@[w] EXCEPT !.disabled = ~ More[w]] ELSE @[w]]]

\* Mutant: only the height of the tipset is visited.
visitedTop(ts) == <<Height[ts]>>

\* the null rounds below a tipset are visited too, from the last tipset on
visited(ts) == [i \in 1 .. Height[ts] - Height[lastTs] + 1 |-> Height[lastTs] + i - 1]

applyTipSet(ts) ==
    \E C \in checkNewCalls(ts) :
        LET queued == queueForConfidence(checkStateChanges(lastTs, ts), Height[lastTs], ts)
                      \cup queueForConfidence(C, NoHeight, ts)
            s0 == [queue |-> queue \cup queued, trigger |-> trigger, calls |-> calls,
                   delivered |-> delivered, again |-> again, timedOut |-> timedOut]
            s == FoldLeft(LAMBDA t, h : applyTimeouts(applyWithConfidence(t, h), ts), s0, visited(ts))
        IN  /\ queue' = s.queue /\ trigger' = s.trigger /\ calls' = s.calls
            /\ delivered' = s.delivered /\ again' = s.again /\ timedOut' = s.timedOut
            /\ missed' = missed \cup {<<w, ts>> : w \in {v \in Watchers : trigger[v].stage = "checked"}}

\* one tipset of processHeadChangeEvent
processHeadChangeEvent ==
    /\ hc.stage \in {"ready", "locked"}
    /\ IF hc.rev # <<>> THEN handleReverts(Head(hc.rev)) ELSE applyTipSet(Head(hc.app))
    /\ lastTs' = IF hc.rev # <<>> THEN Head(hc.rev) ELSE Head(hc.app)
    /\ hc' = IF hc.rev # <<>> THEN [hc EXCEPT !.stage = "locked", !.rev = Tail(@)]
             ELSE IF Len(hc.app) > 1 THEN [hc EXCEPT !.stage = "locked", !.app = Tail(@)]
             ELSE NoHc
    /\ UNCHANGED <<heightVars, since>>

-----------------------------------------------------------------------------
(* Called and StateChanged *)

\* what a watcher waits for, seen at tipset ts
occurs(w, ts) ==
    /\ Parent[ts] # NoTs
    /\ IF Kind[w] = "msg" THEN Matches[w] \cap Msgs[Parent[ts]] # {}
       ELSE State[ts] # State[Parent[ts]]

\* check runs on the best tipset of the cache, or, its key being empty, on the store's head
\* when that is nil
checkedTs == IF tsc.len > 0 THEN best(tsc) ELSE head
found(w) == \E a \in Chain[checkedTs] : occurs(w, a)

\* a check that finds the event wants no timeout
onHeadChanged(w) ==
    /\ trigger[w].stage = "new" /\ hc.stage # "locked" /\ ~ (found(w) /\ tsc.len = 0)
    /\ LET done == found(w)
       IN  /\ trigger' = [trigger EXCEPT ![w] = [stage |-> "checked", disabled |-> done /\ ~ More[w]]]
           /\ calls' = IF done \/ Timeout[w] = NoTimeout THEN calls
                       ELSE [v \in DOMAIN calls \cup {w} |-> IF v = w THEN 0 ELSE calls[v]]
    /\ since' = [since EXCEPT ![w] = checkedTs]
    /\ UNCHANGED <<heightVars, lastTs, hc, queue, seenBy>>

\* a check that finds the event hands the height of its nil tipset on, and panics
onHeadChangedPanics(w) ==
    /\ trigger[w].stage = "new" /\ hc.stage # "locked" /\ found(w) /\ tsc.len = 0
    /\ NewEvents

\* the matcher is added once the trigger has its id
addMatcher(w) ==
    /\ trigger[w].stage = "checked"
    /\ trigger' = [trigger EXCEPT ![w].stage = "matching"]
    /\ UNCHANGED <<heightVars, lastTs, hc, queue, calls, since, seenBy>>

-----------------------------------------------------------------------------
heightStep ==
    \/ \E ts \in TipSets : HeadMoves(ts)
    \/ \E x \in Handlers : ChainAtPassed(x) \/ ChainAtRegister(x)
    \/ hc.stage = "idle" /\ Reconnect

\* a panic, and newHCEvents at the next start
panics ==
    /\ (\E x \in Handlers : ChainAtPanics(x)) \/ (\E w \in Watchers : onHeadChangedPanics(w))
    /\ lastTs' = head /\ hc' = NoHc
    /\ trigger' = [w \in Watchers |->
           [stage |-> IF trigger[w].stage = "never" THEN "never" ELSE "new", disabled |-> FALSE]]
    /\ queue' = {} /\ calls' = <<>>
    /\ since' = [w \in Watchers |-> NoTs]
    /\ delivered' = {} /\ again' = {} /\ timedOut' = {} /\ missed' = {}

EventsNext ==
    \/ heightStep /\ UNCHANGED hcVars
    \/ startHeadChange \/ stepHeadChange \/ processHeadChangeEvent
    \/ \E w \in Watchers : onHeadChanged(w) \/ addMatcher(w)
    \/ panics

\* notifications that have arrived are processed: weak fairness of the three steps of
\* headChange, with what enables each written out
Fairness ==
    /\ []<>(hc.stage # "idle" \/ changes = <<>>) \/ []<><<startHeadChange>>_evars
    /\ []<>(change.stage = "idle") \/ []<><<stepHeadChange>>_evars
    /\ []<>(hc.stage \notin {"ready", "locked"}) \/ []<><<processHeadChangeEvent>>_evars

EventsSpec == EventsInit /\ [][EventsNext]_evars /\ Fairness
-----------------------------------------------------------------------------
(* Properties *)

\* all head changes are processed, none lost
AllProcessed == Settled /\ hc.stage = "idle"

\* Called and StateChanged: what a handler was called with and not reverted is on the
\* head's chain, whatever reorgs came between queueing, confidence and revert; a message
\* watcher's tipset executed a matching message.
EventsOnChain ==
    AllProcessed => \A p \in delivered :
        p[2] \in Chain[head] /\ (Kind[p[1]] = "msg" => occurs(p[1], p[2]))

\* no other watcher ends the search for one of w's messages
unshadowed(w) == \A v \in Watchers \ {w} : MatchOnce[v] => Matches[v] \cap Matches[w] = {}

\* the tipsets with something for w after its check, deep enough and not processed
\* before its matcher was added
dueFor(w) ==
    {ts \in Chain[head] \ Chain[since[w]] :
        occurs(w, ts) /\ Height[head] >= Height[ts] + Conf[w] /\ <<w, ts>> \notin missed}

\* tipset ts could have replaced no tipset with the same state
newState(ts) == \A a \in TipSets \ {ts} : Parent[a] = Parent[ts] => State[a] # State[ts]

\* A watcher that wants more is told of everything that happens on the chain after its
\* check, once it is confidence epochs deep, which must be at least one: message calls unless
\* a matchOnce of another watcher takes the message, state changes unless the tipset replaces
\* one with the same state; no handler is called again for a tipset that has not been
\* reverted; and a watcher that never saw its state change is told, once or more often, when
\* the chain has a tipset at timeout + confidence.
WatchersTold ==
    /\ again = {}
    /\ AllProcessed => \A w \in Watchers :
        trigger[w].stage = "matching" /\ More[w] /\ unshadowed(w) /\ Conf[w] > 0 =>
            \A ts \in dueFor(w) : Kind[w] = "msg" \/ newState(ts) => <<w, ts>> \in delivered
    /\ AllProcessed => \A w \in DOMAIN calls :
        /\ Kind[w] = "state" /\ calls[w] = 0
        /\ \E ts \in Chain[head] \ Chain[since[w]] : Height[ts] = Timeout[w] + Conf[w]
        => \E ts \in TipSets : <<w, ts>> \in timedOut
=============================================================================
