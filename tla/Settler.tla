------------------------------- MODULE Settler -------------------------------
(***************************************************************************)
(* The payee's settler (paychmgr/settler): when a channel it tracks is     *)
(* settled, it submits the best voucher of each lane, and waits for the    *)
(* messages inside the handler.  Events calls the handler once (see        *)
(* Events).                                                                *)
(***************************************************************************)
EXTENDS PaychMgr

VARIABLES
    settler     \* [pc, ch, list, best, waits]; history owed: vouchers stored when the message matched

vars == <<paychVars, settler>>

Idle == [pc |-> "idle", ch |-> 0, list |-> <<>>, best |-> {}, waits |-> {}, owed |-> {}]
Init == PaychInit /\ settler = Idle

\* Settle messages of channels that are tracked and inbound
matcher(id) ==
    /\ settler.pc = "idle"
    /\ msgs[id].kind = "settle" /\ msgs[id].st = "ok"
    /\ msgs[id].ch \in DOMAIN stores["payee"] /\ stores["payee"][msgs[id].ch].dir = "in"
    /\ settler' = [settler EXCEPT !.pc = "list", !.ch = msgs[id].ch,
                                  !.owed = Range(VouchersForPaych(stores, "payee", msgs[id].ch))]
    /\ UNCHANGED paychVars

\* messageHandler: the calls of the manager may fail, and then it gives up
gaveUp == settler' = [Idle EXCEPT !.pc = "failed"]

PaychVoucherList ==
    /\ settler.pc = "list"
    /\ \/ settler' = [settler EXCEPT !.pc = "check", !.list = VouchersForPaych(stores, "payee", settler.ch)]
       \/ gaveUp
    /\ UNCHANGED paychVars

\* Mutant: the first spendable voucher of a lane is kept.
bestFirst(best, v) ==
    IF CheckVoucherSpendable("payee", settler.ch, v) /\ \A u \in best : u.lane # v.lane THEN best \cup {v} ELSE best

bestByLane(best, v) ==
    IF CheckVoucherSpendable("payee", settler.ch, v) /\ \A u \in best : u.lane = v.lane => u.amt < v.amt
    THEN {u \in best : u.lane # v.lane} \cup {v}
    ELSE best

\* each voucher on the state of the head at that time
checkVoucher ==
    /\ settler.pc = "check"
    /\ \/ /\ settler.list # <<>>
          /\ settler' = [settler EXCEPT !.list = Tail(@), !.best = bestByLane(@, settler.list[1])]
       \/ settler.list = <<>> /\ settler' = [settler EXCEPT !.pc = "submit"]
       \/ settler.list # <<>> /\ gaveUp
    /\ UNCHANGED paychVars

\* in any order of the lanes; the first that fails ends the handler, one with Extra always does
submit(sv) ==
    /\ settler.pc = "submit" /\ sv \in settler.best
    /\ \/ /\ PaychVoucherSubmit(sv)
          /\ settler' = [settler EXCEPT !.best = @ \ {sv}, !.waits = @ \cup {Len(msgs')}]
          /\ UNCHANGED <<actors, stores, lk, tasks, lanes, sent, failures, restarts>>
       \/ gaveUp /\ UNCHANGED paychVars

\* Mutant: a goroutine whose message failed is never done.
waitedOk ==
    /\ settler.pc = "submit" /\ settler.best = {}
    /\ \A id \in settler.waits : msgs[id].st = "ok"
    /\ settler' = [settler EXCEPT !.pc = "done"]
    /\ UNCHANGED paychVars

\* wg.Wait
waited ==
    /\ settler.pc = "submit" /\ settler.best = {}
    /\ \A id \in settler.waits : msgs[id].st # "pushed"
    /\ settler' = [settler EXCEPT !.pc = "done"]
    /\ UNCHANGED paychVars

SettlerStep ==
    \/ PaychVoucherList \/ checkVoucher \/ waited
    \/ \E sv \in settler.best : submit(sv)

Next ==
    \/ PaychNext /\ UNCHANGED settler
    \/ \E id \in DOMAIN msgs : matcher(id)
    \/ SettlerStep

\* when a call at the payer can go on
callReady(t) ==
    \/ tasks[t].pc \in {"nonce", "create"}
    \/ tasks[t].pc \in {"get", "lane", "add"} /\ lk = 0

\* Weak fairness of goroutines, and of the execution of messages; for the calls and the
\* messages what enables them is written out.
Fairness ==
    /\ \A t \in Tasks : []<>~ callReady(t) \/ []<><<PayerStep(t)>>_vars
    /\ []<>(\A id \in DOMAIN msgs : msgs[id].st # "pushed") \/ []<><<\E id \in DOMAIN msgs : Execute(id)>>_vars
    /\ WF_vars((waitForPaychCreateMsg \/ waitForAddFundsMsg) /\ UNCHANGED settler)
    /\ WF_vars(SettlerStep)

Spec == Init /\ [][Next]_vars /\ Fairness

-----------------------------------------------------------------------------
(* Properties *)

\* When the settler's handler has not given up, the vouchers without Extra that the payee held
\* when it saw the channel settle are redeemed: in each lane as much as the best of them,
\* although vouchers arrive, and some are submitted by hand, between the list, the checks and
\* the execution of the messages.  Nothing is said of the rest of what settler.go:50-51
\* promises: a voucher with Extra is never submitted (node/impl/paych/paych.go:229), and if
\* it is the best spendable one of its lane the handler gives up on the other lanes too.
SettledRedeemed ==
    settler.pc = "done" => \A v \in settler.owed : ~ v.extra =>
        /\ v.lane \in DOMAIN actors[settler.ch].lanes
        /\ actors[settler.ch].lanes[v.lane].redeemed >= v.amt

\* The settler's handler ends, although it waits for its messages, and so does every call at
\* the payer: the lock is released on every path.
PaymentsEnd ==
    /\ []<>(settler.pc \in {"idle", "done", "failed"})
    /\ \A t \in Tasks : <>(tasks[t].pc \in {"end", "err"})
=============================================================================
