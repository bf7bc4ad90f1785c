------------------------------ MODULE PaychMgr ------------------------------
(***************************************************************************)
(* Payment channels between two nodes: the manager of each (paychmgr) with *)
(* its store of channels and vouchers, the calls of its API                *)
(* (node/impl/paych), and the channel actors on chain, external.           *)
(*                                                                         *)
(* The store's lock is held by a goroutine that waits for a message of     *)
(* GetPaych; every other section under it is one step.  A channel is the   *)
(* number of its actor; 0 is address.Undef.                                *)
(***************************************************************************)
EXTENDS Integers, Sequences, FiniteSetsExt, Functions

CONSTANTS
    Tasks,          \* calls of PaychNewPayment and PaychVoucherCreate at the payer
    Programs,       \* what the calls may be
    Funded,         \* balances of a channel the payer has from the start
    MinDeltas,      \* what the payee asks of a voucher
    MaxFaults       \* bound: restarts of the payer, and messages of it that fail

\* a call makes at least one voucher; the lane of PaychVoucherCreate is a parameter
ASSUME ProgramsAssumption ==
    /\ Funded \subseteq Nat
    /\ Programs \subseteq [Tasks -> [pc : {"get", "create"}, ch : Nat, lane : Nat, nonce : Nat,
                                     extra : BOOLEAN, amts : Seq(Nat) \ {<<>>}]]

VARIABLES
    actors,     \* channel actors: [balance, toSend, lanes, settling]; lanes to [nonce, redeemed]
    msgs,       \* messages pushed, by number: [kind, ch, amt, sv, st]
    stores,     \* of each node, channels to [dir, vouchers, nextLane]
    lk,         \* the payer's store lock: 0, or the message that is waited for
    tasks,      \* [pc, ch, lane, nonce, extra, amts]; amts: of the vouchers still to be made
    lanes,      \* history: lanes given by AllocateLane, and whether there were vouchers in them
    sent,       \* history: vouchers made by the payer, which may reach the payee
    failures, restarts

paychVars == <<actors, msgs, stores, lk, tasks, lanes, sent, failures, restarts>>

Nodes == {"payer", "payee"}

\* map assignment
put(f, k, v) == [x \in DOMAIN f \cup {k} |-> IF x = k THEN v ELSE f[x]]

newActor(amt) == [balance |-> amt, toSend |-> 0, lanes |-> <<>>, settling |-> FALSE]
newChannel(dir, ch) ==
    [dir |-> dir, vouchers |-> <<>>, nextLane |-> Max({0} \cup {l + 1 : l \in DOMAIN actors[ch].lanes})]

PaychInit ==
    /\ \/ actors = <<>> /\ stores = [n \in Nodes |-> <<>>]
       \/ /\ \E b \in Funded : actors = <<newActor(b)>>
          /\ stores = [n \in Nodes |-> IF n = "payee" THEN <<>> ELSE put(<<>>, 1, newChannel("out", 1))]
    /\ msgs = <<>> /\ lk = 0
    /\ \E p \in Programs : tasks = [t \in Tasks |-> p[t]]
    /\ lanes = <<>> /\ sent = {}
    /\ failures = 0 /\ restarts = 0

-----------------------------------------------------------------------------
(* The channel actor *)

\* external: whether UpdateChannelState takes a voucher, and what it does
Redeemable(ch, sv) ==
    LET a == actors[ch]
        old == IF sv.lane \in DOMAIN a.lanes THEN a.lanes[sv.lane] ELSE [nonce |-> 0, redeemed |-> 0]
        toSend == a.toSend + sv.amt - old.redeemed
    IN  sv.nonce > old.nonce /\ toSend \in 0 .. a.balance
Redeem(ch, sv) ==
    LET a == actors[ch]
        old == IF sv.lane \in DOMAIN a.lanes THEN a.lanes[sv.lane].redeemed ELSE 0
    IN  [actors EXCEPT ![ch] = [a EXCEPT !.toSend = a.toSend + sv.amt - old,
                                         !.lanes = put(a.lanes, sv.lane, [nonce |-> sv.nonce, redeemed |-> sv.amt])]]

\* external: a message is executed; the payer's may fail
Execute(id) ==
    /\ msgs[id].st = "pushed"
    /\ LET m == msgs[id]
           ok == m.kind = "update" => Redeemable(m.ch, m.sv)
       IN  \/ /\ ok
              /\ msgs' = [msgs EXCEPT ![id] = [m EXCEPT !.st = "ok", !.ch = IF m.kind = "create" THEN Len(actors) + 1 ELSE @]]
              /\ actors' = CASE m.kind = "create" -> Append(actors, newActor(m.amt))
                             [] m.kind = "funds" -> [actors EXCEPT ![m.ch].balance = @ + m.amt]
                             [] m.kind = "update" -> Redeem(m.ch, m.sv)
                             [] m.kind = "settle" -> [actors EXCEPT ![m.ch].settling = TRUE]
              /\ UNCHANGED failures
           \/ /\ \/ ~ ok /\ UNCHANGED failures
                 \/ m.kind \in {"create", "funds"} /\ failures + restarts < MaxFaults /\ failures' = failures + 1
              /\ msgs' = [msgs EXCEPT ![id].st = "failed"]
              /\ UNCHANGED actors
    /\ UNCHANGED <<stores, lk, tasks, lanes, sent, restarts>>

push(kind, ch, amt, sv) == Append(msgs, [kind |-> kind, ch |-> ch, amt |-> amt, sv |-> sv, st |-> "pushed"])

-----------------------------------------------------------------------------
(* Vouchers *)

VouchersForPaych(st, n, ch) == [i \in DOMAIN st[n][ch].vouchers |-> st[n][ch].vouchers[i].voucher]

\* lanes on chain, with the stored vouchers applied
laneState(st, n, ch) ==
    LET vs == VouchersForPaych(st, n, ch)
        states[i \in 0 .. Len(vs)] ==
            IF i = 0 THEN actors[ch].lanes
            ELSE LET ls == states[i - 1]
                     v == vs[i]
                 IN  IF v.lane \in DOMAIN ls /\ v.nonce < ls[v.lane].nonce THEN ls
                     ELSE put(ls, v.lane, [nonce |-> v.nonce, redeemed |-> v.amt])
    IN  states[Len(vs)]

redeemed(ls, lane) == IF lane \in DOMAIN ls THEN ls[lane].redeemed ELSE 0

totalRedeemedWithVoucher(ls, sv) ==
    LET total == MapThenSumSet(LAMBDA l : ls[l].redeemed, DOMAIN ls)
    IN  IF sv.lane \in DOMAIN ls /\ sv.nonce <= ls[sv.lane].nonce THEN total
        ELSE total + sv.amt - redeemed(ls, sv.lane)

\* Mutant: a nonce may be used again.
validLoose(st, n, ch, sv) ==
    LET ls == laneState(st, n, ch)
    IN  /\ sv.ch = ch
        /\ sv.lane \in DOMAIN ls => sv.nonce >= ls[sv.lane].nonce /\ sv.amt > ls[sv.lane].redeemed
        /\ totalRedeemedWithVoucher(ls, sv) + actors[ch].toSend <= actors[ch].balance

checkVoucherValid(st, n, ch, sv) ==
    LET ls == laneState(st, n, ch)
    IN  /\ sv.ch = ch
        /\ sv.lane \in DOMAIN ls => sv.nonce > ls[sv.lane].nonce /\ sv.amt > ls[sv.lane].redeemed
        /\ totalRedeemedWithVoucher(ls, sv) + actors[ch].toSend <= actors[ch].balance

CheckVoucherSpendable(n, ch, sv) ==
    /\ Redeemable(ch, sv)
    /\ sv.extra => \E i \in DOMAIN stores[n][ch].vouchers : stores[n][ch].vouchers[i] = [voucher |-> sv, proof |-> TRUE]

laneAfter(ci, sv) == Max({ci.nextLane, sv.lane + 1})

\* AddVoucher on stores st: what becomes of them, and whether it returns without error
Added(st, n, ch, sv, proof, minDelta) ==
    IF ch \notin DOMAIN st[n] THEN [st |-> st, ok |-> FALSE]
    ELSE LET ci == st[n][ch]
             same == {i \in DOMAIN ci.vouchers : ci.vouchers[i].voucher = sv}
             delta == sv.amt - redeemed(laneState(st, n, ch), sv.lane)
         IN  IF same # {} THEN
                 [st |-> IF proof THEN [st EXCEPT ![n][ch] = [ci EXCEPT !.vouchers[Min(same)].proof = TRUE]] ELSE st,
                  ok |-> TRUE]
             ELSE IF ~ checkVoucherValid(st, n, ch, sv) \/ minDelta > delta THEN [st |-> st, ok |-> FALSE]
             ELSE [st |-> [st EXCEPT ![n][ch] = [ci EXCEPT !.vouchers = Append(@, [voucher |-> sv, proof |-> proof]),
                                                           !.nextLane = laneAfter(ci, sv)]],
                   ok |-> TRUE]

trackChannel(n, ch, dir) ==
    IF ch \in DOMAIN stores[n] \/ ch \notin DOMAIN actors THEN stores
    ELSE [stores EXCEPT ![n] = put(@, ch, newChannel(dir, ch))]

-----------------------------------------------------------------------------
(* The payer *)

findChan == {ch \in DOMAIN stores["payer"] : stores["payer"][ch].dir = "out"}

\* Mutant: the lock is released when the message is pushed.
lockFree(id) == 0

\* the goroutine that waits for a message unlocks
lockFor(id) == id

GetPaych(t) ==
    /\ tasks[t].pc = "get" /\ lk = 0
    /\ \E ch \in IF findChan = {} THEN {0} ELSE findChan :
        \/ /\ msgs' = push(IF ch = 0 THEN "create" ELSE "funds", ch, tasks[t].amts[Len(tasks[t].amts)], <<>>)
           /\ lk' = lockFor(Len(msgs'))
           /\ tasks' = [tasks EXCEPT ![t].pc = "lane", ![t].ch = ch]
           /\ UNCHANGED failures
        \/ /\ failures + restarts < MaxFaults /\ failures' = failures + 1
           /\ tasks' = [tasks EXCEPT ![t].pc = "err"]
           /\ UNCHANGED <<msgs, lk>>
    /\ UNCHANGED <<actors, stores, lanes, sent, restarts>>

waitForPaychCreateMsg ==
    /\ lk # 0 /\ msgs[lk].kind = "create"
    /\ \/ /\ msgs[lk].st = "ok" /\ stores' = trackChannel("payer", msgs[lk].ch, "out")
          /\ UNCHANGED failures
       \/ msgs[lk].st = "failed" /\ UNCHANGED <<stores, failures>>
       \/ failures + restarts < MaxFaults /\ failures' = failures + 1 /\ UNCHANGED stores
    /\ lk' = 0
    /\ UNCHANGED <<actors, msgs, tasks, lanes, sent, restarts>>

waitForAddFundsMsg ==
    /\ lk # 0 /\ msgs[lk].kind = "funds" /\ msgs[lk].st # "pushed"
    /\ lk' = 0
    /\ UNCHANGED <<actors, msgs, stores, tasks, lanes, sent, failures, restarts>>

\* the payer stops and starts again, by itself or because waitForAddFundsMsg goes on
\* without an answer; calls are gone, the store is not
Restart ==
    /\ failures + restarts < MaxFaults /\ restarts' = restarts + 1
    /\ lk' = 0
    /\ tasks' = [t \in Tasks |-> IF tasks[t].pc \in {"get", "create", "end"} THEN tasks[t]
                                 ELSE [tasks[t] EXCEPT !.pc = "err"]]
    /\ UNCHANGED <<actors, msgs, stores, lanes, sent, failures>>

AllocateLane(t) ==
    /\ tasks[t].pc = "lane" /\ lk = 0
    /\ LET ch == tasks[t].ch
       IN  IF ch \notin DOMAIN stores["payer"]
           THEN tasks' = [tasks EXCEPT ![t].pc = "err"] /\ UNCHANGED <<stores, lanes>>
           ELSE LET lane == stores["payer"][ch].nextLane
                IN  /\ stores' = [stores EXCEPT !["payer"][ch].nextLane = @ + 1]
                    /\ lanes' = Append(lanes, [ch |-> ch, lane |-> lane,
                                            used |-> \E v \in Range(VouchersForPaych(stores, "payer", ch)) : v.lane = lane])
                    /\ tasks' = [tasks EXCEPT ![t].pc = "nonce", ![t].lane = lane]
    /\ UNCHANGED <<actors, msgs, lk, sent, failures, restarts>>

\* paychVoucherCreate: without the lock, then AddVoucher
NextNonceForLane(t) ==
    /\ tasks[t].pc \in {"nonce", "create"}
    /\ LET ch == tasks[t].ch
           used == {v.nonce : v \in {v \in Range(VouchersForPaych(stores, "payer", ch)) : v.lane = tasks[t].lane}}
       IN  tasks' = IF ch \notin DOMAIN stores["payer"] THEN [tasks EXCEPT ![t].pc = "err"]
                    ELSE [tasks EXCEPT ![t].pc = "add", ![t].nonce = Max({0} \cup used) + 1]
    /\ UNCHANGED <<actors, msgs, stores, lk, lanes, sent, failures, restarts>>

AddVoucher(t) ==
    /\ tasks[t].pc = "add" /\ lk = 0
    /\ LET task == tasks[t]
           sv == [ch |-> task.ch, lane |-> task.lane, nonce |-> task.nonce, amt |-> Head(task.amts), extra |-> task.extra]
           res == Added(stores, "payer", task.ch, sv, FALSE, 0)
       IN  /\ stores' = res.st
           /\ sent' = IF res.ok THEN sent \cup {sv} ELSE sent
           /\ tasks' = [tasks EXCEPT ![t].pc = IF ~ res.ok THEN "err" ELSE IF Len(task.amts) = 1 THEN "end" ELSE "nonce",
                                     ![t].amts = Tail(@)]
    /\ UNCHANGED <<actors, msgs, lk, lanes, failures, restarts>>

PaychSettle(ch) ==
    /\ ch \in DOMAIN stores["payer"] /\ \A id \in DOMAIN msgs : msgs[id].kind # "settle"
    /\ msgs' = push("settle", ch, 0, <<>>)
    /\ UNCHANGED <<actors, stores, lk, tasks, lanes, sent, failures, restarts>>

-----------------------------------------------------------------------------
(* The payee *)

\* vouchers arrive in any order, more than once or not at all
PaychVoucherAdd(sv, proof, minDelta) ==
    /\ sv \in sent /\ (proof => sv.extra)
    /\ stores' = Added(trackChannel("payee", sv.ch, "in"), "payee", sv.ch, sv, proof, minDelta).st
    /\ UNCHANGED <<actors, msgs, lk, tasks, lanes, sent, failures, restarts>>

\* refused for a voucher with Extra
PaychVoucherSubmit(sv) ==
    /\ sv.ch \in DOMAIN stores["payee"] /\ ~ sv.extra
    /\ msgs' = push("update", sv.ch, 0, sv)

PayerStep(t) == GetPaych(t) \/ AllocateLane(t) \/ NextNonceForLane(t) \/ AddVoucher(t)

PaychNext ==
    \/ \E t \in Tasks : PayerStep(t)
    \/ \E id \in DOMAIN msgs : Execute(id)
    \/ waitForPaychCreateMsg \/ waitForAddFundsMsg \/ Restart
    \/ \E ch \in DOMAIN actors : PaychSettle(ch)
    \/ \E sv \in sent, proof \in BOOLEAN, d \in MinDeltas : PaychVoucherAdd(sv, proof, d)
    \/ \E sv \in sent :
        /\ \A id \in DOMAIN msgs : msgs[id].kind # "update"
        /\ sv.ch \in DOMAIN stores["payee"] /\ sv \in Range(VouchersForPaych(stores, "payee", sv.ch))
        /\ PaychVoucherSubmit(sv)
        /\ UNCHANGED <<actors, stores, lk, tasks, lanes, sent, failures, restarts>>

-----------------------------------------------------------------------------
(* Properties *)

\* Nothing is allocated twice: concurrent calls of GetPaych make one channel between the two
\* nodes, as the lock is held until the first is tracked (a restart or a wait that fails in
\* between allows another), and AllocateLane gives a lane once, and one without vouchers,
\* also when vouchers are made for lanes it never gave, and across restarts.
AllocatedOnce ==
    /\ failures = 0 /\ restarts = 0 => Len(actors) <= 1
    /\ \A i, j \in DOMAIN lanes : ~ lanes[i].used /\ (i # j => lanes[i] # lanes[j])

\* the best vouchers of each lane together
Owed(vs) ==
    MapThenSumSet(LAMBDA l : Max({v.amt : v \in {v \in Range(vs) : v.lane = l}}), {v.lane : v \in Range(vs)})

\* In the store of either node the vouchers of a lane have growing nonces and amounts,
\* although nonces are chosen without the lock, vouchers arrive in any order and some are
\* redeemed meanwhile; so no two vouchers share a nonce.  What the payee has accepted is
\* covered by the channel.
VouchersSound ==
    \A n \in Nodes : \A ch \in DOMAIN stores[n] :
        LET vs == VouchersForPaych(stores, n, ch)
        IN  /\ \A i, j \in DOMAIN vs : i < j /\ vs[i].lane = vs[j].lane => vs[i].nonce < vs[j].nonce /\ vs[i].amt < vs[j].amt
            /\ n = "payee" => Owed(vs) <= actors[ch].balance
=============================================================================
