---------------------------------- MODULE Vm ----------------------------------
(***************************************************************************)
(* Message execution (chain/vm/vm.go, runtime.go, mkactor.go) on the state *)
(* tree.  A call stack of runtimes: send resolves or creates the receiver, *)
(* charges gas, moves the value and runs actor code, which may call into   *)
(* the runtime (Send, Transaction, NewActorAddress and CreateActor,        *)
(* DeleteActor, Abortf) in any order until it returns.  Every call is made *)
(* on a snapshot.  Actor code is external: it is the choice of the next    *)
(* call.  What only reads (signatures, randomness, hashing, the supply) is *)
(* left out.  Gas: 2 for a message, -1 for DeleteActor, 1 for the rest.    *)
(***************************************************************************)
EXTENDS StateTree, FiniteSetsExt

CONSTANTS
    RewardID, BurntID, SystemID,
    Singletons,     \* actors of which there is one: they do not delete themselves
    Keys,           \* addresses that get an account when they are first sent to
    Calls(_),       \* [to, value, method]: the calls actor code makes in a message
    ActorAddr(_, _, _),     \* the address hashed from origin, its nonce and a count
    MaxDepth,       \* bound: nested calls
    MaxNew          \* bound: actors that actor code makes

VARIABLES
    tree,       \* vm.cstate
    msg,        \* the message in ApplyMessage or ApplyImplicitMessage: [from, to, value,
                \* method, nonce, limit, price, implicit], or <<>>
    holder,     \* gasHolder.Balance
    stack,      \* runtimes: [from, to, gasUsed, nac, status, before, ret]
    ret,        \* what the last message returned: [msg, code, gasUsed, penalty]
    made,       \* history: the addresses made for new actors, in order
    base        \* history: the actors when send began

vmVars == <<tree, msg, holder, stack, ret, made, base>>

Account(addr) == [code |-> "account", balance |-> 0, nonce |-> 0, head |-> addr]

Top == Last(stack)
isFatal == stack # <<>> /\ Top.status = "fatal"

-----------------------------------------------------------------------------
(* send, on s = [t, used, st]: st is "go" until an outcome is known *)

\* chargeGasInternal
charge(s, k, limit) ==
    IF s.st # "go" THEN s
    ELSE IF s.used > limit - k THEN [s EXCEPT !.used = limit, !.st = "err"]
    ELSE [s EXCEPT !.used = @ + k]

\* both an address Init does not know and an ID without an actor are ErrActorNotFound
isActor(t, addr) == resolves(t, addr) /\ GetActor(t, addr) # NoActor

\* registers the address, sets the actor and calls its constructor
TryCreateAccountActor(s, to, limit) ==
    LET c == charge(s, 1, limit)
        r == RegisterNewAddress(c.t, to)
    IN  IF c.st # "go" THEN c
        ELSE IF to \notin Keys THEN [c EXCEPT !.t = r, !.st = "err"]
        ELSE charge([c EXCEPT !.t = SetActor(r, LookupID(r, to), Account(to))], 1, limit)

receiver(s, to, limit) ==
    IF s.st # "go" THEN s
    ELSE IF isActor(s.t, to) THEN [s EXCEPT !.t = gotActor(@, to)]
    ELSE TryCreateAccountActor([s EXCEPT !.t = looked(@, to)], to, limit)

addBalance(t, addr, amt) ==
    LET change(a) == [a EXCEPT !.balance = @ + amt] IN MutateActor(t, addr, change)

\* Mutant: both actors are read before either is set, by address and not by ID.
transferSelf(s, from, to, amt) ==
    IF s.st # "go" \/ amt = 0 THEN s
    ELSE IF GetActor(s.t, from).balance < amt THEN [s EXCEPT !.st = "err"]
    ELSE LET t == GetActor(s.t, to)
         IN  [s EXCEPT !.t = SetActor(addBalance(@, from, -amt), to, [t EXCEPT !.balance = @ + amt])]

transfer(s, from, to, amt) ==
    IF s.st # "go" \/ amt = 0 \/ LookupID(s.t, from) = LookupID(s.t, to) THEN s
    ELSE IF ~ isActor(s.t, from) THEN [s EXCEPT !.st = "fatal"]
    ELSE IF GetActor(s.t, from).balance < amt THEN [s EXCEPT !.st = "err"]
    ELSE [s EXCEPT !.t = addBalance(addBalance(@, from, -amt), to, amt)]

Invoke(s, to, method) ==
    IF s.st # "go" THEN s
    ELSE [s EXCEPT !.st = IF method = 0 THEN "ok"
                          ELSE IF GetActor(s.t, to).code = "account" THEN "err" ELSE "run"]

\* the new runtime and the tree it starts from; firstCharge is that of the message itself
send(t, from, to, value, method, used, nac, limit, firstCharge) ==
    LET s0 == [t |-> t, used |-> used, st |-> "go"]
        s1 == charge(receiver(charge(s0, firstCharge, limit), to, limit), 1, limit)
        s == Invoke(transfer(s1, from, to, value), to, method)
    IN  [t |-> s.t,
         frame |-> [from |-> LookupID(s.t, from), to |-> IF resolves(s.t, to) THEN LookupID(s.t, to) ELSE NoActor,
                    gasUsed |-> s.used, nac |-> nac, status |-> s.st, before |-> view(t)]]

-----------------------------------------------------------------------------
(* ApplyMessage *)

\* OnChainMessage
MsgGas == 2

refusal(m, code) == [msg |-> m, code |-> code, gasUsed |-> 0, penalty |-> MsgGas * m.price]

\* Mutant: the nonce is not compared.
checkedLoose(m) ==
    IF m.limit < 1 THEN "malformed"
    ELSE IF m.limit < MsgGas THEN "outOfGas"
    ELSE IF ~ isActor(tree, m.from) THEN "senderInvalid"
    ELSE LET a == GetActor(tree, m.from)
         IN  IF a.code # "account" THEN "senderInvalid"
             ELSE IF a.balance < m.limit * m.price THEN "senderState"
             ELSE "go"

\* the checks before any gas is taken
checked(m) ==
    IF m.limit < 1 THEN "malformed"
    ELSE IF m.limit < MsgGas THEN "outOfGas"
    ELSE IF ~ isActor(tree, m.from) THEN "senderInvalid"
    ELSE LET a == GetActor(tree, m.from)
         IN  IF a.code # "account" THEN "senderInvalid"
             ELSE IF m.nonce # a.nonce \/ a.balance < m.limit * m.price THEN "senderState"
             ELSE "go"

\* the tree after the checks
checkedTree(m) ==
    IF m.limit < MsgGas THEN tree
    ELSE IF isActor(tree, m.from) THEN gotActor(tree, m.from) ELSE looked(tree, m.from)

\* a message that is refused: the miner pays
Refuse(m) ==
    /\ msg = <<>> /\ checked(m) \notin {"go", "malformed"}
    /\ ret' = refusal(m, checked(m))
    /\ tree' = checkedTree(m)
    /\ UNCHANGED <<msg, holder, stack, made, base>>

incrementNonce(t, addr) ==
    LET inc(a) == [a EXCEPT !.nonce = @ + 1] IN MutateActor(t, addr, inc)

\* gas for the whole limit goes to the holder, then the message is sent on a snapshot
ApplyMessage(m) ==
    /\ msg = <<>> /\ checked(m) = "go"
    /\ LET cost == m.limit * m.price
           t == incrementNonce(addBalance(checkedTree(m), m.from, -cost), m.from)
           s == send(Snapshot(t), m.from, m.to, m.value, m.method, 0, 0, m.limit, MsgGas)
       IN  tree' = s.t /\ stack' = <<s.frame>> /\ holder' = cost /\ base' = view(t)
    /\ msg' = m
    /\ UNCHANGED <<ret, made>>

\* no gas is paid for and there is no snapshot; the sender was read for its nonce
ApplyImplicitMessage(m) ==
    /\ msg = <<>>
    /\ LET s == send(gotActor(tree, m.from), m.from, m.to, m.value, m.method, 0, 0, m.limit, 0)
       IN  tree' = s.t /\ stack' = <<s.frame>> /\ base' = view(tree)
    /\ msg' = m
    /\ UNCHANGED <<holder, ret, made>>

\* the outcomes of a call: a method may return a value
Over == {"ok", "value", "err"}

\* [used, st] of a message: a value that is returned is charged for
outcome == charge([used |-> Top.gasUsed, st |-> IF Top.status = "value" THEN "go" ELSE Top.status], 1, msg.limit)

\* the state a call leaves
settled(t, st) == IF st = "err" THEN Revert(t) ELSE t

used == Max({outcome.used, 0})

gasReward == used * msg.price

\* refund and reward empty the gas holder
FinishMessage ==
    /\ msg # <<>> /\ ~ msg.implicit /\ Len(stack) = 1 /\ Top.status \in Over
    /\ LET refund == (msg.limit - used) * msg.price
       IN  /\ tree' = ClearSnapshot(addBalance(addBalance(settled(tree, outcome.st), msg.from, refund), RewardID, gasReward))
           /\ holder' = holder - refund - gasReward
           /\ ret' = [msg |-> msg, code |-> IF outcome.st = "err" THEN "err" ELSE "ok", gasUsed |-> used, penalty |-> 0]
    /\ msg' = <<>> /\ stack' = <<>>
    /\ UNCHANGED <<made, base>>

FinishImplicit ==
    /\ msg # <<>> /\ msg.implicit /\ Len(stack) = 1 /\ Top.status \in Over
    /\ ret' = [msg |-> msg, code |-> Top.status, gasUsed |-> 0, penalty |-> 0]
    /\ msg' = <<>> /\ stack' = <<>>
    /\ UNCHANGED <<tree, holder, made, base>>

-----------------------------------------------------------------------------
(* Runtime: what the code of the actor on top of the stack may do *)

running == stack # <<>> /\ Top.status = "run"

setTop(f) == stack' = [stack EXCEPT ![Len(stack)] = f]

\* internalSend
Send(to, value, method) ==
    /\ running /\ Len(stack) < MaxDepth
    /\ LET s == send(Snapshot(tree), Top.to, to, value, method, Top.gasUsed, Top.nac, msg.limit, 0)
       IN  tree' = s.t /\ stack' = Append(stack, s.frame)
    /\ UNCHANGED <<msg, holder, ret, made, base>>

\* the caller goes on with the gas that was used and the actors that were counted
returned(f) == [f EXCEPT !.gasUsed = Top.gasUsed, !.nac = Top.nac]

\* internalSend returns; the state is kept only if the call succeeded
SendReturns ==
    /\ Len(stack) > 1 /\ Top.status \in Over
    /\ tree' = ClearSnapshot(settled(tree, Top.status))
    /\ stack' = [Front(stack) EXCEPT ![Len(stack) - 1] = returned(@)]
    /\ UNCHANGED <<msg, holder, ret, made, base>>

\* a fatal error goes through every caller, which revert; the snapshots are merged
FatalReturns ==
    /\ Len(stack) > 1 /\ isFatal
    /\ tree' = ClearSnapshot(Revert(tree))
    /\ stack' = [Front(stack) EXCEPT ![Len(stack) - 1] = [returned(@) EXCEPT !.status = "fatal"]]
    /\ UNCHANGED <<msg, holder, ret, made, base>>

\* a call into the runtime that charges gas; it panics, leaving tOut, when gas runs out
priced(k, tOut, t) ==
    LET c == charge([t |-> tree, used |-> Top.gasUsed, st |-> "go"], k, msg.limit)
    IN  IF c.st = "go" THEN [tree |-> t, frame |-> [Top EXCEPT !.gasUsed = c.used]]
        ELSE [tree |-> tOut, frame |-> [Top EXCEPT !.gasUsed = c.used, !.status = "err"]]

\* the state of the actor changes; that of cron and of the reward is not told apart
Transaction ==
    /\ running /\ ~ msg.implicit /\ actorAt(tree, Top.to) # NoActor /\ Top.to # InitID
    /\ LET flip(a) == [a EXCEPT !.head = 1 - @]
           p == priced(1, tree, MutateActor(tree, Top.to, flip))
       IN  tree' = p.tree /\ setTop(p.frame)
    /\ UNCHANGED <<msg, holder, ret, made, base>>

\* the address of a new actor: of the first sender, its nonce and a count
newAddress(n) == ActorAddr(msg.from, msg.nonce, n)

\* Exec of the Init actor: NewActorAddress, its ID, and CreateActor, which aborts if there is
\* an actor.  Neither cron nor the reward creates actors.
Exec ==
    /\ running /\ ~ msg.implicit /\ Top.to = InitID /\ Len(made) < MaxNew
    /\ LET addr == newAddress(Top.nac)
           r == RegisterNewAddress(tree, addr)
           id == LookupID(r, addr)
           new == [code |-> "actor", balance |-> 0, nonce |-> 0, head |-> 0]
           p == IF actorAt(r, id) # NoActor THEN [tree |-> loaded(r, id), frame |-> [Top EXCEPT !.status = "err"]]
                ELSE priced(1, r, SetActor(r, id, new))
       IN  /\ tree' = p.tree
           /\ setTop([p.frame EXCEPT !.nac = @ + 1])
           /\ made' = Append(made, addr)
    /\ UNCHANGED <<msg, holder, ret, base>>

\* the actor's funds are burnt and it is deleted, the last thing its code does
DeleteSelf ==
    /\ running /\ Top.to \notin Singletons
    /\ LET s == [t |-> tree, used |-> 0, st |-> "go"]
           paid == transfer(s, Top.to, BurntID, actorAt(tree, Top.to).balance)
       IN  IF actorAt(tree, Top.to) = NoActor
           THEN tree' = tree /\ setTop([Top EXCEPT !.gasUsed = @ - 1, !.status = "err"])
           ELSE /\ tree' = DeleteActor(paid.t, Top.to)
                /\ setTop([Top EXCEPT !.gasUsed = @ - 1, !.status = "ok"])
    /\ UNCHANGED <<msg, holder, ret, made, base>>

\* the method returns or aborts
Return(st) ==
    /\ running
    /\ setTop([Top EXCEPT !.status = st])
    /\ UNCHANGED <<tree, msg, holder, ret, made, base>>

RuntimeStep ==
    \/ running /\ \E c \in Calls(msg) : Send(c.to, c.value, c.method)
    \/ SendReturns \/ FatalReturns
    \/ Transaction \/ Exec \/ DeleteSelf
    \/ \E st \in Over : Return(st)
=============================================================================
