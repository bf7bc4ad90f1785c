------------------------------ MODULE MCSettler ------------------------------
(***************************************************************************)
(* Instances of Settler for TLC: two calls at the payer, with no channel   *)
(* or with one that holds 3 or 4.                                          *)
(***************************************************************************)
EXTENDS Settler

NewPayment(amts, extra) == [pc |-> "get", ch |-> 0, lane |-> 0, nonce |-> 0, extra |-> extra, amts |-> amts]
VoucherCreate(amt, lane) == [pc |-> "create", ch |-> 1, lane |-> lane, nonce |-> 0, extra |-> FALSE, amts |-> <<amt>>]

MCPrograms == {
    <<NewPayment(<<1>>, FALSE), NewPayment(<<2>>, FALSE)>>,
    <<NewPayment(<<1>>, TRUE), VoucherCreate(1, 1)>>,
    <<NewPayment(<<1, 2>>, FALSE), VoucherCreate(2, 0)>>,
    <<VoucherCreate(3, 0), VoucherCreate(2, 1)>>}
=============================================================================
