----------------------------- MODULE MCDeposit -----------------------------
(* Payments for TLC: one at wechat, two transfers on two pages, one by hand. *)
EXTENDS Deposit

CONSTANTS w1, t1, t2, m1
=============================================================================
