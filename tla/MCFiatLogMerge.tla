--------------------------- MODULE MCFiatLogMerge ---------------------------
(* Workloads for TLC, in fen. *)
EXTENDS FiatLogMerge

CONSTANTS alice, mint, query

PaidIn == [u \in User |-> 9]
NotYet == [u \in User |-> 0]
Entry(t, c, n, a) == [user |-> alice, type |-> t, cost |-> c, count |-> n, amount |-> a]

(* A refund of two calls over payments of one call each makes parts of half a fen. *)
Everything ==
  {Entry("BUY_GAS", NoCost, 0, -4), Entry("REFUND_SPONSOR", NoCost, 0, 4),
   Entry("PAY_API_FEE", mint, 1, -1), Entry("PAY_API_FEE", query, 2, -2),
   Entry("REFUND_API_FEE", mint, 2, 1)}

(* Fees are charged to a user who has not paid in yet. *)
FeesFirst ==
  {Entry("DEPOSIT", NoCost, 0, 9), Entry("PAY_API_FEE", mint, 1, -1),
   Entry("PAY_API_FEE", query, 2, -2)}
=============================================================================
