-------------------------- MODULE MCStatementwise --------------------------
(* The workload in which the postings to one user do not overlap, which is
   what BalancesAddUp and LedgerImplementsBook assume. *)
EXTENDS MCBalanceLedger

ASSUME StatementwiseIsUndisturbed == \A u \in User : Undisturbed(u)
=============================================================================
