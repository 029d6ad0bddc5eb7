----------------------------- MODULE MCReports ------------------------------
(* Three users, so that the one in the middle is neither every fifth nor the last
   of a statement: the first pays in and buys gas, the others are paid by transfer. *)
EXTENDS Reports

MCPostings ==
  {[user |-> 1, type |-> "DEPOSIT", amount |-> 3],
   [user |-> 1, type |-> "BUY_GAS", amount |-> -1],
   [user |-> 2, type |-> "CMB_CHARGE", amount |-> 5],
   [user |-> 3, type |-> "CMB_CHARGE", amount |-> 2]}
MCFilters == {{}, {"DEPOSIT", "CMB_CHARGE"}}
MCWindows == {<<1, 3>>, <<2, 4>>}
=============================================================================
