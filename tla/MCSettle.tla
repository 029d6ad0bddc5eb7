------------------------------ MODULE MCSettle ------------------------------
(* Prices, quotas and plans for TLC.  Ten units are one fen. *)
EXTENDS Settle

CONSTANTS alice, mint, query

MCPrice == [k \in Key |-> IF k[2] = mint THEN 15 ELSE 8]
(* GetApiPrice of a USER_PAY_TYPE_POST user: only mints cost. *)
PostPaid == [k \in Key |-> IF k[2] = mint THEN 10 ELSE 0]
MCArrears == [u \in User |-> 0]
MCInitialBalance == [u \in User |-> 20]

(* One quota of each kind for queries, none for mints. *)
MCInitialQuota ==
  [k \in Key |-> IF k[2] = query THEN [reset |-> 1, rollover |-> 1]
                                 ELSE [reset |-> 0, rollover |-> 0]]

(* A plan that gives more queries than the one before, and one that gives less. *)
Raise == [t \in {query} |-> 2]
Lower == [t \in {query} |-> 0]
NoQuotas == {}
BothPlans == {Raise, Lower}
=============================================================================
