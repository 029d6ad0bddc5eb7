------------------------------ MODULE Cashier ------------------------------
(***************************************************************************)
(* What depositing promises, whoever polls, marks and retries: a payment   *)
(* that has been made is posted to the balance once, and nothing posted is *)
(* taken back.  An excused payment may be posted again.                    *)
(***************************************************************************)
CONSTANT Payment

VARIABLES paid,    \* payments that have been made
          posted,  \* postings to the balance, by payment
          excused  \* payments on which something went wrong unnoticed

Pay(p) ==
  /\ p \notin paid
  /\ paid' = paid \cup {p}
  /\ UNCHANGED posted

Post(p) ==
  /\ p \in paid
  /\ posted[p] = {} \/ p \in excused'
  /\ \E x \in posted'[p] \ posted[p] : posted' = [posted EXCEPT ![p] = @ \cup {x}]
  /\ UNCHANGED paid

CashierInit ==
  /\ paid \subseteq Payment
  /\ posted = [p \in Payment |-> {}]
  /\ excused = {}

CashierNext ==
  /\ excused \subseteq excused'
  /\ \/ \E p \in Payment : Pay(p) \/ Post(p)
     \/ UNCHANGED <<paid, posted>>

CashierSpec == CashierInit /\ [][CashierNext]_<<paid, posted, excused>>
=============================================================================
