---------------------------- MODULE AccountBook ----------------------------
(***************************************************************************)
(* What the ledger of balance.go promises its callers: a request posts all *)
(* of its calls or none, at one instant, against the current balance, and  *)
(* the fraction of a fen that a posting leaves is carried to the next      *)
(* posting of the same type.                                               *)
(***************************************************************************)
EXTENDS FiatAmount, Sequences

CONSTANTS User, LogType, InitialBalance, Arrears,
          Orders  \* the requests that may come: [user, calls]

VARIABLES
  account,   \* the balance of each user
  fraction   \* what each user still owes (or is owed) below one fen, by type

book == <<account, fraction>>

(* One call posted to a page [ok, account, fraction] of the book. *)
PostOne(page, call, arrears) ==
  LET s == CalcLeftover(call.amount + page.fraction[call.type]) IN
  [ok |-> page.ok /\ (call.check => page.account + arrears + s.amount >= 0),
   account |-> page.account + s.amount,
   fraction |-> [page.fraction EXCEPT ![call.type] = s.leftover]]

(* The page of user u after each number of the calls, posted in order. *)
Pages(u, calls) ==
  LET page[n \in 0 .. Len(calls)] ==
        IF n = 0
        THEN [ok |-> TRUE, account |-> account[u], fraction |-> fraction[u]]
        ELSE PostOne(page[n - 1], calls[n], Arrears[u])
  IN page

PageAfter(u, calls) == Pages(u, calls)[Len(calls)]

Post(order) ==
  LET u == order.user
      page == PageAfter(u, order.calls)
  IN /\ page.ok
     /\ account' = [account EXCEPT ![u] = page.account]
     /\ fraction' = [fraction EXCEPT ![u] = page.fraction]

BookInit ==
  /\ account = InitialBalance
  /\ fraction = [u \in User |-> [t \in LogType |-> 0]]

BookNext == \E order \in Orders : Post(order)

BookSpec == BookInit /\ [][BookNext]_book
=============================================================================
