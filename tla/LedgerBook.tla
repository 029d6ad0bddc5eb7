----------------------------- MODULE LedgerBook -----------------------------
(***************************************************************************)
(* The refinement of AccountBook by BalanceLedger, for workloads in which  *)
(* the transactions of one user do not overlap other postings to that      *)
(* user.                                                                   *)
(***************************************************************************)
EXTENDS BalanceLedger

(* Every posting to a user is a transaction of one worker. *)
OneTransaction(u) ==
  /\ \A w, x \in Worker :
       (\E r \in Requests[w] : r.user = u) /\ (\E r \in Requests[x] : r.user = u) => w = x
  /\ \A w \in Worker : \A r \in Requests[w] : r.user = u => r.inTx

(* Every posting to a user is a single call outside of a transaction, made in
   one process, which holds balanceMu and does not crash. *)
BareStatements(u) ==
  \E o \in OSProcess \ Mortal : \A w \in Worker : \A r \in Requests[w] :
    r.user = u => ProcessOf[w] = o /\ ~r.inTx /\ Len(r.calls) = 1

Undisturbed(u) == OneTransaction(u) \/ BareStatements(u)

(* A row inserted outside a transaction counts once the balance is stored. *)
HalfPosted ==
  {r \in fiatLogCache : \E w \in Worker :
     /\ pc[w] = "update"
     /\ ~request[w].inTx
     /\ r.user = request[w].user
     /\ r.type = Current(w).type
     /\ \A q \in fiatLogCache : q.user = r.user => q.id <= r.id}

LastUnsettle(rows) ==
  IF rows = {} THEN 0
  ELSE (CHOOSE r \in rows : \A q \in rows : q.id <= r.id).unsettle

FractionOf(u, t) ==
  LastUnsettle({r \in fiatLogCache \ HalfPosted : r.user = u /\ r.type = t})

Book == INSTANCE AccountBook WITH
  account <- userBalance,
  fraction <- [u \in User |-> [t \in LogType |-> FractionOf(u, t)]],
  Orders <- {[user |-> r.user, calls |-> r.calls] : r \in UNION {Requests[w] : w \in Worker}}

(* balance.go:186-255: with no overlapping transaction on a user, the locks,
   snapshots, retries and failures below look like single postings: each takes
   effect whole, at one instant, against the balance of that instant. *)
ImplementsBook == Book!BookSpec
=============================================================================
