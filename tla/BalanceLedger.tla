--------------------------- MODULE BalanceLedger ---------------------------
(***************************************************************************)
(* server/services/balance.go over MySQL.  Every change of a user's        *)
(* balance goes through updateUserBalanceWithTx: it carries the unsettled  *)
(* remainder of the last FiatLogCache row of the same type, splits the     *)
(* amount, checks the balance, inserts a FiatLogCache row and overwrites   *)
(* the balance.                                                            *)
(*                                                                         *)
(* Workers are the goroutines that serve gRPC calls, the settle loop, and  *)
(* the CLI tools; balanceMu is a mutex of one operating-system process.    *)
(* The database is InnoDB at REPEATABLE READ: the first consistent read    *)
(* of a transaction opens its snapshot, an UPDATE locks the row until the  *)
(* end of the transaction and works on its latest version, and waiting     *)
(* for a row lock ends in an error after innodb_lock_wait_timeout.         *)
(***************************************************************************)
EXTENDS FiatAmount, Naturals, FiniteSets, Sequences, Functions

CONSTANTS
  User,            \* users that have a user_balances row
  Worker,          \* goroutines and CLI tools that post to the ledger
  OSProcess,       \* operating-system processes they run in
  ProcessOf,       \* the process of each worker
  NoWorker,        \* nobody holds the lock
  LogType,         \* FiatLogType values
  Requests,        \* what each worker may be asked to do
  InitialBalance,  \* user_balances.balance at the start
  Arrears,         \* user_balances.arrears_quota, never changed by this code
  MaxRequests,     \* bound on the requests served
  MaxCrashes,      \* bound on the process crashes
  Mortal           \* bound: the processes that crash

(* One call of updateUserBalanceWithTx: check is its checkBalance argument. *)
Call == [type : LogType, amount : Int, check : BOOLEAN]

(***************************************************************************)
(* A request posts its calls in order.  In a transaction (inTx) they       *)
(* commit together; outside of one (tx is models.GetDB()) every statement  *)
(* commits by itself.  readsFirst: the transaction has read a table, and   *)
(* so opened its snapshot, before the first call.                          *)
(***************************************************************************)
Request == [user : User, inTx : BOOLEAN, readsFirst : BOOLEAN, calls : Seq(Call)]

ASSUME LedgerAssumption ==
  /\ User # {}
  /\ ProcessOf \in [Worker -> OSProcess]
  /\ NoWorker \notin Worker
  /\ Requests \in [Worker -> SUBSET Request]
  /\ \A w \in Worker : \A r \in Requests[w] :
        /\ r.calls # << >>
        /\ r.readsFirst => r.inTx
  /\ InitialBalance \in [User -> Int]
  /\ Arrears \in [User -> Int]
  /\ MaxRequests \in Nat
  /\ MaxCrashes \in Nat /\ Mortal \subseteq OSProcess

Transactional(u, calls) ==
  [user |-> u, inTx |-> TRUE, readsFirst |-> FALSE, calls |-> calls]

Posting(t, amount, check) == [type |-> t, amount |-> amount, check |-> check]

DepositBalance(u, amount) ==
  Transactional(u, <<Posting("DEPOSIT", amount, TRUE)>>)

(* Only in cli/finalize_deposit, whose transaction first reads the order. *)
DepositBalanceWithoutCheckBalance(u, amount) ==
  [user |-> u, inTx |-> TRUE, readsFirst |-> TRUE,
   calls |-> <<Posting("DEPOSIT", amount, FALSE)>>]

WithdrawBalance(u, amount) ==
  Transactional(u, <<Posting("WITHDRAW", -amount, TRUE)>>)

BuyGas(u, amount) == Transactional(u, <<Posting("BUY_GAS", -amount, TRUE)>>)

BuyStorage(u, amount) ==
  Transactional(u, <<Posting("BUY_STORAGE", -amount, TRUE)>>)

(* depositRollover reads user_api_quota before the first posting. *)
BuyDataBundle(u, price) ==
  [user |-> u, inTx |-> TRUE, readsFirst |-> TRUE,
   calls |-> <<Posting("DEPOSITE_DATABUNDLE", 0, FALSE),
               Posting("BUY_DATABUNDLE", -price, TRUE)>>]

RefundSponsor(u, amount) ==
  [user |-> u, inTx |-> FALSE, readsFirst |-> FALSE,
   calls |-> <<Posting("REFUND_SPONSOR", amount, TRUE)>>]

(* The transaction of one key of settle(): PayQuota, then PayAPIFee. *)
SettleKey(u, paysQuota, fee) ==
  Transactional(u,
    (IF paysQuota THEN <<Posting("PAY_API_QUOTA", 0, FALSE)>> ELSE << >>) \o
    (IF fee > 0 THEN <<Posting("PAY_API_FEE", -fee, FALSE)>> ELSE << >>))

(* One item of the stack RefundApiCost pops, of either kind. *)
RefundApiFee(u, fee) ==
  [user |-> u, inTx |-> FALSE, readsFirst |-> FALSE,
   calls |-> <<Posting("REFUND_API_FEE", fee, FALSE)>>]

RefundQuota(u) ==
  [user |-> u, inTx |-> FALSE, readsFirst |-> FALSE,
   calls |-> <<Posting("REFUND_API_QUOTA", 0, FALSE)>>]

(* UserQuotaOperator.Reset posts one call per quota row it has saved. *)
ResetQuota(u) ==
  [user |-> u, inTx |-> FALSE, readsFirst |-> FALSE,
   calls |-> <<Posting("RESET_API_QUOTA", 0, FALSE)>>]
-----------------------------------------------------------------------------
VARIABLES
  userBalance,   \* committed user_balances.balance of each user
  fiatLogCache,  \* committed rows of fiat_log_caches
  lastId,        \* AUTO_INCREMENT counter of fiat_log_caches
  rowLock,       \* who holds the lock of each user_balances row
  balanceMu,     \* who holds the mutex of each process
  pc,            \* where each worker is
  request,       \* the request each worker serves
  posted,        \* how many of its calls are done
  snapshot,      \* consistent read view of each worker's transaction
  written,       \* uncommitted writes of each worker's transaction
  split,         \* amount and leftover of the call, once computed
  newBalance,    \* the balance the call is about to store
  failed,        \* the request has met an error
  served,        \* requests started so far
  crashes        \* crashes so far

database == <<userBalance, fiatLogCache, lastId, rowLock>>
local == <<request, posted, split, newBalance, failed>>
bounds == <<served, crashes>>
vars == <<database, balanceMu, pc, local, snapshot, written, bounds>>

(* A row of fiat_log_caches; raw is the amount that was asked for. *)
Row == [id : Nat, user : User, type : LogType, raw : Int, amount : Int,
        unsettle : Int, balance : Int]

Closed == [open |-> FALSE, balance |-> 0, rows |-> {}]
Clean == [dirty |-> FALSE, balance |-> 0, rows |-> {}]
NoSplit == [amount |-> 0, leftover |-> 0]
NoRequest ==
  [user |-> CHOOSE u \in User : TRUE, inTx |-> FALSE, readsFirst |-> FALSE,
   calls |-> << >>]
Step == {"idle", "lock", "find", "read", "create", "update", "unlock", "finish"}

RowsOf(rows, u) == {r \in rows : r.user = u}
CurrentView(u) ==
  [open |-> TRUE, balance |-> userBalance[u], rows |-> RowsOf(fiatLogCache, u)]

(* What a worker's reads see of its user: its snapshot and its own writes. *)
ViewOf(w) ==
  IF request[w].inTx /\ snapshot[w].open THEN snapshot[w]
                                         ELSE CurrentView(request[w].user)
RowsSeen(w) == ViewOf(w).rows \cup written[w].rows
BalanceSeen(w) ==
  IF written[w].dirty THEN written[w].balance ELSE ViewOf(w).balance
(* The first consistent read of a transaction fixes its view. *)
OpenView(w) ==
  snapshot' = [snapshot EXCEPT ![w] = IF request[w].inTx THEN ViewOf(w) ELSE Closed]

Current(w) == request[w].calls[posted[w] + 1]
Idle(w) == pc[w] = "idle"
Goto(w, from, to) == pc[w] = from /\ pc' = [pc EXCEPT ![w] = to]

Init ==
  /\ userBalance = InitialBalance
  /\ fiatLogCache = {}
  /\ lastId = 0
  /\ rowLock = [u \in User |-> NoWorker]
  /\ balanceMu = [o \in OSProcess |-> NoWorker]
  /\ pc = [w \in Worker |-> "idle"]
  /\ request = [w \in Worker |-> NoRequest]
  /\ posted = [w \in Worker |-> 0]
  /\ snapshot = [w \in Worker |-> Closed]
  /\ written = [w \in Worker |-> Clean]
  /\ split = [w \in Worker |-> NoSplit]
  /\ newBalance = [w \in Worker |-> 0]
  /\ failed = [w \in Worker |-> FALSE]
  /\ served = 0
  /\ crashes = 0
-----------------------------------------------------------------------------
(* A gRPC handler, the settle loop or a tool begins a request. *)
Start(w) ==
  /\ served < MaxRequests
  /\ Goto(w, "idle", "lock")
  /\ \E r \in Requests[w] :
       /\ request' = [request EXCEPT ![w] = r]
       /\ snapshot' = [snapshot EXCEPT ![w] =
                         IF r.readsFirst THEN CurrentView(r.user) ELSE Closed]
  /\ served' = served + 1
  /\ UNCHANGED <<database, balanceMu, posted, split, newBalance, failed, written,
                 crashes>>

(* Faulty variant: the mutex does not exclude. *)
LockNothing(w) ==
  /\ Goto(w, "lock", "find")
  /\ UNCHANGED <<database, balanceMu, local, snapshot, written, bounds>>

LockBalanceMu(w) ==
  /\ Goto(w, "lock", "find")
  /\ balanceMu[ProcessOf[w]] = NoWorker
  /\ balanceMu' = [balanceMu EXCEPT ![ProcessOf[w]] = w]
  /\ UNCHANGED <<database, local, snapshot, written, bounds>>

(* The rows of the call's type among which the last one is sought. *)
SameType(w) == {r \in RowsSeen(w) : r.type = Current(w).type}

(* Faulty variant: the remainder of the last row is dropped. *)
FindNoLeftover(w) ==
  /\ Goto(w, "find", "read")
  /\ OpenView(w)
  /\ split' = [split EXCEPT ![w] = CalcLeftover(Current(w).amount)]
  /\ UNCHANGED <<database, balanceMu, request, posted, newBalance, failed, written,
                 bounds>>

(* The last row of this type is found, its remainder joins the amount. *)
FindLastFiatLogCache(w) ==
  /\ Goto(w, "find", "read")
  /\ OpenView(w)
  /\ \/ /\ SameType(w) = {}
        /\ split' = [split EXCEPT ![w] = CalcLeftover(Current(w).amount)]
     \/ \E last \in SameType(w) :
        /\ \A r \in SameType(w) : r.id <= last.id
        /\ split' = [split EXCEPT ![w] =
                       CalcLeftover(Current(w).amount + last.unsettle)]
  /\ UNCHANGED <<database, balanceMu, request, posted, newBalance, failed, written,
                 bounds>>

(* Faulty variant: the amount is left out of the comparison. *)
InsufficientBeforeAmount(w) ==
  /\ Current(w).check
  /\ BalanceSeen(w) + Arrears[request[w].user] < 0

Insufficient(w) ==
  /\ Current(w).check
  /\ BalanceSeen(w) + Arrears[request[w].user] + split[w].amount < 0

(* GetUserBalance, and the balance check. *)
GetUserBalance(w) ==
  /\ pc[w] = "read"
  /\ IF WholeFen(split[w].amount) /\ ~Insufficient(w)
     THEN /\ Goto(w, "read", "create")
          /\ newBalance' = [newBalance EXCEPT ![w] = BalanceSeen(w) + split[w].amount]
          /\ UNCHANGED failed
     ELSE /\ Goto(w, "read", "unlock")
          /\ failed' = [failed EXCEPT ![w] = TRUE]
          /\ UNCHANGED newBalance
  /\ UNCHANGED <<database, balanceMu, request, posted, split, snapshot, written,
                 bounds>>

(* Faulty variant: user and type are swapped. *)
NewRowSwapped(w) ==
  [id |-> lastId + 1, user |-> Current(w).type, type |-> request[w].user,
   raw |-> Current(w).amount, amount |-> split[w].amount,
   unsettle |-> split[w].leftover, balance |-> newBalance[w]]

NewRow(w) ==
  [id |-> lastId + 1, user |-> request[w].user, type |-> Current(w).type,
   raw |-> Current(w).amount, amount |-> split[w].amount,
   unsettle |-> split[w].leftover, balance |-> newBalance[w]]

(* Faulty variant: the row is inserted with models.GetDB(), not with tx. *)
CreateOutsideTx(w) ==
  /\ Goto(w, "create", "update")
  /\ lastId' = lastId + 1
  /\ fiatLogCache' = fiatLogCache \cup {NewRow(w)}
  /\ UNCHANGED <<userBalance, rowLock, balanceMu, local, snapshot, written, bounds>>

CreateFiatLogCache(w) ==
  /\ Goto(w, "create", "update")
  /\ lastId' = lastId + 1
  /\ IF request[w].inTx
     THEN /\ written' = [written EXCEPT ![w].rows = @ \cup {NewRow(w)}]
          /\ UNCHANGED fiatLogCache
     ELSE /\ fiatLogCache' = fiatLogCache \cup {NewRow(w)}
          /\ UNCHANGED written
  /\ UNCHANGED <<userBalance, rowLock, balanceMu, local, snapshot, bounds>>

(* Faulty variant: SET balance = balance + amount. *)
UpdateByAmount(w) ==
  LET u == request[w].user
      stored == userBalance[u] + split[w].amount
  IN
  /\ Goto(w, "update", "unlock")
  /\ rowLock[u] \in {NoWorker, w}
  /\ IF request[w].inTx
     THEN /\ rowLock' = [rowLock EXCEPT ![u] = w]
          /\ written' = [written EXCEPT ![w].dirty = TRUE, ![w].balance = stored]
          /\ UNCHANGED userBalance
     ELSE /\ userBalance' = [userBalance EXCEPT ![u] = stored]
          /\ UNCHANGED <<rowLock, written>>
  /\ UNCHANGED <<fiatLogCache, lastId, balanceMu, local, snapshot, bounds>>

(* UPDATE user_balances SET balance = ?: waits for the row's lock. *)
UpdateUserBalance(w) ==
  LET u == request[w].user IN
  /\ Goto(w, "update", "unlock")
  /\ rowLock[u] \in {NoWorker, w}
  /\ IF request[w].inTx
     THEN /\ rowLock' = [rowLock EXCEPT ![u] = w]
          /\ written' = [written EXCEPT ![w].dirty = TRUE,
                                        ![w].balance = newBalance[w]]
          /\ UNCHANGED userBalance
     ELSE /\ userBalance' = [userBalance EXCEPT ![u] = newBalance[w]]
          /\ UNCHANGED <<rowLock, written>>
  /\ UNCHANGED <<fiatLogCache, lastId, balanceMu, local, snapshot, bounds>>

(* Faulty variant: lock waits never time out. *)
WaitForEver(w) == FALSE /\ UNCHANGED vars

(* innodb_lock_wait_timeout: the UPDATE returns an error. *)
LockWaitTimeout(w) ==
  /\ Goto(w, "update", "unlock")
  /\ rowLock[request[w].user] \notin {NoWorker, w}
  /\ failed' = [failed EXCEPT ![w] = TRUE]
  /\ UNCHANGED <<database, balanceMu, request, posted, split, newBalance, snapshot,
                 written, bounds>>

(* The deferred unlockBalanceMu, before the transaction ends. *)
UnlockBalanceMu(w) ==
  LET last == failed[w] \/ posted[w] + 1 = Len(request[w].calls) IN
  /\ Goto(w, "unlock", IF last THEN "finish" ELSE "lock")
  /\ balanceMu' = [balanceMu EXCEPT ![ProcessOf[w]] = NoWorker]
  /\ posted' = [posted EXCEPT ![w] = IF last THEN @ ELSE @ + 1]
  /\ split' = [split EXCEPT ![w] = NoSplit]
  /\ newBalance' = [newBalance EXCEPT ![w] = 0]
  /\ UNCHANGED <<database, request, failed, snapshot, written, bounds>>

(* Workers ws are done: their transactions end and their row locks go. *)
EndRequests(ws) ==
  /\ rowLock' = [u \in User |-> IF rowLock[u] \in ws THEN NoWorker ELSE rowLock[u]]
  /\ pc' = [w \in Worker |-> IF w \in ws THEN "idle" ELSE pc[w]]
  /\ request' = [w \in Worker |-> IF w \in ws THEN NoRequest ELSE request[w]]
  /\ posted' = [w \in Worker |-> IF w \in ws THEN 0 ELSE posted[w]]
  /\ split' = [w \in Worker |-> IF w \in ws THEN NoSplit ELSE split[w]]
  /\ newBalance' = [w \in Worker |-> IF w \in ws THEN 0 ELSE newBalance[w]]
  /\ failed' = [w \in Worker |-> IF w \in ws THEN FALSE ELSE failed[w]]
  /\ snapshot' = [w \in Worker |-> IF w \in ws THEN Closed ELSE snapshot[w]]
  /\ written' = [w \in Worker |-> IF w \in ws THEN Clean ELSE written[w]]
  /\ UNCHANGED lastId

(* The function passed to gorm's Transaction returned nil. *)
Commit(w) ==
  /\ pc[w] = "finish"
  /\ ~failed[w]
  /\ fiatLogCache' = fiatLogCache \cup written[w].rows
  /\ userBalance' = IF written[w].dirty
                    THEN [userBalance EXCEPT ![request[w].user] = written[w].balance]
                    ELSE userBalance
  /\ EndRequests({w})
  /\ UNCHANGED <<balanceMu, bounds>>

(* It returned an error; what was committed outside a transaction stays. *)
Rollback(w) ==
  /\ pc[w] = "finish"
  /\ failed[w]
  /\ EndRequests({w})
  /\ UNCHANGED <<userBalance, fiatLogCache, balanceMu, bounds>>

(* A process dies: its mutex goes with it, the server rolls back its
   transactions when the connections break, and it is started again. *)
Crash(o) ==
  /\ o \in Mortal /\ crashes < MaxCrashes
  /\ crashes' = crashes + 1
  /\ \E w \in Worker : ProcessOf[w] = o /\ ~Idle(w)
  /\ EndRequests({w \in Worker : ProcessOf[w] = o})
  /\ balanceMu' = [balanceMu EXCEPT ![o] = NoWorker]
  /\ UNCHANGED <<userBalance, fiatLogCache, served>>

(* The steps of a request once it has begun. *)
Proceed(w) ==
  \/ LockBalanceMu(w)
  \/ FindLastFiatLogCache(w)
  \/ GetUserBalance(w)
  \/ CreateFiatLogCache(w)
  \/ UpdateUserBalance(w)
  \/ LockWaitTimeout(w)
  \/ UnlockBalanceMu(w)
  \/ Commit(w)
  \/ Rollback(w)

(* Nobody works and no more requests come: the model may stop. *)
Quiescent ==
  /\ served = MaxRequests
  /\ \A w \in Worker : Idle(w)
  /\ UNCHANGED vars

Next ==
  \/ \E w \in Worker : Start(w) \/ Proceed(w)
  \/ \E o \in OSProcess : Crash(o)
  \/ Quiescent

Spec == Init /\ [][Next]_vars

(* Goroutines are scheduled, and MySQL ends every lock wait. *)
FairSpec == Spec /\ \A w \in Worker : WF_vars(Proceed(w))
-----------------------------------------------------------------------------
(* Every variable keeps its type. *)
TypeOK ==
  /\ userBalance \in [User -> Int]
  /\ fiatLogCache \subseteq Row
  /\ lastId \in Nat
  /\ rowLock \in [User -> Worker \cup {NoWorker}]
  /\ balanceMu \in [OSProcess -> Worker \cup {NoWorker}]
  /\ pc \in [Worker -> Step]
  /\ request \in [Worker -> Request]
  /\ posted \in [Worker -> Nat]
  /\ snapshot \in [Worker -> [open : BOOLEAN, balance : Int, rows : SUBSET Row]]
  /\ written \in [Worker -> [dirty : BOOLEAN, balance : Int, rows : SUBSET Row]]
  /\ split \in [Worker -> [amount : Int, leftover : Int]]
  /\ newBalance \in [Worker -> Int]
  /\ failed \in [Worker -> BOOLEAN]
  /\ served \in 0 .. MaxRequests
  /\ crashes \in 0 .. MaxCrashes

(* balance.go:202 "小于1分的零头只记录，等凑齐1分以上才结算": every row posts whole
   fen and carries less than one fen, whatever was asked for and whoever else
   was posting. *)
LeftoverBounded ==
  \A r \in fiatLogCache :
    /\ WholeFen(r.amount)
    /\ -Fen < r.unsettle /\ r.unsettle < Fen

(* What was asked for, and what was posted, by a set of rows. *)
SumAsked(rows) == SumFunctionOnSet([r \in rows |-> r.raw], rows)
SumPosted(rows) == SumFunctionOnSet([r \in rows |-> r.amount], rows)

Posters(u, t) ==
  {w \in Worker : \E r \in Requests[w] :
     r.user = u /\ \E i \in DOMAIN r.calls : r.calls[i].type = t}

OfType(rows, u, t) == {r \in rows : r.user = u /\ r.type = t}

(* What was asked for is what was posted, and the remainder of the last row. *)
Carried(rows) ==
  \A last \in rows : (\A r \in rows : r.id <= last.id) =>
    SumAsked(rows) = SumPosted(rows) + last.unsettle

(* Nothing of a fraction is lost or charged twice: for a type that one worker
   posts (the settle loop is the only payer of API fees), the whole fen posted
   and the last remainder add up to the exact amounts asked for, through
   failures, lock timeouts, crashes and the races of other types. *)
FractionsConserved ==
  \A u \in User, t \in LogType :
    (\E w \in Worker : Posters(u, t) = {w}) => Carried(OfType(fiatLogCache, u, t))

(* The stored balance is always one that some posting computed and logged: no
   race, crash or rollback makes a balance that the log does not show. *)
BalanceFromLog ==
  \A u \in User :
    \/ userBalance[u] = InitialBalance[u]
    \/ \E r \in RowsOf(fiatLogCache, u) : r.balance = userBalance[u]

OnlyChecked(u) ==
  \A w \in Worker : \A r \in Requests[w] :
    r.user = u => \A i \in DOMAIN r.calls : r.calls[i].check

(* A user whose postings are all checked never falls below the arrears quota,
   even when a stale balance is written back. *)
NoOverdraft ==
  \A u \in User :
    OnlyChecked(u) /\ InitialBalance[u] + Arrears[u] >= 0
      => userBalance[u] + Arrears[u] >= 0

Resting(u) == \A w \in Worker : Idle(w) \/ request[w].user # u

(* user_balance.go:15 "实时余额": when nobody works for a user, the balance is
   the initial one plus everything logged. *)
LedgerBalanced ==
  \A u \in User :
    Resting(u) =>
      userBalance[u] =
        InitialBalance[u] + SumPosted(RowsOf(fiatLogCache, u))

(* Every request ends, although a transaction that waits for balanceMu may hold
   the row lock for which the holder of balanceMu waits. *)
RequestsEnd == \A w \in Worker : ~Idle(w) ~> Idle(w)
=============================================================================
