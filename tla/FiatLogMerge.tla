---------------------------- MODULE FiatLogMerge ----------------------------
(***************************************************************************)
(* models/fiat_log_cache.go and fiat_log.go: how the rows of               *)
(* fiat_log_caches become fiat logs with running balances.  A row that is  *)
(* no API row is copied by the transaction that posts it; API rows are     *)
(* merged once a day, and a refund of API fees is split over the payments  *)
(* it pays back.                                                           *)
(*                                                                         *)
(* A transaction is three steps: its reads (one InnoDB view), its inserts  *)
(* (which draw the ids), and the UPDATE of user_balances, which waits for  *)
(* the row, with the commit.  Postings do not overlap one another here:    *)
(* what becomes of those that do is the subject of BalanceLedger.          *)
(***************************************************************************)
EXTENDS Integers, FiniteSets, Sequences, FiniteSetsExt, Functions

CONSTANTS
  User, CostType,
  NoCost,     \* of a row without a cost type in its metadata
  Deposited,  \* what each user has paid in before, in one deposit (0: nothing)
  Postings,   \* what may be posted: [user, type, cost, count, amount]
  Page,       \* LIMIT of one transaction of the merge (1000 in the code)
  MaxRows,    \* bound on the CacheRow, rows of fiat_log_caches
  MaxDay,     \* bound on the days
  MaxFaults   \* bound on crashes, failed merges and runs of the tool

(* The types merged by mergeApiFiatlogs, in its order; refunds of fees follow. *)
MergeOrder == <<"PAY_API_QUOTA", "REFUND_API_QUOTA", "RESET_API_QUOTA", "PAY_API_FEE">>
ApiRelated == {MergeOrder[i] : i \in DOMAIN MergeOrder} \cup {"REFUND_API_FEE"}
Copied == {"DEPOSIT", "WITHDRAW", "CMB_CHARGE", "BUY_GAS", "BUY_STORAGE",
           "REFUND_SPONSOR", "DEPOSITE_DATABUNDLE", "BUY_BILLPLAN", "BUY_DATABUNDLE"}
FiatLogType == ApiRelated \cup Copied
Posting == [user : User, type : FiatLogType, cost : CostType \cup {NoCost},
            count : Nat, amount : Int]

ASSUME MergeAssumption ==
  /\ IsFiniteSet(User) /\ NoCost \notin CostType
  /\ Deposited \in [User -> Nat]
  /\ Postings \subseteq Posting
  /\ \A p \in Postings : p.type \in ApiRelated <=> p.cost \in CostType /\ p.count > 0
  /\ Page \in Nat \ {0}
  /\ MaxRows \in Nat /\ MaxDay \in Nat /\ MaxFaults \in Nat
-----------------------------------------------------------------------------
VARIABLES
  caches,            \* rows of fiat_log_caches
  logs,              \* FiatLog, rows of fiat_logs
  lastLogId,         \* AUTO_INCREMENT of fiat_logs
  balance,           \* user_balances.balance
  balanceOnFiatlog,  \* user_balances.balance_on_fiatlog
  day,               \* today
  post,              \* the posting of a copied row
  merge,             \* MergeToFiatlog
  faults,
  astray             \* history: what has led a user's running balance astray

tables == <<caches, logs, lastLogId, balance, balanceOnFiatlog>>
vars == <<tables, day, post, merge, faults, astray>>

(* refunded and refunds are RefundedCount (of a sponsor purchase, RefundedAmount)
   and RefundLogIds; ids is CacheIds; at is the day of created_at. *)
CacheRow == [id : Nat, user : User, type : FiatLogType, cost : CostType \cup {NoCost},
             count : Nat, amount : Int, merged : BOOLEAN, at : Nat]
FiatLog == [id : Nat, user : User, type : FiatLogType, cost : CostType \cup {NoCost},
            count : Nat, amount : Int, balance : Int, ids : SUBSET Nat,
            refunded : Int, refunds : SUBSET Nat, at : Nat]

(* What a transaction has read and is going to write: fresh logs (log still
   without an id, and the id of the log it refunds), the refunded logs as they
   will be saved, the cache rows it marks as merged.  seen and early are for the
   history: the last logs read, and users whose first log comes too early.  A
   posting has an amount to do, a merge the day before which it ends. *)
NoTx == [pc |-> "idle", users |-> {}, seen |-> {}, fresh |-> << >>, first |-> 0,
         pays |-> {}, rows |-> {}, early |-> {}, todo |-> 0, end |-> 0]

(* A deposit of each user who has paid in, copied to the logs. *)
FirstRow(u, id) == [id |-> id, user |-> u, type |-> "DEPOSIT", cost |-> NoCost, count |-> 0,
                    amount |-> Deposited[u], merged |-> TRUE, at |-> 1]
FirstLog(u, id) == [id |-> id, user |-> u, type |-> "DEPOSIT", cost |-> NoCost, count |-> 0,
                    amount |-> Deposited[u], balance |-> Deposited[u], ids |-> {id},
                    refunded |-> 0, refunds |-> {}, at |-> 1]
Payers == {u \in User : Deposited[u] > 0}

Init ==
  /\ \E id \in [Payers -> 1 .. Cardinality(Payers)] :
       /\ IsInjective(id)
       /\ caches = {FirstRow(u, id[u]) : u \in Payers}
       /\ logs = {FirstLog(u, id[u]) : u \in Payers}
  /\ lastLogId = Cardinality(Payers)
  /\ balance = Deposited
  /\ balanceOnFiatlog = Deposited
  /\ day = 1
  /\ post = NoTx /\ merge = NoTx
  /\ faults = 0
  /\ astray = [u \in User |-> {}]
-----------------------------------------------------------------------------
IdsOf(rows) == {r.id : r \in rows}
AmountIn(rows) == SumFunctionOnSet([r \in rows |-> r.amount], rows)
CountIn(rows) == SumFunctionOnSet([r \in rows |-> r.count], rows)
LogsOf(u) == {l \in logs : l.user = u}
(* order by created_at desc, id desc *)
LastOf(u) ==
  {l \in LogsOf(u) : \A m \in LogsOf(u) : m.at < l.at \/ (m.at = l.at /\ m.id <= l.id)}

(* GetLastBlanceByFiatlog: without a log, the balance itself. *)
LastBalance(u) ==
  IF LogsOf(u) = {} THEN balance[u] ELSE (CHOOSE l \in LastOf(u) : TRUE).balance

(* The UPDATE of InitUserBalances: without a log, NULL, which is read as 0. *)
LogBalance(u) == IF LogsOf(u) = {} THEN 0 ELSE LastBalance(u)

(* Faulty variant: a part of a refund has the whole amount. *)
Whole(a, n) == a

(* a / n fen, as decimal(20,2) stores it: half a fen away from zero. *)
Rounded(a, n) ==
  IF a >= 0 THEN (2 * a + n) \div (2 * n) ELSE -((2 * (-a) + n) \div (2 * n))

Fresh(row, amount, count, bal, ids, pays) ==
  [log |-> [id |-> 0, user |-> row.user, type |-> row.type, cost |-> row.cost,
            count |-> count, amount |-> amount, balance |-> bal, ids |-> ids,
            refunded |-> 0, refunds |-> {}, at |-> 0],
   refundOf |-> pays]

(* A metadata of a reset has count, and is read as count_reset and count_rollover. *)
MetaCount(row) == IF row.type = "RESET_API_QUOTA" THEN 0 ELSE row.count
Unmerged(u) == {r \in caches : r.user = u /\ ~r.merged}
UsersEarly(us) == {u \in us : LogsOf(u) = {} /\ AmountIn(Unmerged(u)) # 0}
-----------------------------------------------------------------------------
NewCache(p, merged) ==
  [id |-> Cardinality(caches) + 1, user |-> p.user, type |-> p.type, cost |-> p.cost,
   count |-> p.count, amount |-> p.amount, merged |-> merged, at |-> day]

(* PayAPIFee, PayQuota, RefundApiFee, ...: the row waits for the merge. *)
PostApi(p) ==
  /\ p.type \in ApiRelated
  /\ post.pc = "idle"
  /\ Cardinality(caches) < MaxRows
  /\ p.type = "REFUND_API_FEE" =>
       \E r \in Unmerged(p.user) \cup logs :
         r.user = p.user /\ r.type = "PAY_API_FEE" /\ r.cost = p.cost
  /\ caches' = caches \cup {NewCache(p, FALSE)}
  /\ balance' = [balance EXCEPT ![p.user] = @ + p.amount]
  /\ UNCHANGED <<logs, lastLogId, balanceOnFiatlog, day, post, merge, faults, astray>>

(* RefundSponsor finds the purchase by its transaction; each is refunded once. *)
Refundable(p) ==
  {l \in LogsOf(p.user) : l.type \in {"BUY_GAS", "BUY_STORAGE"} /\ l.refunds = {}
                          /\ l.amount = -p.amount}

(* AfterCreate marks the row and copyToFiatLog builds its log; of a refund,
   RelateBuySponsorFiatlog saves the purchase with it. *)
PostBegin(p) ==
  /\ p.type \in Copied
  /\ post.pc = "idle"
  /\ Cardinality(caches) < MaxRows
  /\ \E pays \in IF p.type = "REFUND_SPONSOR" THEN {{l} : l \in Refundable(p)} ELSE {{}} :
       post' = [NoTx EXCEPT
         !.pc = "read", !.users = {p.user}, !.seen = IdsOf(LastOf(p.user)),
         !.rows = {NewCache(p, TRUE)}, !.early = UsersEarly({p.user}),
         !.fresh = <<Fresh(p, p.amount, p.count, LastBalance(p.user) + p.amount,
                           {Cardinality(caches) + 1}, IdsOf(pays))>>,
         !.pays = {[l EXCEPT !.refunded = p.amount] : l \in pays},
         !.todo = p.amount]
  /\ UNCHANGED <<tables, day, merge, faults, astray>>

(* The INSERT of a transaction's logs: they get their ids before the row of
   user_balances is theirs. *)
DrawIds(tx) == [tx EXCEPT !.pc = "inserted", !.first = lastLogId]
PostInsert ==
  /\ post.pc = "read"
  /\ post' = DrawIds(post)
  /\ lastLogId' = lastLogId + Len(post.fresh)
  /\ UNCHANGED <<caches, logs, balance, balanceOnFiatlog, day, merge, faults, astray>>

(* The logs as inserted, and the refunded ones with the new RefundLogIds. *)
Inserted(tx) ==
  {[tx.fresh[i].log EXCEPT !.id = tx.first + i, !.at = day] : i \in DOMAIN tx.fresh}
Saved(tx) ==
  {[l EXCEPT !.refunds = @ \cup
      {tx.first + i : i \in {j \in DOMAIN tx.fresh : l.id \in tx.fresh[j].refundOf}}]
     : l \in tx.pays}

(* Creating a log calls its AfterCreate, which stores its balance: of the logs of
   one user in a transaction the last one stays.  The merge of refunds then saves
   the slice of payments it has read, which creates them again for gorm, the
   newest first: the oldest one of the group that comes last stays.  A purchase
   is saved as a row that has an id, and is updated. *)
OnFiatlogOf(tx, u) ==
  LET mine == {i \in DOMAIN tx.fresh : tx.fresh[i].log.user = u}
      last == tx.fresh[Max(mine)].log
      again == {l \in tx.pays : last.type = "REFUND_API_FEE" /\ l.user = u /\ l.cost = last.cost}
      oldest == CHOOSE l \in again : \A m \in again : l.id <= m.id
  IN IF mine = {} THEN balanceOnFiatlog[u]
     ELSE IF again = {} THEN last.balance ELSE oldest.balance

OnFiatlogAfter(tx) == [u \in User |-> OnFiatlogOf(tx, u)]

WriteLogs(tx) ==
  /\ logs' = {l \in logs : l.id \notin IdsOf(tx.pays)} \cup Inserted(tx) \cup Saved(tx)
  /\ caches' = {r \in caches : r.id \notin IdsOf(tx.rows)}
                 \cup {[r EXCEPT !.merged = TRUE] : r \in tx.rows}
  /\ balanceOnFiatlog' = OnFiatlogAfter(tx)
  /\ astray' = [u \in User |->
       astray[u] \cup (IF u \in tx.users /\ IdsOf(LastOf(u)) \ tx.seen # {} THEN {"raced"} ELSE {})
                 \cup (IF u \in tx.early THEN {"early"} ELSE {})]

(* A posting in a transaction commits with its balance; RefundSponsor has none,
   and stores the balance by a statement of its own. *)
PostCommit ==
  /\ post.pc = "inserted"
  /\ WriteLogs(post)
  /\ \E u \in post.users :
       IF post.fresh[1].log.type = "REFUND_SPONSOR"
       THEN post' = [post EXCEPT !.pc = "logged"] /\ UNCHANGED balance
       ELSE /\ post' = NoTx
            /\ balance' = [balance EXCEPT ![u] = @ + post.todo]
  /\ UNCHANGED <<lastLogId, day, merge, faults>>

PostBalance ==
  /\ post.pc = "logged"
  /\ balance' = [u \in User |-> balance[u] + IF u \in post.users THEN post.todo ELSE 0]
  /\ post' = NoTx
  /\ UNCHANGED <<caches, logs, lastLogId, balanceOnFiatlog, day, merge, faults, astray>>
-----------------------------------------------------------------------------
(* Faulty variant: rows that are merged already, too. *)
DueMerged(type, end) == {r \in caches : r.type = type /\ r.at < end}

(* The rows of a type that the merge of the days before end may take. *)
Due(type, end) == {r \in caches : r.type = type /\ ~r.merged /\ r.at < end}

(* Each type is merged until no row of it is left, which nobody adds for a past
   day; then comes the next. *)
TypesDue == {i \in DOMAIN MergeOrder : Due(MergeOrder[i], merge.end) # {}}
TypeDue == MergeOrder[Min(TypesDue)]

(* LoopMergeFiatlog, at the start, each night, and again after an error: all
   days from the first to yesterday. *)
MergeStart ==
  /\ merge.pc = "idle"
  /\ \E t \in ApiRelated : Due(t, day) # {}
  /\ merge' = [NoTx EXCEPT !.pc = "next", !.end = day]
  /\ UNCHANGED <<tables, day, post, faults, astray>>

Orderings(S) == {s \in [1 .. Cardinality(S) -> S] : \A i, j \in DOMAIN s : i # j => s[i] # s[j]}

(* One log of the rows of a cost type. *)
LogOfGroup(rows, bal) ==
  Fresh(CHOOSE r \in rows : TRUE, AmountIn(rows),
        SumFunctionOnSet([r \in rows |-> MetaCount(r)], rows), bal, IdsOf(rows), {})

(* Faulty variant: every log starts from the last balance stored. *)
LogsOfGroupsFromLast(u, rows, order) ==
  [i \in DOMAIN order |->
     LET mine == {r \in rows : r.cost = order[i]}
     IN LogOfGroup(mine, LastBalance(u) + AmountIn(mine))]

(* groupFlcByUserAndCosttype and convertGroupedFlcToFiatlogs: one log for each
   cost type, in the order of a Go map. *)
LogsOfGroups(u, rows, order) ==
  [i \in DOMAIN order |->
     LET upTo == {r \in rows : \E j \in 1 .. i : r.cost = order[j]}
     IN LogOfGroup({r \in rows : r.cost = order[i]}, LastBalance(u) + AmountIn(upTo))]

(* One transaction of mergeApiFiatlogs: some rows of one user and type. *)
MergeRead(u) ==
  /\ merge.pc = "next"
  /\ TypesDue # {}
  /\ LET due == {r \in Due(TypeDue, merge.end) : r.user = u} IN
     \E rows \in kSubset(IF Cardinality(due) < Page THEN Cardinality(due) ELSE Page, due) :
       /\ rows # {}
       /\ \E order \in Orderings({r.cost : r \in rows}) :
            merge' = [merge EXCEPT
              !.pc = "read", !.users = {u}, !.seen = IdsOf(LastOf(u)), !.rows = rows,
              !.early = UsersEarly({u}), !.fresh = LogsOfGroups(u, rows, order)]
  /\ UNCHANGED <<tables, day, post, faults, astray>>

(* getPayApiFeeFlsForMapRefund: the payments of a refund, newest first, if all of
   them together can bear it. *)
PaysOf(u, c) == {l \in LogsOf(u) : l.type = "PAY_API_FEE" /\ l.cost = c}
Alive(l) == l.count - l.refunded
AliveIn(pays) == SumFunctionOnSet([l \in pays |-> Alive(l)], pays)

(* Faulty variant: a refund of all that is left has to wait. *)
BearsMore(pays, n) == AliveIn(pays) > n
Bears(pays, n) == AliveIn(pays) >= n

(* Faulty variant: the newest payment bears whatever is left to refund. *)
PartUncapped(l, pays, n) ==
  LET left == n - AliveIn({p \in pays : p.id > l.id}) IN IF left <= 0 THEN 0 ELSE left

Part(l, pays, n) ==
  LET left == n - AliveIn({p \in pays : p.id > l.id})
  IN IF left <= 0 THEN 0 ELSE IF left < Alive(l) THEN left ELSE Alive(l)

(* The refunds that are due, of the user and cost type of a payment or refund. *)
RefundsDue == Due("REFUND_API_FEE", merge.end)
RefundsLike(x) == {r \in RefundsDue : r.user = x.user /\ r.cost = x.cost}
Borne(x) == Bears(PaysOf(x.user, x.cost), CountIn(RefundsLike(x)))
Share(l) == Part(l, PaysOf(l.user, l.cost), CountIn(RefundsLike(l)))

(* The payments that bear refunds, those of a user and cost type together and the
   newest first; the groups come in the order of Go maps. *)
GroupedNewestFirst(order) ==
  \A i, j \in DOMAIN order : i < j /\ PaysOf(order[i].user, order[i].cost)
                                     = PaysOf(order[j].user, order[j].cost) =>
    /\ order[i].id > order[j].id
    /\ \A k \in i .. j : order[k].user = order[i].user /\ order[k].cost = order[i].cost

(* One log for each payment: its part of the amount, and of the balance. *)
LogsOfRefunds(order) ==
  [i \in DOMAIN order |->
     LET l == order[i]
         rows == RefundsLike(l)
         n == CountIn(rows)
         amount == AmountIn(rows)
         before == {r \in RefundsDue : r.user = l.user /\ r.cost # l.cost /\
                      \E j \in 1 .. i : order[j].user = r.user /\ order[j].cost = r.cost}
         upTo == {p \in PaysOf(l.user, l.cost) : p.id >= l.id}
         last == LastBalance(l.user) + AmountIn(before)
     IN Fresh(CHOOSE r \in rows : TRUE, Rounded(amount * Share(l), n), Share(l),
              Rounded(last * n + amount * SumFunctionOnSet([p \in upTo |-> Share(p)], upTo), n),
              IdsOf(rows), {l.id})]

(* mergeRefundApiFeeFiatlogs: one transaction for all users; without payments enough,
   the refunds of a user and cost type are left for another day. *)
RefundsRead ==
  /\ merge.pc = "next"
  /\ TypesDue = {}
  /\ LET rows == {r \in RefundsDue : Borne(r)}
         users == {r.user : r \in rows}
         pays == UNION {PaysOf(r.user, r.cost) : r \in rows}
     IN \E order \in Orderings({l \in pays : Share(l) > 0}) :
          /\ GroupedNewestFirst(order)
          /\ merge' = IF rows = {} THEN NoTx
                      ELSE [merge EXCEPT
                        !.pc = "read", !.users = users, !.rows = rows,
                        !.seen = UNION {IdsOf(LastOf(u)) : u \in users},
                        !.early = UsersEarly(users),
                        !.pays = {[l EXCEPT !.refunded = @ + Share(l)] : l \in pays},
                        !.fresh = LogsOfRefunds(order)]
  /\ UNCHANGED <<tables, day, post, faults, astray>>

MergeInsert ==
  /\ merge.pc = "read"
  /\ merge' = DrawIds(merge)
  /\ lastLogId' = lastLogId + Len(merge.fresh)
  /\ UNCHANGED <<caches, logs, balance, balanceOnFiatlog, day, post, faults, astray>>

MergeCommit ==
  /\ merge.pc = "inserted"
  /\ WriteLogs(merge)
  /\ merge' = IF TypesDue = {} THEN NoTx
              ELSE [NoTx EXCEPT !.pc = "next", !.end = merge.end]
  /\ UNCHANGED <<lastLogId, balance, day, post, faults>>
-----------------------------------------------------------------------------
NextDay ==
  /\ day < MaxDay
  /\ day' = day + 1
  /\ UNCHANGED <<tables, post, merge, faults, astray>>

Fault == faults < MaxFaults /\ faults' = faults + 1

(* A statement of the merge fails: its transaction is rolled back, and the types
   that are done stay done. *)
MergeFails ==
  /\ Fault
  /\ merge.pc # "idle"
  /\ merge' = NoTx
  /\ UNCHANGED <<tables, day, post, astray>>

(* The server dies; at the next start InitUserBalances takes balance_on_fiatlog
   from the last log. *)
Crash ==
  /\ Fault
  /\ post' = NoTx /\ merge' = NoTx
  /\ balanceOnFiatlog' = [u \in User |-> LogBalance(u)]
  /\ astray' = [u \in User |->
       astray[u] \cup IF post.pc = "logged" /\ u \in post.users THEN {"half"} ELSE {}]
  /\ UNCHANGED <<caches, logs, lastLogId, balance, day>>

(* cli/update_fiat_log_created dates the refunds back to their cache rows. *)
UpdateCreated ==
  LET last(l) == CHOOSE r \in caches : r.id = Max(l.ids)
      dated(l) == IF l.type \in {"REFUND_API_FEE", "REFUND_SPONSOR"}
                  THEN [l EXCEPT !.at = last(l).at] ELSE l
  IN
  /\ Fault
  /\ logs' = {dated(l) : l \in logs}
  /\ logs' # logs
  /\ astray' = [u \in User |-> IF IdsOf(LastOf(u)') # IdsOf(LastOf(u)) THEN astray[u] \cup {"dated"}
                                                        ELSE astray[u]]
  /\ UNCHANGED <<caches, lastLogId, balance, balanceOnFiatlog, day, post, merge>>

MergeSteps ==
  \/ MergeStart \/ RefundsRead \/ MergeInsert \/ MergeCommit
  \/ \E u \in User : MergeRead(u)
PostSteps == PostInsert \/ PostCommit \/ PostBalance

Next ==
  \/ \E p \in Postings : PostApi(p) \/ PostBegin(p)
  \/ PostSteps \/ MergeSteps
  \/ NextDay \/ MergeFails \/ Crash \/ UpdateCreated

Spec == Init /\ [][Next]_vars

(* The nightly run comes again and again, and goroutines are scheduled. *)
FairSpec == Spec /\ WF_vars(MergeSteps) /\ WF_vars(PostSteps)
-----------------------------------------------------------------------------
OfRow(r) == {l \in logs : r.id \in l.ids}

(* fiat_log_cache.go:39-61, 299-382: through crashes, failures in the middle of a
   merge and merges begun anew, a row is marked as merged exactly if it is in the
   logs, in one log of its user, type and cost type; a refund may be split, and
   then its parts make up the counts of its rows. *)
MergedOnce ==
  \A r \in caches :
    LET of == OfRow(r) IN
    /\ r.merged <=> of # {}
    /\ \A l \in of : l.user = r.user /\ l.type = r.type /\ l.cost = r.cost
    /\ r.type # "REFUND_API_FEE" => Cardinality(of) <= 1
    /\ r.merged /\ r.type = "REFUND_API_FEE" =>
         /\ Cardinality({l.ids : l \in of}) = 1
         /\ CountIn(of) = CountIn({q \in caches : \E l \in of : q.id \in l.ids})

(* fiat_log_meta.go:65 "每一条refund_api_fee_log都最多对应一条
   pay_api_fee_fiat_log": what a payment shows as refunded is what its refunds
   say, never more than was paid, and no refund counts for two payments. *)
RefundsMatched ==
  /\ \A l \in logs : l.type = "PAY_API_FEE" =>
       /\ l.refunded = CountIn({m \in logs : m.id \in l.refunds})
       /\ l.refunded <= l.count
  /\ \A m \in logs : m.type = "REFUND_API_FEE" =>
       Cardinality({l \in logs : m.id \in l.refunds /\ l.user = m.user /\ l.cost = m.cost}) = 1

(* fiat_log_cache.go:208: the logs of a user and type hold the amounts of the rows
   merged into them; each part of a split refund is off by at most half a fen. *)
AmountsKept ==
  \A u \in User, t \in FiatLogType :
    LET mine == {l \in LogsOf(u) : l.type = t}
        off == AmountIn(mine) - AmountIn({r \in caches : r.user = u /\ r.type = t /\ r.merged})
        parts == Cardinality({l \in mine : \E m \in mine : m # l /\ m.ids = l.ids})
    IN -parts <= 2 * off /\ 2 * off <= parts

(* The balance by the logs and the rows still to be merged give the balance. *)
RunningBalanceRight(u) ==
  LET stored == post.pc = "logged" /\ u \in post.users
  IN LogBalance(u) + AmountIn(Unmerged(u)) = balance[u] + (IF stored THEN post.todo ELSE 0)

ColumnRight(u) ==
  balanceOnFiatlog[u] = LogBalance(u) \/ \E l \in LastOf(u) : l.type = "REFUND_API_FEE"

(* fiat_log_cache.go:65, 185, 208 and user_balance.go:16 "与Fiatlog同步的余额": the
   balance of a user's last log and the rows still to be merged give his balance,
   rounding of split refunds included, and balance_on_fiatlog is the balance of the
   last log; but not for a user for whom a copy and a merge have read the same last
   log, the first log came while API rows were waiting, the tool has dated logs back
   or RefundSponsor was cut in half.  When refunds of API fees are the last logs, the
   column may have the balance of a payment they refund (:245). *)
LogSynced == \A u \in User : astray[u] = {} => RunningBalanceRight(u) /\ ColumnRight(u)

(* Rows of past days; refunds as far as the payments of their days can bear them. *)
Waiting(u, c, t) == {r \in Due(t, day) : r.user = u /\ r.cost = c}
Bearable(u, c) ==
  LET of(t) == {r \in caches : r.user = u /\ r.cost = c /\ r.type = t /\ r.at < day}
  IN CountIn(of("REFUND_API_FEE")) <= CountIn(of("PAY_API_FEE"))

(* fiatlog.go:13 "每天合并当天的fiat_log_cache": whatever failed, every API row of a
   past day is merged at last; a refund, once the payments of its user and type
   cover all refunds. *)
EverythingMerged ==
  []<>(\A u \in User, c \in CostType, t \in ApiRelated :
         t # "REFUND_API_FEE" \/ Bearable(u, c) => Waiting(u, c, t) = {})
=============================================================================
