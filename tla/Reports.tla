------------------------------- MODULE Reports -------------------------------
(***************************************************************************)
(* models/fiat_log.go: what the readers of fiat_logs are told.  A          *)
(* statement of balance changes, a search for purchases that came to       *)
(* nothing and a listing by pages are several queries each, in no          *)
(* transaction, while rows are added: with the time at which their         *)
(* transaction began to write, seen when it commits, or by hand, for a     *)
(* time long past.                                                         *)
(*                                                                         *)
(* Here each row has the running balance of its user; FiatLogMerge is      *)
(* about when that holds.  Joins that only add columns, the limit on the   *)
(* users of a statement and filters other than by type are left out.       *)
(***************************************************************************)
EXTENDS Integers, FiniteSets, Functions, FiniteSetsExt

CONSTANTS
  Owner,     \* ids of users
  Askers,    \* those of them who list rows
  Postings,  \* what may be logged: [user, type, amount]
  Filters,   \* the types a statement may be restricted to ({}: all)
  Windows,   \* the windows asked for, as pairs of StartedAt and EndedAt
  Page,      \* rows of a page of a listing
  MaxTime, MaxRows  \* bounds

(* The columns of FiatlogChangesItem. *)
Columns == {"DEPOSIT", "WITHDRAW", "BUY_GAS", "BUY_STORAGE", "PAY_API_FEE", "BUY_BILLPLAN",
            "BUY_DATABUNDLE", "CMB_CHARGE", "REFUND_API_FEE", "REFUND_SPONSOR"}
Bought == {"BUY_GAS", "BUY_STORAGE"}
Listing == {"list", "details", "own"}

ASSUME ReportsAssumption ==
  /\ Owner \subseteq Nat /\ Askers \subseteq Owner
  /\ Postings \subseteq [user : Owner, type : Columns \ {"REFUND_SPONSOR"}, amount : Int \ {0}]
  /\ Windows \subseteq {w \in Nat \X Nat : w[1] < w[2]}
  /\ Page \in Nat \ {0}
  /\ MaxTime \in Nat \ {0} /\ MaxRows \in Nat

VARIABLES
  logs,       \* rows of fiat_logs that have been committed
  open,       \* rows written by transactions that have not committed
  sponsored,  \* purchases with a row in sponsor_logs, which another program keeps
  now,
  q           \* the query under way, or the last one

reportVars == <<logs, open, sponsored, now, q>>

NoQuery == [kind |-> "none", pc |-> "done"]

InitReports ==
  /\ logs = {} /\ open = {} /\ sponsored = {}
  /\ now = 1
  /\ q = NoQuery
-----------------------------------------------------------------------------
LogsOf(u) == {l \in logs : l.user = u}
AmountIn(ls) == SumFunctionOnSet([l \in ls |-> l.amount], ls)
Until(u, t) == {l \in LogsOf(u) : l.at <= t}
NextId == Cardinality(logs \cup open) + 1

(* A row in the history of its user: later ones are behind it already. *)
Row(u, type, amount, of, t) ==
  [id |-> NextId, user |-> u, type |-> type, amount |-> amount, of |-> of, at |-> t,
   balance |-> AmountIn(Until(u, t)) + amount]

(* For the history: users who got a row after their statement had begun. *)
Late(u, t) ==
  IF q.kind = "changes" /\ t <= q.e
  THEN q' = [q EXCEPT !.late = @ \cup {u}] ELSE UNCHANGED q

Busy(u) == \E l \in open : l.user = u

Insert(p) ==
  /\ ~Busy(p.user) /\ NextId <= MaxRows
  /\ open' = open \cup {Row(p.user, p.type, p.amount, 0, now)}
  /\ UNCHANGED <<logs, sponsored, now, q>>

(* The row of a refund and RefundLogIds of the purchase are of one transaction. *)
RefundLog(b) == {l \in logs : l.of = b.id}
RefundSponsor(b) ==
  /\ b.type \in Bought /\ RefundLog(b) = {} /\ ~Busy(b.user) /\ NextId <= MaxRows
  /\ open' = open \cup {Row(b.user, "REFUND_SPONSOR", -b.amount, b.id, now)}
  /\ UNCHANGED <<logs, sponsored, now, q>>

Commit(l) ==
  /\ logs' = logs \cup {l} /\ open' = open \ {l}
  /\ Late(l.user, l.at)
  /\ UNCHANGED <<sponsored, now>>

(* A record added by hand has a large id and a small created_at; the balances after
   it are corrected with it. *)
AddByHand(p, t) ==
  /\ ~Busy(p.user) /\ NextId <= MaxRows /\ t < now
  /\ logs' = {[l EXCEPT !.balance = @ + IF l.user = p.user /\ l.at > t THEN p.amount ELSE 0]
                : l \in logs} \cup {Row(p.user, p.type, p.amount, 0, t)}
  /\ Late(p.user, t)
  /\ UNCHANGED <<open, sponsored, now>>

Sponsor(b) ==
  /\ b.type \in Bought /\ sponsored' = sponsored \cup {b.id}
  /\ UNCHANGED <<logs, open, now, q>>

Tick == now < MaxTime /\ now' = now + 1 /\ UNCHANGED <<logs, open, sponsored, q>>
-----------------------------------------------------------------------------
Matching(types) == {l \in logs : types = {} \/ l.type \in types}

Within(l, s, e) == s <= l.at /\ l.at < e

(* FiatlogOfBalanceChanges begins with getHasChangesUserIds. *)
Statement(s, e, types) ==
  /\ q.pc = "done"
  /\ q' = [kind |-> "changes", pc |-> "summary", s |-> s, e |-> e, types |-> types,
           users |-> {l.user : l \in {m \in Matching(types) : m.at < e}},
           sum |-> [u \in Owner |-> 0], max |-> [u \in Owner |-> 0], todo |-> {},
           start |-> [u \in Owner |-> 0], end |-> [u \in Owner |-> 0], lost |-> {}, late |-> {}]
  /\ UNCHANGED <<logs, open, sponsored, now>>

(* FiatLogsMonthSummary, each sum in its column. *)
MonthSummary ==
  /\ q.pc = "summary"
  /\ q' = [q EXCEPT !.pc = "start",
       !.sum = [u \in Owner |-> AmountIn({l \in Matching(q.types) :
                  l.user = u /\ u \in q.users /\ l.type \in Columns /\ Within(l, q.s, q.e)})]]
  /\ UNCHANGED <<logs, open, sponsored, now>>

(* GetUserBalanceAtDate: the times of the last rows, then a query for each. *)
LastTimes(pc, next, date) ==
  /\ q.pc = pc
  /\ q' = [q EXCEPT !.pc = next,
       !.max = [u \in Owner |-> Max({0} \cup {l.at : l \in Until(u, date)})],
       !.todo = {u \in q.users : Until(u, date) # {}}]
  /\ UNCHANGED <<logs, open, sponsored, now>>

(* Faulty variant: the row with the largest id of all before the date. *)
LastByIdOnly(u, t) == CHOOSE l \in Until(u, t) : \A m \in Until(u, t) : m.id <= l.id
LastAt(u, t) ==
  LET same == {l \in LogsOf(u) : l.at = t}
  IN CHOOSE l \in same : \A m \in same : m.id <= l.id

(* Each read is a goroutine with the err of its user's iteration, in the order of the
   ids: after the first user, each fifth after him and the last one it waits for
   all that run, and looks at the err of this user alone. *)
Batch == 5
Position(users, u) == Cardinality({v \in users : v < u})
Checked(users, u) == Position(users, u) % Batch = 0 \/ \A v \in users : v <= u
Launched(u) == \A w \in q.users : w < u /\ Checked(q.users, w) => \A v \in q.todo : w < v

ReadStart(u) ==
  /\ q.pc = "starts" /\ u \in q.todo /\ Launched(u)
  /\ q' = [q EXCEPT !.start[u] = LastAt(u, q.max[u]).balance, !.todo = @ \ {u}]
  /\ UNCHANGED <<logs, open, sponsored, now>>

ReadEnd(u) ==
  /\ q.pc = "ends" /\ u \in q.todo /\ Launched(u)
  /\ q' = [q EXCEPT !.end[u] = LastAt(u, q.max[u]).balance, !.todo = @ \ {u}]
  /\ UNCHANGED <<logs, open, sponsored, now>>

(* A read that fails and is not checked leaves 0 as the balance. *)
ReadFails(u) ==
  /\ q.pc \in {"starts", "ends"} /\ u \in q.todo /\ Launched(u)
  /\ q' = IF Checked(q.users, u) THEN NoQuery
          ELSE [q EXCEPT !.todo = @ \ {u}, !.lost = @ \cup {u}]
  /\ UNCHANGED <<logs, open, sponsored, now>>

AllRead(pc, next) ==
  /\ q.pc = pc /\ q.todo = {}
  /\ q' = [q EXCEPT !.pc = next]
  /\ UNCHANGED <<logs, open, sponsored, now>>

Changes ==
  \/ \E w \in Windows, types \in Filters : Statement(w[1], w[2], types)
  \/ q.kind = "changes" /\
       \/ MonthSummary
       \/ LastTimes("start", "starts", q.s) \/ AllRead("starts", "end")
       \/ LastTimes("end", "ends", q.e) \/ AllRead("ends", "done")
       \/ \E u \in Owner : ReadStart(u) \/ ReadEnd(u) \/ ReadFails(u)
-----------------------------------------------------------------------------
Purchases(s, e) == {l \in logs : l.type \in Bought /\ Within(l, s, e)}
Ids(ls) == {l.id : l \in ls}
Stray(b) == b.id \notin sponsored /\ RefundLog(b) = {}

(* Faulty variant: an empty RefundLogIds is taken for a refund. *)
RefundedOrEmpty(s, e) == Purchases(s, e)
FindSponsorFiatlogsRefunded(s, e) == {b \in Purchases(s, e) : RefundLog(b) # {}}

(* FindFiatlogsWithoutSponsorlog: first the purchases that were refunded, *)
Search(s, e) ==
  /\ q.pc = "done"
  /\ q' = [kind |-> "strays", pc |-> "candidates", s |-> s, e |-> e,
           refunded |-> Ids(FindSponsorFiatlogsRefunded(s, e)), found |-> {},
           before |-> {b \in Purchases(s, e) : Stray(b)}]
  /\ UNCHANGED <<logs, open, sponsored, now>>

(* then the purchases without a sponsor log and not among those: an empty list is
   (NULL), and NOT IN (NULL) is true of nothing; *)
NotIn(id, ids) == ids # {} /\ id \notin ids
Candidates ==
  /\ q.pc = "candidates"
  /\ q' = [q EXCEPT !.pc = "match",
       !.found = {b.id : b \in {p \in Purchases(q.s, q.e) :
                    p.id \notin sponsored /\ NotIn(p.id, q.refunded)}}]
  /\ UNCHANGED <<logs, open, sponsored, now>>

(* then those of them without a row that refunds them. *)
Match ==
  /\ q.pc = "match"
  /\ q' = [q EXCEPT !.pc = "done",
       !.found = {b.id : b \in {p \in logs : p.id \in q.found /\ RefundLog(p) = {}}}]
  /\ UNCHANGED <<logs, open, sponsored, now>>

Strays ==
  \/ \E w \in Windows : Search(w[1], w[2])
  \/ q.kind = "strays" /\ (Candidates \/ Match)
-----------------------------------------------------------------------------
(* Faulty variant: all listings are ordered by their time only. *)
BeforeByTime(kind, l, m) == l.at > m.at

(* ORDER BY of FindAndCountFiatLogs, FindAndCountFiatLogWithDetails and FindFiatLogs. *)
Before(kind, l, m) ==
  CASE kind = "list" -> l.at > m.at \/ (l.at = m.at /\ l.id > m.id)
    [] kind = "details" -> l.at > m.at
    [] kind = "own" -> l.id > m.id

Seen(u) == IF q.kind = "own" THEN LogsOf(u) ELSE logs

(* The rows that a page may show: MySQL orders the rest as it likes. *)
Pages(rows, offset) ==
  {S \in SUBSET rows :
     /\ Cardinality(S) = Min({Page, Max({0, Cardinality(rows) - offset})})
     /\ \E above \in kSubset(Min({offset, Cardinality(rows)}), rows \ S) :
          /\ \A l \in above : ~\E m \in rows \ above : Before(q.kind, m, l)
          /\ \A l \in S : ~\E m \in rows \ (above \cup S) : Before(q.kind, m, l)}

Walk(kind, u) ==
  /\ q.pc = "done"
  /\ q' = [kind |-> kind, pc |-> "page", user |-> u, offset |-> 0, shown |-> {},
           before |-> Ids(IF kind = "own" THEN LogsOf(u) ELSE logs)]
  /\ UNCHANGED <<logs, open, sponsored, now>>

(* The next page, until one is not full. *)
TurnPage ==
  /\ q.pc = "page"
  /\ \E S \in Pages(Seen(q.user), q.offset) :
       q' = [q EXCEPT !.shown = @ \cup Ids(S), !.offset = @ + Page,
                      !.pc = IF Cardinality(S) < Page THEN "done" ELSE "page"]
  /\ UNCHANGED <<logs, open, sponsored, now>>

Lists ==
  \/ \E kind \in Listing, u \in Askers : Walk(kind, u)
  \/ q.kind \in Listing /\ TurnPage

(* Any other query that fails ends what it is part of with its error. *)
QueryFails ==
  /\ q.pc \notin {"done", "starts", "ends"}
  /\ q' = NoQuery
  /\ UNCHANGED <<logs, open, sponsored, now>>

Writes ==
  \/ \E p \in Postings : Insert(p) \/ \E t \in 1 .. MaxTime : AddByHand(p, t)
  \/ \E b \in logs : RefundSponsor(b) \/ Sponsor(b)
  \/ \E l \in open : Commit(l)

NextReports == Writes \/ Tick \/ Changes \/ Strays \/ Lists \/ QueryFails

SpecReports == InitReports /\ [][NextReports]_reportVars
-----------------------------------------------------------------------------
(* fiat_log.go:344-427, 494-537: in a statement of all types the balances at its ends
   differ by the changes between them, whatever time rows are given and in whatever
   order, and whichever reads fail: but for the users, neither every fifth nor the last
   one, whose failed read is dropped (:509-533).  StartBalance has the rows of the very
   first moment already, and EndBalance those of the very last: created_at<= in :500,
   where the comment of :498 has created_at<date, and >=, < in :308.  A user with rows
   that came between the queries is left out. *)
At(u, t) == AmountIn({l \in LogsOf(u) : l.at = t})
Dropped(u) == u \in q.lost /\ ~Checked(q.users, u)
StatementAddsUp ==
  q.kind = "changes" /\ q.pc = "done" /\ q.types = {} =>
    \A u \in q.users \ q.late :
      Dropped(u) \/ q.end[u] - q.start[u] = q.sum[u] - At(u, q.s) + At(u, q.e)

(* fiat_log.go:428-468: a search for purchases that came to nothing finds each that was
   there when it began and is unrefunded and unsponsored still, while refunds and
   sponsor logs come between its queries; if any purchase of the window had been
   refunded, for otherwise it finds none. *)
StraysFound ==
  q.kind = "strays" /\ q.pc = "done" /\ q.refunded # {} =>
    \A b \in q.before : Stray(b) => b.id \in q.found

(* fiat_log.go:223-251, 82-87: whoever turns all pages of a listing sees every row that
   was there when he began, while new rows move the pages; of those that have their
   time in common, a listing with details, which is ordered by time alone, may show
   one twice and another never. *)
Tied(i) == \E l, m \in logs : l.id = i /\ m.id # i /\ l.at = m.at
WalkComplete ==
  q.kind \in Listing /\ q.pc = "done" =>
    \A i \in q.before : i \in q.shown \/ (q.kind = "details" /\ Tied(i))
=============================================================================
