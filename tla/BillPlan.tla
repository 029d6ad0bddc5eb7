------------------------------ MODULE BillPlan ------------------------------
(***************************************************************************)
(* Bill plans: user_bill_plan.go, bill_plan.go, services/bill_plan.go,     *)
(* BuyBillPlan of balance.go, Reset of user_api_quota.go and               *)
(* redis_plan.go. Calls buy a plan, or switch its renewal on and off;      *)
(* once a day a run renews the plans that are due and resets the quotas;   *)
(* the plan of a user is copied to redis for the gateway.  Plans here are  *)
(* of one server type, their quotas of one cost type: others have rows of  *)
(* their own.                                                              *)
(*                                                                         *)
(* A transaction reads the view opened by its first read, and holds the    *)
(* lock of a row it has updated until it commits.  Handlers, resets and    *)
(* UpdateRenew work on other connections, each statement by itself.        *)
(***************************************************************************)
EXTENDS Integers, FiniteSets, FiniteSetsExt

CONSTANTS
  User, Plan,
  Purchases, Switches,   \* what calls ask for: [call, plan, auto], [call, auto]
  Default,               \* the plan that is_default
  Price, Priority,       \* of each plan
  Count,                 \* BillPlanDetail.Count: calls of each plan
  EffectivePeroid, RefreshQuotaSchedule,
  MonthDays, YearMonths, \* the calendar: 28 to 31 and 12 in the code
  Call, Cron,            \* goroutines: of calls, and of the daily run
  Funds,                 \* balance plus arrears quota users may start with
  Tries,                 \* utils.Retry (10 in the code)
  MaxDay, MaxCalls, MaxFaults   \* bounds on days, on calls, on faults

Period == {"DAY", "MONTH", "YEAR"}
Worker == Call \cup {Cron}

ASSUME PlanAssumption ==
  /\ Default \in Plan
  /\ Purchases \subseteq [call : Call, plan : Plan, auto : BOOLEAN]
  /\ Switches \subseteq [call : Call, auto : BOOLEAN]
  /\ {Price, Priority, Count} \subseteq [Plan -> Nat]
  /\ {EffectivePeroid, RefreshQuotaSchedule} \subseteq [Plan -> Period]
  /\ {MonthDays, YearMonths, Tries} \subseteq Nat \ {0}
  /\ Cron \notin Call
  /\ Funds \subseteq Nat
  /\ {MaxDay, MaxCalls, MaxFaults} \subseteq Nat

(* A year from d ends in the first month of the next, whatever the month of d. *)
YearDays == YearMonths * MonthDays
EndTime(p, d) ==
  CASE p = "DAY" -> d + 1
    [] p = "MONTH" -> d + MonthDays
    [] p = "YEAR" -> (d \div YearDays + 1) * YearDays + (d % MonthDays)

(* @daily, @monthly, @yearly *)
NextRefreshQuotaTime(p, d) ==
  LET days == CASE p = "DAY" -> 1 [] p = "MONTH" -> MonthDays [] p = "YEAR" -> YearDays
  IN (d \div days + 1) * days
-----------------------------------------------------------------------------
VARIABLES
  userPlans,  \* UserBillPlan, rows of user_bill_plans
  lastRowId,  \* its AUTO_INCREMENT
  balance,    \* balance plus arrears quota
  quota,      \* the most that count_reset has been since the last reset, and
              \* next_reset_count_time of user_api_quota
  redisPlan,  \* UserPlanKey in redis
  today,
  job,        \* what each goroutine is doing
  run,        \* RunPlan
  calls, faults,
  bought,     \* history: the last purchase, and all plans ever bought
  astray      \* history: what has gone wrong for each user

tables == <<userPlans, lastRowId, balance, quota, redisPlan>>
history == <<bought, astray>>
vars == <<tables, today, job, run, calls, faults, history>>

UserBillPlan == [id : Nat, user : User, plan : Plan, expire : Nat, auto : BOOLEAN]

(* new is the row to be saved (with the id of the row read, or 0), seen the balance in
   the view, raise the quota that the handler has read and the one it will save, value
   the plan to be copied to redis. *)
NoJob == [pc |-> "idle", new |-> {}, seen |-> 0, raise |-> {}, value |-> Default]

(* todo are the rows to renew, item the one in hand and tried its attempts; plans is
   what users are still to be reset to, found the plan and quota of those in hand. *)
NoRun == [pc |-> "idle", todo |-> {}, item |-> {}, tried |-> 0, plans |-> << >>, found |-> << >>]
NoPurchase == [plan |-> Default, expire |-> 0, plans |-> {}]

Init ==
  /\ userPlans = {} /\ lastRowId = 0
  /\ balance \in [User -> Funds]
  /\ quota = [u \in User |-> [count |-> Count[Default], next |-> 1]]
  /\ redisPlan = [u \in User |-> Default]
  /\ today = 0
  /\ job = [w \in Worker |-> NoJob] /\ run = NoRun
  /\ calls = 0 /\ faults = 0
  /\ bought = [u \in User |-> NoPurchase]
  /\ astray = [u \in User |-> {}]

RowsOf(u) == {r \in userPlans : r.user = u}
First(u) == {r \in RowsOf(u) : \A s \in RowsOf(u) : r.id <= s.id}
(* Faulty variant: a plan counts on the day it expires, too. *)
InForceOnExpiry(rows) == {r \in rows : r.expire >= today}
InForce(rows) == {r \in rows : r.expire > today}

(* groupUserPlanByUserId keeps the last row of a user. *)
LastRow(rows) == {r \in rows : \A s \in rows : s.id <= r.id}

(* getUserUnExpiredPlans, with the default plan for who has none. *)
Effective(u) ==
  IF InForce(RowsOf(u)) = {} THEN Default
  ELSE (CHOOSE r \in LastRow(InForce(RowsOf(u))) : TRUE).plan
FindAllUsersEffectivePlan == [u \in User |-> Effective(u)]

Blame(u, why) == [astray EXCEPT ![u] = @ \cup why]
Buying(u) ==
  {w \in Worker : job[w].pc \notin {"idle", "switch"} /\ \E r \in job[w].new : r.user = u}
-----------------------------------------------------------------------------
(* UpdateUserBillPlan, in the transaction of BuyBillPlan. *)
Refused(u, p) == \E r \in InForce(First(u)) : Priority[r.plan] = Priority[p]

NewUserPlan(u, p, auto) ==
  [id |-> IF First(u) = {} THEN 0 ELSE (CHOOSE r \in First(u) : TRUE).id,
   user |-> u, plan |-> p, expire |-> EndTime(EffectivePeroid[p], today), auto |-> auto]

ReadPlan(w, u, p, auto) ==
  job' = [job EXCEPT ![w] =
    [NoJob EXCEPT !.pc = "read", !.new = {NewUserPlan(u, p, auto)}, !.seen = balance[u]]]

BuyBillPlan(w, u, p, auto) ==
  /\ job[w].pc = "idle"
  /\ calls < MaxCalls
  /\ ~Refused(u, p)
  /\ ReadPlan(w, u, p, auto)
  /\ calls' = calls + 1
  /\ UNCHANGED <<tables, today, run, faults, history>>

RowLocked(w) ==
  \E r \in job[w].new, v \in Worker \ {w} :
    /\ job[v].pc \in {"saved", "raised"}
    /\ \E s \in job[v].new : s.id = r.id

(* Faulty variant: a quota one call short is not raised. *)
RaiseBelow(u, p, left) ==
  IF left + 1 >= Count[p] THEN {}
  ELSE {[old |-> quota[u], count |-> Count[p],
         next |-> NextRefreshQuotaTime(RefreshQuotaSchedule[p], today)]}

(* ResetQuotaOnPlanUpdated, when left calls of the quota are left: it is raised, never
   lowered.  What the settle loop takes is not counted: left is any number. *)
Raise(u, p, left) ==
  IF left >= Count[p] THEN {}
  ELSE {[old |-> quota[u], count |-> Count[p],
         next |-> NextRefreshQuotaTime(RefreshQuotaSchedule[p], today)]}

(* The row is inserted, or updated when its lock is free; the handler reads the
   quota on its own connection. *)
SavePlan(w) ==
  /\ job[w].pc = "read"
  /\ ~RowLocked(w)
  /\ \E r \in job[w].new : \E left \in 0 .. quota[r.user].count :
       LET new == IF r.id = 0 THEN [r EXCEPT !.id = lastRowId + 1] ELSE r IN
       /\ job' = [job EXCEPT ![w].pc = "saved", ![w].new = {new},
                             ![w].raise = Raise(r.user, r.plan, left)]
       /\ lastRowId' = Max({lastRowId, new.id})
  /\ UNCHANGED <<userPlans, balance, quota, redisPlan, today, run, calls, faults, history>>

(* For the history: a grant of n calls makes up for earlier ones, unless it is late. *)
Granted(u, n, late) ==
  (IF n >= Count[bought[u].plan] THEN astray[u] \ {"stale", "unserved"} ELSE astray[u])
    \cup (IF late THEN {"stale"} ELSE {})

(* The handler saves the quota before the plan is paid for. *)
RaiseQuota(w) ==
  /\ job[w].pc = "saved"
  /\ job' = [job EXCEPT ![w].pc = "raised", ![w].raise = {}]
  /\ \E r \in job[w].new :
       IF job[w].raise = {} THEN UNCHANGED <<quota, astray>>
       ELSE \E q \in job[w].raise :
            /\ quota' = [quota EXCEPT ![r.user] =
                 [count |-> Max({@.count, q.count}), next |-> q.next]]
            /\ astray' = [astray EXCEPT ![r.user] =
                 Granted(r.user, q.count, Buying(r.user) # {w} \/ q.old # quota[r.user])]
  /\ UNCHANGED <<userPlans, lastRowId, balance, redisPlan, today, run, calls, faults, bought>>

(* An attempt of the run to renew r is over. *)
Attempted(r, done) ==
  LET last == done \/ run.tried + 1 = Tries
  IN [run EXCEPT !.todo = @ \ {r}, !.item = IF last THEN {} ELSE {r},
                 !.tried = IF last THEN 0 ELSE @ + 1]
AfterAttempt(w, done) ==
  IF w = Cron THEN \E r \in run.item : run' = Attempted(r, done) ELSE UNCHANGED run

(* A renewal of a row that has changed since it was listed is not what its user
   has bought last. *)
Overtaken(w) == w = Cron /\ ~run.item \subseteq userPlans

Pays(seen, p) == Price[p] <= seen

(* The payment, checked and subtracted in the view, and the commit. *)
PayPlan(w) ==
  /\ job[w].pc = "raised"
  /\ \E r \in job[w].new :
       LET u == r.user
           twins == RowsOf(u) # {} /\ \A s \in RowsOf(u) : s.id # r.id
       IN
       /\ Pays(job[w].seen, r.plan)
       /\ userPlans' = {s \in userPlans : s.id # r.id} \cup {r}
       /\ balance' = [balance EXCEPT ![u] = job[w].seen - Price[r.plan]]
       /\ bought' = IF Overtaken(w) THEN bought
                    ELSE [bought EXCEPT ![u] = [plan |-> r.plan, expire |-> r.expire,
                                                plans |-> @.plans \cup {r.plan}]]
       /\ astray' = [astray EXCEPT ![u] =
            (@ \ {"overwritten", "overtaken"}) \cup (IF twins THEN {"twins"} ELSE {})
              \cup (IF Overtaken(w) THEN {"overtaken"} ELSE {})]
  /\ job' = [job EXCEPT ![w] = [NoJob EXCEPT !.pc = "paid", !.new = @ \cup job[w].new]]
  /\ AfterAttempt(w, TRUE)
  /\ UNCHANGED <<lastRowId, quota, redisPlan, today, calls, faults>>

Rollback(w) ==
  /\ job' = [job EXCEPT ![w] = NoJob]
  /\ AfterAttempt(w, FALSE)
  /\ UNCHANGED <<tables, today, calls, history>>

Insufficient(w) ==
  /\ job[w].pc = "raised"
  /\ \E r \in job[w].new : ~Pays(job[w].seen, r.plan)
  /\ Rollback(w)
  /\ UNCHANGED faults

(* SetUserPlansToRedis, after the commit; its error is dropped. *)
CopyRead(w) ==
  /\ job[w].pc = "paid"
  /\ \E r \in job[w].new :
       job' = [job EXCEPT ![w].pc = "copying", ![w].value = Effective(r.user)]
  /\ UNCHANGED <<tables, today, run, calls, faults, history>>

(* Faulty variant: only keys that do not exist are set. *)
SetNewKeys(u, p) == redisPlan
SetKeys(u, p) == [redisPlan EXCEPT ![u] = p]

CopyToRedis(w) ==
  /\ job[w].pc = "copying"
  /\ \E r \in job[w].new :
       /\ redisPlan' = SetKeys(r.user, job[w].value)
       /\ astray' = [astray EXCEPT ![r.user] =
            IF job[w].value = Effective(r.user) THEN @ \ {"redis"} ELSE @ \cup {"redis"}]
  /\ job' = [job EXCEPT ![w] = NoJob]
  /\ UNCHANGED <<userPlans, lastRowId, balance, quota, today, run, calls, faults, bought>>
-----------------------------------------------------------------------------
(* UpdateRenew reads the row and saves the whole of it, without a transaction. *)
UpdateRenew(w, u, auto) ==
  /\ job[w].pc = "idle"
  /\ calls < MaxCalls
  /\ \E r \in First(u) :
       job' = [job EXCEPT ![w] = [NoJob EXCEPT !.pc = "switch", !.new = {[r EXCEPT !.auto = auto]}]]
  /\ calls' = calls + 1
  /\ UNCHANGED <<tables, today, run, faults, history>>

SaveRenew(w) ==
  /\ job[w].pc = "switch"
  /\ ~RowLocked(w)
  /\ \E r \in job[w].new, s \in userPlans :
       /\ s.id = r.id
       /\ userPlans' = (userPlans \ {s}) \cup {r}
       /\ astray' = IF [s EXCEPT !.auto = r.auto] = r THEN astray
                    ELSE Blame(r.user, {"overwritten"})
  /\ job' = [job EXCEPT ![w] = NoJob]
  /\ UNCHANGED <<lastRowId, balance, quota, redisPlan, today, run, calls, faults, bought>>
-----------------------------------------------------------------------------
(* RunPlan: RenewPlans, then ResetAllUsersQuotas. *)
(* Faulty variant: only a plan that expires today is due. *)
NeedRenewToday(u) == LastRow({r \in RowsOf(u) : r.expire = today /\ r.auto})
NeedRenew(u) == LastRow({r \in RowsOf(u) : r.expire <= today /\ r.auto})

RunStart ==
  /\ run.pc = "idle" /\ job[Cron].pc = "idle"
  /\ run' = [NoRun EXCEPT !.pc = "renew", !.todo = UNION {NeedRenew(u) : u \in User}]
  /\ UNCHANGED <<tables, today, job, calls, faults, history>>

(* BuyBillPlan by the run, again and again if it fails. *)
Renew ==
  /\ run.pc = "renew" /\ job[Cron].pc = "idle"
  /\ \E r \in IF run.item = {} THEN run.todo ELSE run.item :
       IF Refused(r.user, r.plan)
       THEN run' = Attempted(r, FALSE) /\ UNCHANGED job
       ELSE /\ ReadPlan(Cron, r.user, r.plan, TRUE)
            /\ run' = [run EXCEPT !.todo = @ \ {r}, !.item = {r}]
  /\ UNCHANGED <<tables, today, calls, faults, history>>

ResetAllUsersQuotas ==
  /\ run.pc = "renew" /\ job[Cron].pc = "idle"
  /\ run.todo \cup run.item = {}
  /\ run' = [run EXCEPT !.pc = "reset", !.plans = FindAllUsersEffectivePlan]
  /\ UNCHANGED <<tables, today, job, calls, faults, history>>

ResetNext(left) ==
  IF left = << >> THEN NoRun ELSE [NoRun EXCEPT !.pc = "reset", !.plans = left]

TimeHasCome(u, next) == quota[u].next < next

(* resetQuotaByPlan and Reset, not forced: the quotas whose time has come are read,
   then saved. *)
ResetFind(p) ==
  LET users == {u \in DOMAIN run.plans : run.plans[u] = p}
      next == NextRefreshQuotaTime(RefreshQuotaSchedule[p], today)
      matched == {u \in users : TimeHasCome(u, next)}
      left == [u \in DOMAIN run.plans \ users |-> run.plans[u]]
  IN
  /\ run.pc = "reset"
  /\ users # {}
  /\ run' = IF matched = {} THEN ResetNext(left)
            ELSE [run EXCEPT
              !.pc = "found", !.plans = left,
              !.found = [u \in matched |-> [plan |-> p, count |-> Count[p], next |-> next]]]
  /\ UNCHANGED <<tables, today, job, calls, faults, history>>

ResetSave ==
  LET mine == DOMAIN run.found
      late(u) == run.found[u].plan # Effective(u)
                 \/ \E w \in Buying(u) : job[w].pc \in {"saved", "raised"}
  IN
  /\ run.pc = "found"
  /\ quota' = [u \in User |-> IF u \in mine
                 THEN [count |-> run.found[u].count, next |-> run.found[u].next] ELSE quota[u]]
  /\ astray' = [u \in User |->
       IF u \in mine THEN Granted(u, run.found[u].count, late(u)) ELSE astray[u]]
  /\ run' = ResetNext(run.plans)
  /\ UNCHANGED <<userPlans, lastRowId, balance, redisPlan, today, job, calls, faults, bought>>
-----------------------------------------------------------------------------
NextDay ==
  /\ today < MaxDay
  /\ today' = today + 1
  /\ UNCHANGED <<tables, job, run, calls, faults, history>>

Fault == faults < MaxFaults /\ faults' = faults + 1

(* An error of the database in a purchase. *)
BuyFails(w) ==
  /\ Fault
  /\ job[w].pc \in {"read", "saved", "raised"}
  /\ Rollback(w)

(* All attempts of the handler fail: the purchase goes on. *)
HandlerFails(w) ==
  /\ Fault
  /\ job[w].pc = "saved" /\ job[w].raise # {}
  /\ job' = [job EXCEPT ![w].pc = "raised", ![w].raise = {}]
  /\ \E r \in job[w].new : astray' = Blame(r.user, {"unserved"})
  /\ UNCHANGED <<tables, today, run, calls, bought>>

CopyFails(w) ==
  /\ Fault
  /\ job[w].pc \in {"paid", "copying"}
  /\ job' = [job EXCEPT ![w] = NoJob]
  /\ \E r \in job[w].new : astray' = Blame(r.user, {"redis"})
  /\ UNCHANGED <<tables, today, run, calls, bought>>

(* An error ends the run before the quotas are saved; it is begun anew. *)
RunFails ==
  /\ Fault
  /\ run.pc \in {"reset", "found"}
  /\ run' = NoRun
  /\ UNCHANGED <<tables, today, job, calls, history>>

(* The server dies; when it starts, all plans are copied to redis. *)
Crash ==
  /\ Fault
  /\ job' = [w \in Worker |-> NoJob] /\ run' = NoRun
  /\ redisPlan' = FindAllUsersEffectivePlan
  /\ astray' = [u \in User |-> astray[u] \ {"redis"}]
  /\ UNCHANGED <<userPlans, lastRowId, balance, quota, today, calls, bought>>

BuySteps(w) ==
  SavePlan(w) \/ RaiseQuota(w) \/ PayPlan(w) \/ Insufficient(w)
    \/ CopyRead(w) \/ CopyToRedis(w) \/ SaveRenew(w)
RunSteps ==
  RunStart \/ Renew \/ ResetAllUsersQuotas \/ ResetSave
    \/ (\E p \in Plan : ResetFind(p)) \/ BuySteps(Cron)
CallSteps == \E w \in Call : BuySteps(w)

Next ==
  \/ \E u \in User :
       \/ \E c \in Purchases : BuyBillPlan(c.call, u, c.plan, c.auto)
       \/ \E c \in Switches : UpdateRenew(c.call, u, c.auto)
  \/ RunSteps \/ CallSteps
  \/ NextDay \/ RunFails \/ Crash
  \/ \E w \in Worker : BuyFails(w) \/ HandlerFails(w) \/ CopyFails(w)

Spec == Init /\ [][Next]_vars

(* The run comes again every day, and goroutines are scheduled. *)
FairSpec == Spec /\ WF_vars(RunSteps) /\ WF_vars(CallSteps)
-----------------------------------------------------------------------------
(* user_bill_plan.go:94 "购买新套餐时，直接覆盖现有套餐": the plan bought last is the plan
   in effect until it expires, and then the default, through races of purchases,
   renewals and switches; unless two first purchases have made two rows, UpdateRenew
   has saved an older row over it, or a run has renewed a plan that is no longer the
   one it has listed (services/bill_plan.go:35). *)
PurchaseKept ==
  \A u \in User : astray[u] \cap {"twins", "overwritten", "overtaken"} = {} =>
    Effective(u) = IF bought[u].expire > today THEN bought[u].plan ELSE Default

(* user_api_quota.go:94-141 against user_bill_plan.go:151: while a plan is in force
   its user has been given at least its quota, unless a reset was on its way with an
   older plan, the handler has failed, or the plan is not the one in effect. *)
PaidQuotaGiven ==
  \A u \in User :
    Buying(u) = {} /\ bought[u].expire > today /\ astray[u] \subseteq {"redis"}
      => quota[u].count >= Count[bought[u].plan]

(* redis_plan.go:15 "当用户PlanId变化时更新redis": when no purchase is under way the
   gateway has the plan in effect, except that it is not told when a plan expires, and
   after a copy that failed or came late. *)
RedisPlanCurrent ==
  \A u \in User :
    /\ Buying(u) = {}
    /\ astray[u] \cap {"twins", "overwritten", "redis"} = {}
    /\ RowsOf(u) = {} \/ InForce(RowsOf(u)) # {}
    => redisPlan[u] = Effective(u)

(* bill_plan.go:62 "default 表示默认套餐，在未购买套餐时使用": no reset has given a user
   more than the default plan and the plans paid for. *)
QuotaPaidFor ==
  \A u \in User :
    Buying(u) = {} => quota[u].count <= Max({Count[p] : p \in {Default} \cup bought[u].plans})

(* services/bill_plan.go:13 "run cron schedules daily": whatever fails, a plan that is
   due and renews itself is renewed at last, or its user cannot pay; and a quota whose
   time has come is reset at last. *)
NightlyRunsCatchUp ==
  /\ []<>(\A r \in userPlans :
            r.expire <= today /\ r.auto /\ "twins" \notin astray[r.user]
              => balance[r.user] < Price[r.plan])
  /\ []<>(\A u \in User : quota[u].next > today)
=============================================================================
