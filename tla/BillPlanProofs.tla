---------------------------- MODULE BillPlanProofs ----------------------------
(***************************************************************************)
(* The bill plans of BillPlan, for any users, plans, prices, periods and   *)
(* bounds, and any number of calls.  A goroutine carries the id of a row   *)
(* from its first query to its last statement: what is kept of rows,       *)
(* quotas and copies to redis depends on what each has in hand.            *)
(***************************************************************************)
EXTENDS BillPlan, FiniteSetTheorems, WellFoundedInduction, TLAPS

Quota == [count : Nat, next : Nat]
JobStep == {"idle", "read", "saved", "raised", "paid", "copying", "switch"}
Job == [pc : JobStep, new : SUBSET UserBillPlan, seen : Nat,
        raise : SUBSET [old : Quota, count : Nat, next : Nat], value : Plan]
Why == {"twins", "overwritten", "overtaken", "stale", "unserved", "redis"}

TablesOk ==
  /\ userPlans \subseteq UserBillPlan /\ lastRowId \in Nat /\ today \in Nat
  /\ balance \in [User -> Nat] /\ redisPlan \in [User -> Plan]
  /\ quota \in [User -> Quota]
JobsOk == job \in [Worker -> Job]
RunOk ==
  /\ run = [pc |-> run.pc, todo |-> run.todo, item |-> run.item, tried |-> run.tried,
            plans |-> run.plans, found |-> run.found]
  /\ run.todo \subseteq UserBillPlan /\ run.item \subseteq UserBillPlan
  /\ \A u \in DOMAIN run.found :
       /\ run.found[u].plan \in Plan /\ run.found[u].next \in Nat
       /\ run.found[u].count = Count[run.found[u].plan]
HistoryOk ==
  /\ bought \in [User -> [plan : Plan, expire : Nat, plans : SUBSET Plan]]
  /\ astray \in [User -> SUBSET Why]
TypeOK == TablesOk /\ JobsOk /\ RunOk /\ HistoryOk

(* A goroutine has one row in hand, or none. *)
InHand(w) == IF job[w].pc = "idle" THEN job[w].new = {} ELSE \E r \in job[w].new : job[w].new = {r}

(* Rows in hand that have the id of a row, or of one another, are of one user. *)
IdsOk ==
  /\ \A w \in Worker : InHand(w)
  /\ \A r \in userPlans : 0 < r.id /\ r.id <= lastRowId
  /\ \A r, s \in userPlans : r.id = s.id => r = s
  /\ \A w \in Worker : \A r \in job[w].new :
       /\ r.id <= lastRowId /\ (job[w].pc # "read" => 0 < r.id)
       /\ \A s \in userPlans : s.id = r.id => s.user = r.user
       /\ \A v \in Worker : \A s \in job[v].new : 0 < s.id /\ s.id = r.id => s.user = r.user

Kept(u) == astray[u] \cap {"twins", "overwritten", "overtaken"} = {}

(* Who has no twins has one row, which is the last purchase. *)
OneRow(u) == "twins" \notin astray[u] => \A r, s \in RowsOf(u) : r = s
LastBought(u) ==
  /\ RowsOf(u) = {} => bought[u].expire = 0
  /\ Kept(u) => \A r \in RowsOf(u) : r.plan = bought[u].plan /\ r.expire = bought[u].expire
RowsInv == \A u \in User : OneRow(u) /\ LastBought(u)

Misgiven(u) == astray[u] \cap {"stale", "unserved"} # {}
Saving(w) == job[w].pc \in {"saved", "raised"}
Given(u, p) == quota[u].count >= Count[p]

(* A purchase is paid for when its calls have been given. *)
RaiseKept(w) ==
  /\ \A r \in job[w].new : \A q \in job[w].raise : q.count = Count[r.plan]
  /\ Saving(w) => \A r \in job[w].new :
       \/ job[w].pc = "saved" /\ job[w].raise # {}
       \/ Given(r.user, r.plan) \/ Misgiven(r.user)
QuotaKept(u) == bought[u].expire > today /\ Kept(u) /\ ~Misgiven(u) => Given(u, bought[u].plan)
QuotaInv == (\A w \in Worker : RaiseKept(w)) /\ (\A u \in User : QuotaKept(u))

Copying(u) ==
  \E w \in Worker : job[w].pc \in {"paid", "copying"} /\ \E r \in job[w].new : r.user = u
CopyKept(u) ==
  /\ ~Copying(u) /\ astray[u] \cap {"twins", "overwritten", "redis"} = {}
  /\ RowsOf(u) = {} \/ InForce(RowsOf(u)) # {}
  => redisPlan[u] = Effective(u)
RedisInv == \A u \in User : CopyKept(u)
-----------------------------------------------------------------------------
LEMMA GreaterOf ==
  ASSUME NEW a \in Nat, NEW b \in Nat
  PROVE  Max({a, b}) \in Nat /\ a <= Max({a, b}) /\ b <= Max({a, b})
<1>1. \E m \in {a, b} : \A x \in {a, b} : x <= m
  <2>1. CASE a <= b
    BY <2>1
  <2>2. CASE b <= a
    BY <2>2
  <2> QED
    BY <2>1, <2>2
<1>2. Max({a, b}) \in {a, b} /\ \A x \in {a, b} : x <= Max({a, b})
  BY <1>1 DEF Max
<1> QED
  BY <1>2

(* The calendar. *)
LEMMA PositiveProduct ==
  ASSUME NEW a \in Nat \ {0}, NEW b \in Nat \ {0}
  PROVE  a * b \in Nat \ {0}
<1>1. a * b \in Nat
  OBVIOUS
<1>2. a * b # 0
  BY Z3
<1> QED
  BY <1>1, <1>2

LEMMA NextMultiple ==
  ASSUME NEW d \in Nat, NEW n \in Nat \ {0}
  PROVE  (d \div n + 1) * n \in Nat
<1>1. d \div n \in Nat
  OBVIOUS
<1> DEFINE k == d \div n
<1> HIDE DEF k
<1>2. (k + 1) * n \in Nat
  BY <1>1 DEF k
<1> QED
  BY <1>2 DEF k

LEMMA DatesTyped ==
  ASSUME NEW p \in Period, NEW d \in Nat
  PROVE  EndTime(p, d) \in Nat /\ NextRefreshQuotaTime(p, d) \in Nat
<1>1. MonthDays \in Nat \ {0} /\ YearDays \in Nat \ {0}
  BY PlanAssumption, PositiveProduct DEF YearDays
<1>2. d % MonthDays \in Nat
  BY <1>1
<1>3. (d \div YearDays + 1) * YearDays \in Nat
  BY <1>1, NextMultiple
<1>4. EndTime(p, d) \in Nat
  <2>1. CASE p = "DAY"
    BY <2>1 DEF EndTime
  <2>2. CASE p = "MONTH"
    BY <1>1, <2>2 DEF EndTime
  <2>3. CASE p = "YEAR"
    <3>1. EndTime(p, d) = (d \div YearDays + 1) * YearDays + (d % MonthDays)
      BY <2>3 DEF EndTime
    <3> QED
      BY <1>2, <1>3, <3>1
  <2> QED
    BY <2>1, <2>2, <2>3 DEF Period
<1>5. NextRefreshQuotaTime(p, d) \in Nat
  <2>1. PICK n \in Nat \ {0} : NextRefreshQuotaTime(p, d) = (d \div n + 1) * n
    <3>1. CASE p = "DAY"
      BY <3>1 DEF NextRefreshQuotaTime
    <3>2. CASE p = "MONTH"
      BY <1>1, <3>2 DEF NextRefreshQuotaTime
    <3>3. CASE p = "YEAR"
      BY <1>1, <3>3 DEF NextRefreshQuotaTime
    <3> QED
      BY <3>1, <3>2, <3>3 DEF Period
  <2> QED
    BY <2>1, NextMultiple
<1> QED
  BY <1>4, <1>5

(* What is in hand of a goroutine. *)
LEMMA JobTyped ==
  ASSUME JobsOk, NEW w \in Worker
  PROVE  /\ job[w].pc \in JobStep /\ job[w].seen \in Nat /\ job[w].value \in Plan
         /\ job[w].new \subseteq UserBillPlan
         /\ job[w].raise \subseteq [old : Quota, count : Nat, next : Nat]
         /\ job[w] = [pc |-> job[w].pc, new |-> job[w].new, seen |-> job[w].seen,
                      raise |-> job[w].raise, value |-> job[w].value]
<1>1. PICK j \in Job : j = job[w]
  BY DEF JobsOk
<1>2. /\ j.pc \in JobStep /\ j.seen \in Nat /\ j.value \in Plan
      /\ j.new \subseteq UserBillPlan
      /\ j.raise \subseteq [old : Quota, count : Nat, next : Nat]
      /\ j = [pc |-> j.pc, new |-> j.new, seen |-> j.seen, raise |-> j.raise, value |-> j.value]
  BY DEF Job
<1> QED
  BY <1>1, <1>2

(* A step of goroutine w, which has j in hand after it. *)
Sets(w, j) ==
  /\ job'[w] = j /\ \A v \in Worker \ {w} : job'[v] = job[v]
  /\ j \in Job => JobsOk'

LEMMA JobSet ==
  ASSUME JobsOk, NEW w \in Worker, NEW j, job' = [job EXCEPT ![w] = j]
  PROVE  Sets(w, j)
  BY DEF JobsOk, Sets

(* Goroutine w with other fields. *)
Put(w, pc, new, seen, raise, value) ==
  [job EXCEPT ![w] = [pc |-> pc, new |-> new, seen |-> seen, raise |-> raise, value |-> value]]
WithRaise(w, pc, raise) == [job EXCEPT ![w].pc = pc, ![w].raise = raise]
WithValue(w, pc, value) == [job EXCEPT ![w].pc = pc, ![w].value = value]
WithRow(w, pc, new, raise) == [job EXCEPT ![w].pc = pc, ![w].new = new, ![w].raise = raise]

NoneInHand == [pc |-> "idle", new |-> {}, seen |-> 0, raise |-> {}, value |-> Default]
LEMMA NoJobTyped == NoJob = NoneInHand /\ NoJob \in Job
  BY PlanAssumption DEF NoJob, NoneInHand, Job, JobStep

LEMMA JobFieldsSet ==
  ASSUME JobsOk, NEW w \in Worker, NEW x, NEW y, NEW z
  PROVE  /\ WithRaise(w, x, y) = Put(w, x, job[w].new, job[w].seen, y, job[w].value)
         /\ WithValue(w, x, y) = Put(w, x, job[w].new, job[w].seen, job[w].raise, y)
         /\ WithRow(w, x, y, z) = Put(w, x, y, job[w].seen, z, job[w].value)
<1> DEFINE j == job[w]
           b == j.new
           c == j.seen
           d == j.raise
           e == j.value
           r == [pc |-> j.pc, new |-> b, seen |-> c, raise |-> d, value |-> e]
           k == [pc |-> x, new |-> b, seen |-> c, raise |-> d, value |-> e]
           l == [pc |-> x, new |-> y, seen |-> c, raise |-> d, value |-> e]
           raised == [pc |-> x, new |-> b, seen |-> c, raise |-> y, value |-> e]
           copying == [pc |-> x, new |-> b, seen |-> c, raise |-> d, value |-> y]
           saved == [pc |-> x, new |-> y, seen |-> c, raise |-> z, value |-> e]
<1>1. /\ [job EXCEPT ![w].pc = x, ![w].raise = y]
           = [job EXCEPT ![w] = [[j EXCEPT !.pc = x] EXCEPT !.raise = y]]
      /\ [job EXCEPT ![w].pc = x, ![w].value = y]
           = [job EXCEPT ![w] = [[j EXCEPT !.pc = x] EXCEPT !.value = y]]
      /\ [job EXCEPT ![w].pc = x, ![w].new = y, ![w].raise = z]
           = [job EXCEPT ![w] = [[[j EXCEPT !.pc = x] EXCEPT !.new = y] EXCEPT !.raise = z]]
  BY DEF JobsOk
<1>2. j = r
  BY JobTyped
<1> HIDE DEF j, b, c, d, e
<1>3. [r EXCEPT !.pc = x] = k
  OBVIOUS
<1>4. /\ [k EXCEPT !.raise = y] = raised
      /\ [k EXCEPT !.value = y] = copying
      /\ [k EXCEPT !.new = y] = l
      /\ [l EXCEPT !.raise = z] = saved
  OBVIOUS
<1> HIDE DEF r, k, l, raised, copying, saved
<1>5. /\ [job EXCEPT ![w].pc = x, ![w].raise = y] = [job EXCEPT ![w] = raised]
      /\ [job EXCEPT ![w].pc = x, ![w].value = y] = [job EXCEPT ![w] = copying]
      /\ [job EXCEPT ![w].pc = x, ![w].new = y, ![w].raise = z] = [job EXCEPT ![w] = saved]
  BY <1>1, <1>2, <1>3, <1>4
<1> QED
  BY <1>5 DEF raised, copying, saved, j, b, c, d, e, Put, WithRaise, WithValue, WithRow

LEMMA NoJobFieldsSet ==
  ASSUME NEW x, NEW y, NEW z
  PROVE  /\ [NoJob EXCEPT !.pc = x, !.new = y, !.seen = z]
              = [pc |-> x, new |-> y, seen |-> z, raise |-> {}, value |-> Default]
         /\ [NoJob EXCEPT !.pc = x, !.new = y]
              = [pc |-> x, new |-> y, seen |-> 0, raise |-> {}, value |-> Default]
         /\ [NoJob EXCEPT !.pc = x, !.new = @ \cup y]
              = [pc |-> x, new |-> y, seen |-> 0, raise |-> {}, value |-> Default]
<1> DEFINE k == [pc |-> x, new |-> {}, seen |-> 0, raise |-> {}, value |-> Default]
           l == [pc |-> x, new |-> y, seen |-> 0, raise |-> {}, value |-> Default]
           m == [pc |-> x, new |-> y, seen |-> z, raise |-> {}, value |-> Default]
<1>1. [NoJob EXCEPT !.pc = x] = k
  BY DEF NoJob
<1>2. [k EXCEPT !.new = y] = l /\ [l EXCEPT !.seen = z] = m /\ NoJob.new = {}
  BY DEF NoJob
<1>3. {} \cup y = y
  OBVIOUS
<1>4. /\ [NoJob EXCEPT !.pc = x, !.new = y, !.seen = z]
           = [[[NoJob EXCEPT !.pc = x] EXCEPT !.new = y] EXCEPT !.seen = z]
      /\ [NoJob EXCEPT !.pc = x, !.new = y] = [[NoJob EXCEPT !.pc = x] EXCEPT !.new = y]
      /\ [NoJob EXCEPT !.pc = x, !.new = NoJob.new \cup y]
           = [[NoJob EXCEPT !.pc = x] EXCEPT !.new = NoJob.new \cup y]
  OBVIOUS
<1>5. [NoJob EXCEPT !.pc = x, !.new = @ \cup y] = [NoJob EXCEPT !.pc = x, !.new = NoJob.new \cup y]
  OBVIOUS
<1> HIDE DEF k, l, m
<1>6. /\ [NoJob EXCEPT !.pc = x, !.new = y, !.seen = z] = m
      /\ [NoJob EXCEPT !.pc = x, !.new = y] = l
      /\ [NoJob EXCEPT !.pc = x, !.new = @ \cup y] = l
  BY <1>1, <1>2, <1>3, <1>4, <1>5
<1> QED
  BY <1>6 DEF l, m

LEMMA FieldsTyped ==
  ASSUME JobsOk, NEW w \in Worker
  PROVE  /\ job[w].new \in SUBSET UserBillPlan /\ job[w].seen \in Nat /\ job[w].value \in Plan
         /\ job[w].raise \in SUBSET [old : Quota, count : Nat, next : Nat]
<1>1. job[w].new \subseteq UserBillPlan /\ job[w].seen \in Nat /\ job[w].value \in Plan
  BY JobTyped
<1>2. job[w].raise \subseteq [old : Quota, count : Nat, next : Nat]
  BY JobTyped
<1> QED
  BY <1>1, <1>2

(* A goroutine goes on to step pc with new in hand, which other goroutines do not see. *)
GoesOn(w, pc, new, raise) ==
  /\ job'[w].pc = pc /\ job'[w].new = new /\ job'[w].raise = raise
  /\ \A v \in Worker \ {w} : job'[v] = job[v]

LEMMA JobGoesOn ==
  ASSUME JobsOk, NEW w \in Worker, NEW pc \in JobStep, NEW new \in SUBSET UserBillPlan,
         NEW seen \in Nat, NEW raise \in SUBSET [old : Quota, count : Nat, next : Nat],
         NEW value \in Plan,
         job' = Put(w, pc, new, seen, raise, value)
  PROVE  GoesOn(w, pc, new, raise) /\ JobsOk' /\ job'[w].value = value
<1> DEFINE j == [pc |-> pc, new |-> new, seen |-> seen, raise |-> raise, value |-> value]
<1>1. j \in Job
  BY DEF Job
<1>2. j.pc = pc /\ j.new = new /\ j.raise = raise /\ j.value = value
  OBVIOUS
<1> HIDE DEF j
<1>3. job' = [job EXCEPT ![w] = j]
  BY DEF j, Put
<1>4. Sets(w, j)
  BY <1>3, JobSet
<1> QED
  BY <1>1, <1>2, <1>4 DEF Sets, GoesOn

LEMMA NewPlanTyped ==
  ASSUME TablesOk, NEW u \in User, NEW p \in Plan, NEW auto \in BOOLEAN
  PROVE  LET r == NewUserPlan(u, p, auto) IN
         /\ r \in UserBillPlan /\ r.user = u /\ r.plan = p
         /\ r.id = IF First(u) = {} THEN 0 ELSE (CHOOSE s \in First(u) : TRUE).id
<1>1. First(u) # {} => (CHOOSE r \in First(u) : TRUE).id \in Nat
  BY DEF First, RowsOf, TablesOk, UserBillPlan
<1>2. EndTime(EffectivePeroid[p], today) \in Nat
  BY PlanAssumption, DatesTyped DEF TablesOk
<1> QED
  BY <1>1, <1>2 DEF NewUserPlan, UserBillPlan

LEMMA ReadPlanGoesOn ==
  ASSUME JobsOk, TablesOk, NEW w \in Worker, NEW u \in User, NEW p \in Plan, NEW auto \in BOOLEAN,
         ReadPlan(w, u, p, auto)
  PROVE  GoesOn(w, "read", {NewUserPlan(u, p, auto)}, {}) /\ JobsOk'
<1> DEFINE new == {NewUserPlan(u, p, auto)}
           j == [pc |-> "read", new |-> new, seen |-> balance[u], raise |-> {},
                 value |-> Default]
<1>1. [NoJob EXCEPT !.pc = "read", !.new = new, !.seen = balance[u]] = j
  <2> HIDE DEF new
  <2> QED
    BY NoJobFieldsSet
<1>2. job' = [job EXCEPT ![w] = [NoJob EXCEPT !.pc = "read", !.new = new, !.seen = balance[u]]]
  BY DEF ReadPlan
<1>3. job' = [job EXCEPT ![w] = j]
  <2> HIDE DEF j
  <2> QED
    BY <1>1, <1>2
<1>4. new \in SUBSET UserBillPlan /\ balance[u] \in Nat /\ Default \in Plan
  <2>1. NewUserPlan(u, p, auto) \in UserBillPlan
    BY NewPlanTyped
  <2>2. balance[u] \in Nat
    BY DEF TablesOk
  <2> QED
    BY <2>1, <2>2, PlanAssumption
<1> HIDE DEF new
<1>6. job' = Put(w, "read", new, balance[u], {}, Default)
  BY <1>3 DEF Put
<1>5. GoesOn(w, "read", new, {}) /\ JobsOk'
  BY <1>4, <1>6, JobGoesOn DEF JobStep
<1> QED
  BY <1>5 DEF new

LEMMA HandOf ==
  ASSUME JobsOk, NEW w \in Worker, InHand(w), job[w].pc # "idle"
  PROVE  \E r \in UserBillPlan : job[w].new = {r}
  BY JobTyped DEF InHand

LEMMA BuyGoesOn ==
  ASSUME JobsOk, TablesOk, NEW c \in Purchases, NEW u \in User,
         BuyBillPlan(c.call, u, c.plan, c.auto)
  PROVE  /\ GoesOn(c.call, "read", {NewUserPlan(u, c.plan, c.auto)}, {}) /\ JobsOk'
         /\ c.call \in Worker /\ c.plan \in Plan /\ c.auto \in BOOLEAN /\ job[c.call].pc = "idle"
<1>1. c.call \in Worker /\ c.plan \in Plan /\ c.auto \in BOOLEAN
  BY PlanAssumption DEF Worker
<1>2. ReadPlan(c.call, u, c.plan, c.auto) /\ job[c.call].pc = "idle"
  BY DEF BuyBillPlan
<1> QED
  BY <1>1, <1>2, ReadPlanGoesOn

LEMMA RenewGoesOn ==
  ASSUME JobsOk, TablesOk, RunOk, Renew
  PROVE  \/ UNCHANGED job
         \/ \E r \in UserBillPlan :
              /\ GoesOn(Cron, "read", {NewUserPlan(r.user, r.plan, TRUE)}, {}) /\ JobsOk'
              /\ job[Cron].pc = "idle"
<1>1. PICK r \in (IF run.item = {} THEN run.todo ELSE run.item) :
        UNCHANGED job \/ ReadPlan(Cron, r.user, r.plan, TRUE)
  BY DEF Renew
<1>2. r \in UserBillPlan /\ r.user \in User /\ r.plan \in Plan
  BY <1>1 DEF RunOk, UserBillPlan
<1>3. job[Cron].pc = "idle" /\ Cron \in Worker
  BY DEF Renew, Worker
<1>4. CASE ReadPlan(Cron, r.user, r.plan, TRUE)
  <2>1. GoesOn(Cron, "read", {NewUserPlan(r.user, r.plan, TRUE)}, {}) /\ JobsOk'
    BY <1>2, <1>3, <1>4, ReadPlanGoesOn
  <2> QED
    BY <1>2, <1>3, <2>1
<1> QED
  BY <1>1, <1>4

LEMMA SwitchGoesOn ==
  ASSUME JobsOk, TablesOk, NEW c \in Switches, NEW u \in User, UpdateRenew(c.call, u, c.auto)
  PROVE  /\ c.call \in Worker /\ job[c.call].pc = "idle" /\ JobsOk'
         /\ \E r \in First(u) : \E s \in UserBillPlan :
              /\ GoesOn(c.call, "switch", {s}, {})
              /\ s.id = r.id /\ s.user = r.user /\ s.plan = r.plan /\ s.expire = r.expire
<1> DEFINE w == c.call
<1>1. w \in Worker /\ c.auto \in BOOLEAN
  BY PlanAssumption DEF Worker
<1>2. PICK r \in First(u) :
        job' = [job EXCEPT ![w] =
          [NoJob EXCEPT !.pc = "switch", !.new = {[r EXCEPT !.auto = c.auto]}]]
  BY DEF UpdateRenew
<1>3. r \in UserBillPlan
  BY <1>2 DEF First, RowsOf, TablesOk
<1> DEFINE s == [r EXCEPT !.auto = c.auto]
<1>4. /\ s \in UserBillPlan
      /\ s.id = r.id /\ s.user = r.user /\ s.plan = r.plan /\ s.expire = r.expire
  BY <1>1, <1>3 DEF UserBillPlan
<1> HIDE DEF s
<1> DEFINE j == [pc |-> "switch", new |-> {s}, seen |-> 0, raise |-> {}, value |-> Default]
<1>5. [NoJob EXCEPT !.pc = "switch", !.new = {s}] = j
  BY NoJobFieldsSet
<1>6. job' = [job EXCEPT ![w] = [NoJob EXCEPT !.pc = "switch", !.new = {s}]]
  BY <1>2 DEF s
<1>7. job' = [job EXCEPT ![w] = j]
  <2> HIDE DEF j
  <2> QED
    BY <1>5, <1>6
<1>8. GoesOn(w, "switch", {s}, {}) /\ JobsOk'
  <2>1. job' = Put(w, "switch", {s}, 0, {}, Default)
    BY <1>7 DEF Put
  <2>2. {s} \in SUBSET UserBillPlan
    BY <1>4
  <2> HIDE DEF w
  <2> QED
    BY <1>1, <2>1, <2>2, PlanAssumption, JobGoesOn DEF JobStep
<1>9. job[w].pc = "idle"
  BY DEF UpdateRenew
<1> QED
  BY <1>1, <1>2, <1>4, <1>8, <1>9

LEMMA RaiseTyped ==
  ASSUME TablesOk, NEW u \in User, NEW p \in Plan, NEW left \in Nat
  PROVE  /\ Raise(u, p, left) \subseteq [old : Quota, count : Nat, next : Nat]
         /\ \A q \in Raise(u, p, left) : q.count = Count[p]
         /\ Raise(u, p, left) = {} => left >= Count[p]
<1> DEFINE next == NextRefreshQuotaTime(RefreshQuotaSchedule[p], today)
<1>1. Count[p] \in Nat /\ quota[u] \in Quota
  BY PlanAssumption DEF TablesOk
<1>2. next \in Nat
  BY PlanAssumption, DatesTyped DEF TablesOk
<1> HIDE DEF next
<1>3. CASE left >= Count[p]
  <2>1. Raise(u, p, left) = {}
    BY <1>3 DEF Raise
  <2> QED
    BY <1>3, <2>1
<1>4. CASE ~(left >= Count[p])
  <2> DEFINE q == [old |-> quota[u], count |-> Count[p], next |-> next]
  <2>1. q \in [old : Quota, count : Nat, next : Nat] /\ q.count = Count[p]
    BY <1>1, <1>2
  <2>2. Raise(u, p, left) = {q}
    BY <1>4 DEF Raise, next
  <2> HIDE DEF q
  <2> QED
    BY <2>1, <2>2
<1> QED
  BY <1>3, <1>4

LEMMA SaveGoesOn ==
  ASSUME JobsOk, TablesOk, NEW w \in Worker, SavePlan(w)
  PROVE  /\ job[w].pc = "read" /\ JobsOk'
         /\ \E r \in job[w].new : \E s \in UserBillPlan : \E left \in 0 .. quota[r.user].count :
              /\ r \in UserBillPlan /\ s.user = r.user /\ s.plan = r.plan
              /\ (s = r /\ r.id # 0) \/ (r.id = 0 /\ s.id = lastRowId + 1)
              /\ lastRowId' = Max({lastRowId, s.id})
              /\ GoesOn(w, "saved", {s}, Raise(r.user, r.plan, left))
<1>1. PICK r \in job[w].new : \E left \in 0 .. quota[r.user].count :
       LET new == IF r.id = 0 THEN [r EXCEPT !.id = lastRowId + 1] ELSE r IN
       /\ job' = [job EXCEPT ![w].pc = "saved", ![w].new = {new},
                             ![w].raise = Raise(r.user, r.plan, left)]
       /\ lastRowId' = Max({lastRowId, new.id})
  BY DEF SavePlan
<1> DEFINE s == IF r.id = 0 THEN [r EXCEPT !.id = lastRowId + 1] ELSE r
<1>2. PICK left \in 0 .. quota[r.user].count :
       /\ job' = [job EXCEPT ![w].pc = "saved", ![w].new = {s},
                             ![w].raise = Raise(r.user, r.plan, left)]
       /\ lastRowId' = Max({lastRowId, s.id})
  BY <1>1
<1>3. r \in UserBillPlan
  BY <1>1, JobTyped
<1>4. /\ s \in UserBillPlan /\ s.user = r.user /\ s.plan = r.plan
      /\ (s = r /\ r.id # 0) \/ (r.id = 0 /\ s.id = lastRowId + 1)
  <2>1. CASE r.id = 0
    BY <1>3, <2>1 DEF TablesOk, UserBillPlan
  <2>2. CASE r.id # 0
    <3>1. s = r
      BY <2>2
    <3> HIDE DEF s
    <3> QED
      BY <1>3, <2>2, <3>1
  <2> QED
    BY <2>1, <2>2
<1> HIDE DEF s
<1>5. r.user \in User /\ r.plan \in Plan /\ left \in Nat
  <2>1. r.user \in User /\ r.plan \in Plan
    BY <1>3 DEF UserBillPlan
  <2>2. quota[r.user].count \in Nat
    BY <2>1 DEF TablesOk, Quota
  <2> QED
    BY <1>2, <2>1, <2>2
<1> DEFINE raise == Raise(r.user, r.plan, left)
<1>6. raise \in SUBSET [old : Quota, count : Nat, next : Nat]
  BY <1>5, RaiseTyped
<1>7. job' = WithRow(w, "saved", {s}, raise)
  BY <1>2 DEF WithRow
<1> HIDE DEF raise
<1>8. job' = Put(w, "saved", {s}, job[w].seen, raise, job[w].value)
  BY <1>7, JobFieldsSet
<1>9. GoesOn(w, "saved", {s}, raise) /\ JobsOk'
  <2>1. {s} \in SUBSET UserBillPlan
    BY <1>4
  <2> QED
    BY <1>6, <1>8, <2>1, FieldsTyped, JobGoesOn DEF JobStep
<1>10. job[w].pc = "read"
  BY DEF SavePlan
<1> QED
  BY <1>1, <1>2, <1>3, <1>4, <1>9, <1>10 DEF raise

LEMMA RaiseGoesOn ==
  ASSUME JobsOk, NEW w \in Worker, RaiseQuota(w) \/ HandlerFails(w)
  PROVE  job[w].pc = "saved" /\ GoesOn(w, "raised", job[w].new, {}) /\ JobsOk'
<1>1. job[w].pc = "saved" /\ job' = [job EXCEPT ![w].pc = "raised", ![w].raise = {}]
  BY DEF RaiseQuota, HandlerFails
<1>2. job' = Put(w, "raised", job[w].new, job[w].seen, {}, job[w].value)
  BY <1>1, JobFieldsSet DEF WithRaise
<1>3. GoesOn(w, "raised", job[w].new, {}) /\ JobsOk'
  BY <1>2, FieldsTyped, JobGoesOn DEF JobStep
<1> QED
  BY <1>1, <1>3

LEMMA PayGoesOn ==
  ASSUME JobsOk, NEW w \in Worker, PayPlan(w)
  PROVE  job[w].pc = "raised" /\ GoesOn(w, "paid", job[w].new, {}) /\ JobsOk'
<1>1. /\ job[w].pc = "raised"
      /\ job' = [job EXCEPT ![w] = [NoJob EXCEPT !.pc = "paid", !.new = @ \cup job[w].new]]
  BY DEF PayPlan
<1> DEFINE j == [pc |-> "paid", new |-> job[w].new, seen |-> 0, raise |-> {}, value |-> Default]
<1>2. [NoJob EXCEPT !.pc = "paid", !.new = @ \cup job[w].new] = j
  BY NoJobFieldsSet
<1>3. job' = [job EXCEPT ![w] = j]
  <2> HIDE DEF j
  <2> QED
    BY <1>1, <1>2
<1>5. job' = Put(w, "paid", job[w].new, 0, {}, Default)
  BY <1>3 DEF Put
<1>4. GoesOn(w, "paid", job[w].new, {}) /\ JobsOk'
  BY <1>5, PlanAssumption, FieldsTyped, JobGoesOn DEF JobStep
<1> QED
  BY <1>1, <1>4

LEMMA CopyGoesOn ==
  ASSUME JobsOk, NEW w \in Worker, InHand(w), CopyRead(w),
         \A u \in User : Effective(u) \in Plan
  PROVE  job[w].pc = "paid" /\ GoesOn(w, "copying", job[w].new, job[w].raise) /\ JobsOk'
<1>1. PICK r \in job[w].new :
        job' = [job EXCEPT ![w].pc = "copying", ![w].value = Effective(r.user)]
  BY DEF CopyRead
<1>2. Effective(r.user) \in Plan
  BY <1>1, JobTyped DEF UserBillPlan
<1> DEFINE value == Effective(r.user)
<1>6. job' = WithValue(w, "copying", value)
  BY <1>1 DEF WithValue
<1> HIDE DEF value
<1>3. job' = Put(w, "copying", job[w].new, job[w].seen, job[w].raise, value)
  BY <1>6, JobFieldsSet
<1>4. GoesOn(w, "copying", job[w].new, job[w].raise) /\ JobsOk'
  BY <1>2, <1>3, FieldsTyped, JobGoesOn DEF JobStep, value
<1>5. job[w].pc = "paid"
  BY DEF CopyRead
<1> QED
  BY <1>4, <1>5

LEMMA LetsGo ==
  ASSUME JobsOk, NEW w \in Worker, job' = [job EXCEPT ![w] = NoJob]
  PROVE  GoesOn(w, "idle", {}, {}) /\ JobsOk'
<1>1. job' = Put(w, "idle", {}, 0, {}, Default)
  BY DEF NoJob, Put
<1> QED
  BY <1>1, PlanAssumption, JobGoesOn DEF JobStep
-----------------------------------------------------------------------------
(* The daily run. *)
PutRun(pc, todo, item, tried, plans, found) ==
  [pc |-> pc, todo |-> todo, item |-> item, tried |-> tried, plans |-> plans, found |-> found]
FoundOk(found) ==
  \A u \in DOMAIN found :
    found[u].plan \in Plan /\ found[u].next \in Nat /\ found[u].count = Count[found[u].plan]

LEMMA RunSet ==
  ASSUME NEW pc, NEW todo \in SUBSET UserBillPlan, NEW item \in SUBSET UserBillPlan,
         NEW tried, NEW plans, NEW found, FoundOk(found),
         run' = PutRun(pc, todo, item, tried, plans, found)
  PROVE  RunOk' /\ run'.found = found
<1>1. /\ run'.pc = pc /\ run'.todo = todo /\ run'.item = item /\ run'.tried = tried
      /\ run'.plans = plans /\ run'.found = found
  BY DEF PutRun
<1>2. run' = [pc |-> run'.pc, todo |-> run'.todo, item |-> run'.item, tried |-> run'.tried,
              plans |-> run'.plans, found |-> run'.found]
  BY <1>1 DEF PutRun
<1> QED
  BY <1>1, <1>2 DEF RunOk, FoundOk

LEMMA RunTyped ==
  ASSUME RunOk
  PROVE  /\ run.todo \in SUBSET UserBillPlan /\ run.item \in SUBSET UserBillPlan
         /\ FoundOk(run.found)
  BY DEF RunOk, FoundOk

WithTried(todo, item, tried) == [run EXCEPT !.todo = todo, !.item = item, !.tried = tried]
WithItem(todo, item) == [run EXCEPT !.todo = todo, !.item = item]
WithPlans(pc, plans) == [run EXCEPT !.pc = pc, !.plans = plans]
WithFound(pc, plans, found) == [run EXCEPT !.pc = pc, !.plans = plans, !.found = found]
Fresh(pc, todo) == [NoRun EXCEPT !.pc = pc, !.todo = todo]
Again(pc, plans) == [NoRun EXCEPT !.pc = pc, !.plans = plans]

LEMMA RunFieldsSet ==
  ASSUME RunOk, NEW x, NEW y, NEW z
  PROVE  /\ WithTried(x, y, z) = PutRun(run.pc, x, y, z, run.plans, run.found)
         /\ WithItem(x, y) = PutRun(run.pc, x, y, run.tried, run.plans, run.found)
         /\ WithPlans(x, y) = PutRun(x, run.todo, run.item, run.tried, y, run.found)
         /\ WithFound(x, y, z) = PutRun(x, run.todo, run.item, run.tried, y, z)
<1> DEFINE a == run.pc
           b == run.todo
           c == run.item
           d == run.tried
           e == run.plans
           f == run.found
           r == PutRun(a, b, c, d, e, f)
<1>1. /\ WithTried(x, y, z) = [[[run EXCEPT !.todo = x] EXCEPT !.item = y] EXCEPT !.tried = z]
      /\ WithItem(x, y) = [[run EXCEPT !.todo = x] EXCEPT !.item = y]
      /\ WithPlans(x, y) = [[run EXCEPT !.pc = x] EXCEPT !.plans = y]
      /\ WithFound(x, y, z) = [[[run EXCEPT !.pc = x] EXCEPT !.plans = y] EXCEPT !.found = z]
  BY DEF WithTried, WithItem, WithPlans, WithFound
<1>2. run = r
  BY DEF RunOk, PutRun
<1> HIDE DEF a, b, c, d, e, f
<1>3. [r EXCEPT !.todo = x] = PutRun(a, x, c, d, e, f)
  BY DEF PutRun
<1>4. [PutRun(a, x, c, d, e, f) EXCEPT !.item = y] = PutRun(a, x, y, d, e, f)
  BY DEF PutRun
<1>5. [PutRun(a, x, y, d, e, f) EXCEPT !.tried = z] = PutRun(a, x, y, z, e, f)
  BY DEF PutRun
<1>6. [r EXCEPT !.pc = x] = PutRun(x, b, c, d, e, f)
  BY DEF PutRun
<1>7. [PutRun(x, b, c, d, e, f) EXCEPT !.plans = y] = PutRun(x, b, c, d, y, f)
  BY DEF PutRun
<1>8. [PutRun(x, b, c, d, y, f) EXCEPT !.found = z] = PutRun(x, b, c, d, y, z)
  BY DEF PutRun
<1> HIDE DEF r
<1>9. /\ WithTried(x, y, z) = PutRun(a, x, y, z, e, f)
      /\ WithItem(x, y) = PutRun(a, x, y, d, e, f)
      /\ WithPlans(x, y) = PutRun(x, b, c, d, y, f)
      /\ WithFound(x, y, z) = PutRun(x, b, c, d, y, z)
  BY <1>1, <1>2, <1>3, <1>4, <1>5, <1>6, <1>7, <1>8
<1> QED
  BY <1>9 DEF a, b, c, d, e, f

LEMMA NoRunFieldsSet ==
  ASSUME NEW x, NEW y
  PROVE  /\ NoRun = PutRun("idle", {}, {}, 0, << >>, << >>)
         /\ Fresh(x, y) = PutRun(x, y, {}, 0, << >>, << >>)
         /\ Again(x, y) = PutRun(x, {}, {}, 0, y, << >>)
         /\ FoundOk(<< >>)
<1> DEFINE e == << >>
           r == PutRun("idle", {}, {}, 0, e, e)
           k == PutRun(x, {}, {}, 0, e, e)
<1>1. NoRun = r
  BY DEF NoRun, PutRun
<1>2. /\ Fresh(x, y) = [[NoRun EXCEPT !.pc = x] EXCEPT !.todo = y]
      /\ Again(x, y) = [[NoRun EXCEPT !.pc = x] EXCEPT !.plans = y]
  BY DEF Fresh, Again
<1>3. FoundOk(e)
  BY DEF FoundOk
<1> HIDE DEF e
<1>4. [r EXCEPT !.pc = x] = k
  BY DEF PutRun
<1>5. /\ [k EXCEPT !.todo = y] = PutRun(x, y, {}, 0, e, e)
      /\ [k EXCEPT !.plans = y] = PutRun(x, {}, {}, 0, y, e)
  BY DEF PutRun
<1> HIDE DEF r, k
<1>6. /\ Fresh(x, y) = PutRun(x, y, {}, 0, e, e)
      /\ Again(x, y) = PutRun(x, {}, {}, 0, y, e)
  BY <1>1, <1>2, <1>4, <1>5
<1> QED
  BY <1>1, <1>3, <1>6 DEF e, r

LEMMA NoRunOk ==
  ASSUME run' = NoRun
  PROVE  RunOk'
  BY NoRunFieldsSet, RunSet

LEMMA AttemptOk ==
  ASSUME RunOk, NEW r \in UserBillPlan, NEW done, run' = Attempted(r, done)
  PROVE  RunOk'
<1> DEFINE last == done \/ run.tried + 1 = Tries
           todo == run.todo \ {r}
           item == IF last THEN {} ELSE {r}
           tried == IF last THEN 0 ELSE run.tried + 1
<1>1. run' = WithTried(todo, item, tried)
  BY DEF Attempted, WithTried
<1>2. todo \in SUBSET UserBillPlan /\ item \in SUBSET UserBillPlan
  BY RunTyped
<1> HIDE DEF todo, item, tried
<1>3. run' = PutRun(run.pc, todo, item, tried, run.plans, run.found)
  BY <1>1, RunFieldsSet
<1> QED
  BY <1>2, <1>3, RunTyped, RunSet

LEMMA AfterAttemptOk ==
  ASSUME RunOk, NEW w \in Worker, NEW done, AfterAttempt(w, done)
  PROVE  RunOk'
<1>1. CASE w = Cron
  <2>1. PICK r \in run.item : run' = Attempted(r, done)
    BY <1>1 DEF AfterAttempt
  <2>2. r \in UserBillPlan
    BY <2>1, RunTyped
  <2> QED
    BY <2>1, <2>2, AttemptOk
<1>2. CASE w # Cron
  BY <1>2 DEF AfterAttempt, RunOk
<1> QED
  BY <1>1, <1>2

LEMMA RenewOk ==
  ASSUME RunOk, Renew
  PROVE  RunOk'
<1>1. PICK r \in (IF run.item = {} THEN run.todo ELSE run.item) :
        \/ run' = Attempted(r, FALSE)
        \/ run' = [run EXCEPT !.todo = @ \ {r}, !.item = {r}]
  BY DEF Renew
<1>2. r \in UserBillPlan
  BY <1>1, RunTyped
<1>3. CASE run' = Attempted(r, FALSE)
  BY <1>2, <1>3, AttemptOk
<1>4. CASE run' = [run EXCEPT !.todo = @ \ {r}, !.item = {r}]
  <2> DEFINE todo == run.todo \ {r}
             item == {r}
  <2>1. run' = WithItem(todo, item)
    BY <1>4 DEF WithItem
  <2>2. todo \in SUBSET UserBillPlan /\ item \in SUBSET UserBillPlan
    BY <1>2, RunTyped
  <2> HIDE DEF todo, item
  <2>3. run' = PutRun(run.pc, todo, item, run.tried, run.plans, run.found)
    BY <2>1, RunFieldsSet
  <2> QED
    BY <2>2, <2>3, RunTyped, RunSet
<1> QED
  BY <1>1, <1>3, <1>4

LEMMA StartOk ==
  ASSUME TablesOk, RunStart
  PROVE  RunOk'
<1> DEFINE todo == UNION {NeedRenew(u) : u \in User}
<1>1. run' = Fresh("renew", todo)
  BY DEF RunStart, Fresh
<1>2. todo \in SUBSET UserBillPlan
  BY DEF TablesOk, NeedRenew, LastRow, RowsOf
<1> HIDE DEF todo
<1>3. run' = PutRun("renew", todo, {}, 0, << >>, << >>)
  BY <1>1, NoRunFieldsSet
<1>4. {} \in SUBSET UserBillPlan /\ FoundOk(<< >>)
  BY NoRunFieldsSet
<1> QED
  BY <1>2, <1>3, <1>4, RunSet

LEMMA ResetAllOk ==
  ASSUME RunOk, ResetAllUsersQuotas
  PROVE  RunOk'
<1> DEFINE plans == FindAllUsersEffectivePlan
<1>1. run' = WithPlans("reset", plans)
  BY DEF ResetAllUsersQuotas, WithPlans
<1> HIDE DEF plans
<1>2. run' = PutRun("reset", run.todo, run.item, run.tried, plans, run.found)
  BY <1>1, RunFieldsSet
<1> QED
  BY <1>2, RunTyped, RunSet

LEMMA ResetNextOk ==
  ASSUME NEW left, run' = ResetNext(left)
  PROVE  RunOk'
<1>1. CASE left = << >>
  BY <1>1, NoRunOk DEF ResetNext
<1>2. CASE left # << >>
  <2>1. run' = Again("reset", left)
    BY <1>2 DEF ResetNext, Again
  <2>2. run' = PutRun("reset", {}, {}, 0, left, << >>)
    BY <2>1, NoRunFieldsSet
  <2>3. {} \in SUBSET UserBillPlan /\ FoundOk(<< >>)
    BY NoRunFieldsSet
  <2> QED
    BY <2>2, <2>3, RunSet
<1> QED
  BY <1>1, <1>2

LEMMA ResetFindOk ==
  ASSUME TablesOk, RunOk, NEW p \in Plan, ResetFind(p)
  PROVE  RunOk'
<1> DEFINE users == {u \in DOMAIN run.plans : run.plans[u] = p}
           next == NextRefreshQuotaTime(RefreshQuotaSchedule[p], today)
           matched == {u \in users : TimeHasCome(u, next)}
           left == [u \in DOMAIN run.plans \ users |-> run.plans[u]]
           found == [u \in matched |-> [plan |-> p, count |-> Count[p], next |-> next]]
<1>1. \/ run' = ResetNext(left)
      \/ run' = WithFound("found", left, found)
  BY DEF ResetFind, WithFound
<1>2. next \in Nat
  BY PlanAssumption, DatesTyped DEF TablesOk
<1> HIDE DEF left, next, matched, users
<1>3. FoundOk(found)
  BY <1>2 DEF FoundOk
<1> HIDE DEF found
<1>4. CASE run' = WithFound("found", left, found)
  <2>1. run' = PutRun("found", run.todo, run.item, run.tried, left, found)
    BY <1>4, RunFieldsSet
  <2> QED
    BY <1>3, <2>1, RunTyped, RunSet
<1> QED
  BY <1>1, <1>4, ResetNextOk
-----------------------------------------------------------------------------
(* The plan in effect. *)
LEMMA LastRowExists ==
  ASSUME NEW rows, rows \subseteq UserBillPlan, rows # {}, NEW n \in Nat, \A r \in rows : r.id <= n
  PROVE  LastRow(rows) # {}
<1> DEFINE T == {n - r.id : r \in rows}
           R == {ss \in Nat \X Nat : ss[1] < ss[2]}
<1>1. \A r \in rows : r.id \in Nat
  BY DEF UserBillPlan
<1>2. T \subseteq Nat /\ T # {}
  BY <1>1
<1>3. IsWellFoundedOn(R, Nat)
  BY NatLessThanWellFounded DEF OpToRel
<1>4. \E x \in T : \A y \in T : ~ (<<y, x>> \in R)
  <2> HIDE DEF R, T
  <2> QED
    BY <1>2, <1>3, WFMin
<1>5. PICK x \in T : \A y \in T : ~(y < x)
  BY <1>2, <1>4
<1>6. PICK r \in rows : x = n - r.id
  BY <1>5
<1>7. \A s \in rows : s.id <= r.id
  <2> TAKE s \in rows
  <2>1. n - s.id \in T /\ s.id \in Nat /\ r.id \in Nat
    BY <1>1
  <2>2. ~(n - s.id < n - r.id)
    BY <1>5, <1>6, <2>1
  <2> QED
    BY <2>1, <2>2
<1> QED
  BY <1>7 DEF LastRow

LEMMA EffectiveTyped ==
  ASSUME TablesOk, IdsOk, NEW u \in User
  PROVE  Effective(u) \in Plan
<1> DEFINE rows == InForce(RowsOf(u))
<1>1. rows \subseteq UserBillPlan /\ \A r \in rows : r.id <= lastRowId
  BY DEF InForce, RowsOf, TablesOk, IdsOk
<1>2. CASE rows = {}
  BY <1>2, PlanAssumption DEF Effective
<1>3. CASE rows # {}
  <2>1. LastRow(rows) # {} /\ lastRowId \in Nat
    BY <1>1, <1>3, LastRowExists DEF TablesOk
  <2> DEFINE r == CHOOSE x \in LastRow(rows) : TRUE
  <2>2. r \in UserBillPlan
    BY <1>1, <2>1 DEF LastRow
  <2>3. Effective(u) = r.plan
    BY <1>3 DEF Effective
  <2> QED
    BY <2>2, <2>3 DEF UserBillPlan
<1> QED
  BY <1>2, <1>3

LEMMA NoRowEffective ==
  ASSUME NEW u \in User, RowsOf(u) = {}
  PROVE  Effective(u) = Default
  BY DEF Effective, InForce

LEMMA OneRowEffective ==
  ASSUME TablesOk, NEW u \in User, NEW r, RowsOf(u) = {r}
  PROVE  Effective(u) = IF r.expire > today THEN r.plan ELSE Default
<1>1. CASE r.expire > today
  <2>1. InForce(RowsOf(u)) = {r}
    BY <1>1 DEF InForce
  <2>2. r.id \in Nat
    BY DEF TablesOk, RowsOf, UserBillPlan
  <2>3. LastRow({r}) = {r}
    BY <2>2 DEF LastRow
  <2>4. (CHOOSE x \in {r} : TRUE) = r
    OBVIOUS
  <2> QED
    BY <1>1, <2>1, <2>3, <2>4 DEF Effective
<1>2. CASE ~(r.expire > today)
  <2>1. InForce(RowsOf(u)) = {}
    BY <1>2 DEF InForce
  <2> QED
    BY <1>2, <2>1 DEF Effective
<1> QED
  BY <1>1, <1>2

(* The step that only grants calls or is blamed. *)
LEMMA GrantedTyped ==
  ASSUME HistoryOk, NEW u \in User, NEW n, NEW late
  PROVE  Granted(u, n, late) \in SUBSET Why
  BY DEF Granted, HistoryOk, Why

LEMMA TablesNext ==
  ASSUME TypeOK, IdsOk, [Next]_vars
  PROVE  TablesOk'
<1>1. ASSUME UNCHANGED <<tables, today>> PROVE TablesOk'
  BY <1>1 DEF TypeOK, TablesOk, tables
<1> USE DEF TypeOK
<1>2. ASSUME NEW u \in User, NEW c \in Purchases, BuyBillPlan(c.call, u, c.plan, c.auto)
      PROVE  TablesOk'
  BY <1>1, <1>2 DEF BuyBillPlan
<1>3. ASSUME NEW u \in User, NEW c \in Switches, UpdateRenew(c.call, u, c.auto) PROVE TablesOk'
  BY <1>1, <1>3 DEF UpdateRenew
<1>4. ASSUME RunStart \/ Renew \/ ResetAllUsersQuotas \/ RunFails PROVE TablesOk'
  BY <1>1, <1>4 DEF RunStart, Renew, ResetAllUsersQuotas, RunFails
<1>5. ASSUME NEW p \in Plan, ResetFind(p) PROVE TablesOk'
  BY <1>1, <1>5 DEF ResetFind
<1>6. ASSUME ResetSave PROVE TablesOk'
  <2> DEFINE mine == DOMAIN run.found
             given(u) == [count |-> run.found[u].count, next |-> run.found[u].next]
  <2>1. \A u \in mine : given(u) \in Quota
    <3> TAKE u \in mine
    <3>1. run.found[u].count \in Nat /\ run.found[u].next \in Nat
      BY PlanAssumption DEF RunOk
    <3> QED
      BY <3>1 DEF Quota
  <2>2. quota' = [u \in User |-> IF u \in mine THEN given(u) ELSE quota[u]]
    BY <1>6 DEF ResetSave
  <2> HIDE DEF mine, given
  <2>3. quota' \in [User -> Quota]
    BY <2>1, <2>2 DEF TablesOk
  <2> QED
    BY <1>6, <2>3 DEF ResetSave, TablesOk
<1>7. ASSUME NEW w \in Worker, BuySteps(w) PROVE TablesOk'
  <2>1. CASE SavePlan(w)
    <3>1. PICK s \in UserBillPlan : lastRowId' = Max({lastRowId, s.id})
      BY <2>1, SaveGoesOn
    <3>2. lastRowId' \in Nat
      BY <3>1, GreaterOf DEF TablesOk, UserBillPlan
    <3> QED
      BY <2>1, <3>2 DEF SavePlan, TablesOk
  <2>2. CASE RaiseQuota(w)
    <3>1. PICK r \in job[w].new :
            \/ UNCHANGED quota
            \/ \E q \in job[w].raise :
                 quota' = [quota EXCEPT ![r.user] =
                            [count |-> Max({@.count, q.count}), next |-> q.next]]
      BY <2>2 DEF RaiseQuota
    <3>2. quota' \in [User -> Quota]
      <4>1. CASE UNCHANGED quota
        BY <4>1 DEF TablesOk
      <4>2. CASE ~UNCHANGED quota
        <5>1. PICK q \in job[w].raise :
                quota' = [quota EXCEPT ![r.user] =
                           [count |-> Max({@.count, q.count}), next |-> q.next]]
          BY <3>1, <4>2
        <5>2. q.count \in Nat /\ q.next \in Nat /\ r.user \in User
          BY <5>1, JobTyped DEF UserBillPlan
        <5>3. quota[r.user].count \in Nat
          BY <5>2 DEF TablesOk, Quota
        <5> DEFINE n == Max({quota[r.user].count, q.count})
        <5>4. n \in Nat
          BY <5>2, <5>3, GreaterOf
        <5>5. quota' = [quota EXCEPT ![r.user] = [count |-> n, next |-> q.next]]
          BY <5>1
        <5> HIDE DEF n
        <5>6. [count |-> n, next |-> q.next] \in Quota
          BY <5>2, <5>4 DEF Quota
        <5> QED
          BY <5>5, <5>6 DEF TablesOk
      <4> QED
        BY <4>1, <4>2
    <3> QED
      BY <2>2, <3>2 DEF RaiseQuota, TablesOk
  <2>3. CASE PayPlan(w)
    <3>1. PICK r \in job[w].new :
            /\ Pays(job[w].seen, r.plan)
            /\ userPlans' = {s \in userPlans : s.id # r.id} \cup {r}
            /\ balance' = [balance EXCEPT ![r.user] = job[w].seen - Price[r.plan]]
      BY <2>3 DEF PayPlan
    <3>2. r \in UserBillPlan /\ r.plan \in Plan /\ job[w].seen \in Nat
      BY <3>1, JobTyped DEF UserBillPlan
    <3>3. job[w].seen - Price[r.plan] \in Nat
      <4>1. Price[r.plan] \in Nat /\ Price[r.plan] <= job[w].seen
        BY <3>1, <3>2, PlanAssumption DEF Pays
      <4> QED
        BY <3>2, <4>1
    <3>4. balance' \in [User -> Nat]
      BY <3>1, <3>3 DEF TablesOk
    <3>5. userPlans' \subseteq UserBillPlan
      BY <3>1, <3>2 DEF TablesOk
    <3> QED
      BY <2>3, <3>4, <3>5 DEF PayPlan, TablesOk
  <2>4. CASE Insufficient(w)
    BY <1>1, <2>4 DEF Insufficient, Rollback
  <2>5. CASE CopyRead(w)
    BY <1>1, <2>5 DEF CopyRead
  <2>6. CASE CopyToRedis(w)
    <3>1. redisPlan' \in [User -> Plan]
      BY <2>6, JobTyped DEF CopyToRedis, SetKeys, TablesOk
    <3> QED
      BY <2>6, <3>1 DEF CopyToRedis, TablesOk
  <2>7. CASE SaveRenew(w)
    <3>1. userPlans' \subseteq UserBillPlan
      BY <2>7, JobTyped DEF SaveRenew, TablesOk
    <3> QED
      BY <2>7, <3>1 DEF SaveRenew, TablesOk
  <2> QED
    BY <1>7, <2>1, <2>2, <2>3, <2>4, <2>5, <2>6, <2>7 DEF BuySteps
<1>8. CASE NextDay
  BY <1>8 DEF NextDay, TablesOk, tables
<1>9. CASE Crash
  <2>1. redisPlan' \in [User -> Plan]
    BY <1>9, EffectiveTyped DEF Crash, FindAllUsersEffectivePlan
  <2> QED
    BY <1>9, <2>1 DEF Crash, TablesOk
<1>10. ASSUME NEW w \in Worker, BuyFails(w) \/ HandlerFails(w) \/ CopyFails(w) PROVE TablesOk'
  BY <1>1, <1>10 DEF BuyFails, HandlerFails, CopyFails, Rollback
<1>11. CASE UNCHANGED vars
  BY <1>1, <1>11 DEF vars
<1> QED
  BY <1>2, <1>3, <1>4, <1>5, <1>6, <1>7, <1>8, <1>9, <1>10, <1>11
     DEF Next, RunSteps, CallSteps, Worker

LEMMA JobsNext ==
  ASSUME TypeOK, IdsOk, [Next]_vars
  PROVE  JobsOk'
<1>1. ASSUME UNCHANGED job PROVE JobsOk'
  BY <1>1 DEF TypeOK, JobsOk
<1> USE DEF TypeOK
<1>2. ASSUME NEW u \in User, NEW c \in Purchases, BuyBillPlan(c.call, u, c.plan, c.auto)
      PROVE  JobsOk'
  BY <1>2, BuyGoesOn
<1>3. ASSUME NEW u \in User, NEW c \in Switches, UpdateRenew(c.call, u, c.auto) PROVE JobsOk'
  BY <1>3, SwitchGoesOn
<1>4. ASSUME RunStart \/ ResetAllUsersQuotas \/ RunFails \/ ResetSave \/ NextDay PROVE JobsOk'
  BY <1>1, <1>4 DEF RunStart, ResetAllUsersQuotas, RunFails, ResetSave, NextDay
<1>5. ASSUME NEW p \in Plan, ResetFind(p) PROVE JobsOk'
  BY <1>1, <1>5 DEF ResetFind
<1>6. CASE Renew
  BY <1>1, <1>6, RenewGoesOn
<1>7. ASSUME NEW w \in Worker, BuySteps(w) PROVE JobsOk'
  <2>1. CASE SavePlan(w)
    BY <2>1, SaveGoesOn
  <2>2. CASE RaiseQuota(w)
    BY <2>2, RaiseGoesOn
  <2>3. CASE PayPlan(w)
    BY <2>3, PayGoesOn
  <2>4. CASE Insufficient(w) \/ CopyToRedis(w) \/ SaveRenew(w)
    <3>1. job' = [job EXCEPT ![w] = NoJob]
      BY <2>4 DEF Insufficient, Rollback, CopyToRedis, SaveRenew
    <3> QED
      BY <3>1, LetsGo
  <2>5. CASE CopyRead(w)
    <3>1. InHand(w) /\ \A u \in User : Effective(u) \in Plan
      BY EffectiveTyped DEF IdsOk
    <3> QED
      BY <2>5, <3>1, CopyGoesOn
  <2> QED
    BY <1>7, <2>1, <2>2, <2>3, <2>4, <2>5 DEF BuySteps
<1>8. CASE Crash
  BY <1>8, NoJobTyped DEF Crash, JobsOk
<1>9. ASSUME NEW w \in Worker, BuyFails(w) \/ HandlerFails(w) \/ CopyFails(w) PROVE JobsOk'
  <2>1. CASE HandlerFails(w)
    BY <2>1, RaiseGoesOn
  <2>2. CASE BuyFails(w) \/ CopyFails(w)
    <3>1. job' = [job EXCEPT ![w] = NoJob]
      BY <2>2 DEF BuyFails, Rollback, CopyFails
    <3> QED
      BY <3>1, LetsGo
  <2> QED
    BY <1>9, <2>1, <2>2
<1>10. CASE UNCHANGED vars
  BY <1>1, <1>10 DEF vars
<1> QED
  BY <1>2, <1>3, <1>4, <1>5, <1>6, <1>7, <1>8, <1>9, <1>10
     DEF Next, RunSteps, CallSteps, Worker

LEMMA RunNext ==
  ASSUME TypeOK, [Next]_vars
  PROVE  RunOk'
<1>1. ASSUME UNCHANGED run PROVE RunOk'
  BY <1>1 DEF TypeOK, RunOk
<1> USE DEF TypeOK
<1>2. ASSUME NEW u \in User, NEW c \in Purchases, BuyBillPlan(c.call, u, c.plan, c.auto)
      PROVE  RunOk'
  BY <1>1, <1>2 DEF BuyBillPlan
<1>3. ASSUME NEW u \in User, NEW c \in Switches, UpdateRenew(c.call, u, c.auto) PROVE RunOk'
  BY <1>1, <1>3 DEF UpdateRenew
<1>4. CASE RunStart \/ Renew \/ ResetAllUsersQuotas \/ NextDay
  <2>1. CASE RunStart
    BY <2>1, StartOk
  <2>2. CASE Renew
    BY <2>2, RenewOk
  <2>3. CASE ResetAllUsersQuotas
    BY <2>3, ResetAllOk
  <2>4. CASE NextDay
    BY <1>1, <2>4 DEF NextDay
  <2> QED
    BY <1>4, <2>1, <2>2, <2>3, <2>4
<1>5. ASSUME NEW p \in Plan, ResetFind(p) PROVE RunOk'
  BY <1>5, ResetFindOk
<1>6. CASE ResetSave
  BY <1>6, ResetNextOk DEF ResetSave
<1>7. CASE RunFails \/ Crash
  BY <1>7, NoRunOk DEF RunFails, Crash
<1>8. ASSUME NEW w \in Worker, BuySteps(w) PROVE RunOk'
  <2>1. CASE PayPlan(w)
    BY <2>1, AfterAttemptOk DEF PayPlan
  <2>2. CASE Insufficient(w)
    BY <2>2, AfterAttemptOk DEF Insufficient, Rollback
  <2>3. CASE SavePlan(w) \/ RaiseQuota(w) \/ CopyRead(w) \/ CopyToRedis(w) \/ SaveRenew(w)
    BY <1>1, <2>3 DEF SavePlan, RaiseQuota, CopyRead, CopyToRedis, SaveRenew
  <2> QED
    BY <1>8, <2>1, <2>2, <2>3 DEF BuySteps
<1>9. ASSUME NEW w \in Worker, BuyFails(w) \/ HandlerFails(w) \/ CopyFails(w) PROVE RunOk'
  <2>1. CASE BuyFails(w)
    BY <2>1, AfterAttemptOk DEF BuyFails, Rollback
  <2>2. CASE HandlerFails(w) \/ CopyFails(w)
    BY <1>1, <2>2 DEF HandlerFails, CopyFails
  <2> QED
    BY <1>9, <2>1, <2>2
<1>10. CASE UNCHANGED vars
  BY <1>1, <1>10 DEF vars
<1> QED
  BY <1>2, <1>3, <1>4, <1>5, <1>6, <1>7, <1>8, <1>9, <1>10
     DEF Next, RunSteps, CallSteps, Worker

(* The blame of one user changes. *)
LEMMA BlameTyped ==
  ASSUME HistoryOk, UNCHANGED bought, NEW u \in User, NEW why \in SUBSET Why,
         astray' = [astray EXCEPT ![u] = why]
  PROVE  HistoryOk'
  BY DEF HistoryOk

LEMMA HistoryNext ==
  ASSUME TypeOK, [Next]_vars
  PROVE  HistoryOk'
<1>1. ASSUME UNCHANGED history PROVE HistoryOk'
  BY <1>1 DEF TypeOK, HistoryOk, history
<1> USE DEF TypeOK
<1>2. ASSUME NEW u \in User, NEW c \in Purchases, BuyBillPlan(c.call, u, c.plan, c.auto)
      PROVE  HistoryOk'
  BY <1>1, <1>2 DEF BuyBillPlan
<1>3. ASSUME NEW u \in User, NEW c \in Switches, UpdateRenew(c.call, u, c.auto) PROVE HistoryOk'
  BY <1>1, <1>3 DEF UpdateRenew
<1>4. CASE RunStart \/ Renew \/ ResetAllUsersQuotas \/ NextDay \/ RunFails
  BY <1>1, <1>4 DEF RunStart, Renew, ResetAllUsersQuotas, NextDay, RunFails
<1>5. ASSUME NEW p \in Plan, ResetFind(p) PROVE HistoryOk'
  BY <1>1, <1>5 DEF ResetFind
<1>6. CASE ResetSave
  <2>1. astray' \in [User -> SUBSET Why]
    BY <1>6, GrantedTyped DEF ResetSave, HistoryOk
  <2> QED
    BY <1>6, <2>1 DEF ResetSave, HistoryOk
<1>7. CASE Crash
  <2>1. astray' \in [User -> SUBSET Why]
    BY <1>7 DEF Crash, HistoryOk
  <2> QED
    BY <1>7, <2>1 DEF Crash, HistoryOk
<1>8. ASSUME NEW w \in Worker, BuySteps(w) PROVE HistoryOk'
  <2>1. CASE SavePlan(w) \/ Insufficient(w) \/ CopyRead(w)
    BY <1>1, <2>1 DEF SavePlan, Insufficient, CopyRead, Rollback
  <2>2. CASE RaiseQuota(w)
    <3>1. PICK r \in job[w].new :
            \/ UNCHANGED astray
            \/ \E n, late : astray' = [astray EXCEPT ![r.user] = Granted(r.user, n, late)]
      <4>1. PICK r \in job[w].new :
              IF job[w].raise = {} THEN UNCHANGED <<quota, astray>>
              ELSE \E q \in job[w].raise : astray' = [astray EXCEPT ![r.user] =
                     Granted(r.user, q.count, Buying(r.user) # {w} \/ q.old # quota[r.user])]
        BY <2>2 DEF RaiseQuota
      <4>2. CASE job[w].raise = {}
        BY <4>1, <4>2
      <4>3. CASE job[w].raise # {}
        <5>1. PICK q \in job[w].raise : astray' = [astray EXCEPT ![r.user] =
                Granted(r.user, q.count, Buying(r.user) # {w} \/ q.old # quota[r.user])]
          BY <4>1, <4>3
        <5> DEFINE late == Buying(r.user) # {w} \/ q.old # quota[r.user]
        <5>2. astray' = [astray EXCEPT ![r.user] = Granted(r.user, q.count, late)]
          BY <5>1
        <5> HIDE DEF late
        <5> QED
          BY <5>2
      <4> QED
        BY <4>2, <4>3
    <3>2. UNCHANGED bought /\ r.user \in User
      BY <2>2, JobTyped DEF RaiseQuota, UserBillPlan
    <3>3. CASE UNCHANGED astray
      BY <3>2, <3>3 DEF HistoryOk
    <3>4. CASE ~UNCHANGED astray
      <4>1. PICK n, late : astray' = [astray EXCEPT ![r.user] = Granted(r.user, n, late)]
        BY <3>1, <3>4
      <4>2. Granted(r.user, n, late) \in SUBSET Why
        BY <3>2, GrantedTyped
      <4> QED
        BY <3>2, <4>1, <4>2, BlameTyped
    <3> QED
      BY <3>3, <3>4
  <2>3. CASE PayPlan(w)
    <3>1. PICK r \in job[w].new :
            /\ bought' = IF Overtaken(w) THEN bought
                         ELSE [bought EXCEPT ![r.user] = [plan |-> r.plan, expire |-> r.expire,
                                                          plans |-> @.plans \cup {r.plan}]]
            /\ \E twins, late \in SUBSET Why :
                 astray' = [astray EXCEPT ![r.user] =
                   (@ \ {"overwritten", "overtaken"}) \cup twins \cup late]
      <4>1. {} \in SUBSET Why /\ {"twins"} \in SUBSET Why /\ {"overtaken"} \in SUBSET Why
        BY DEF Why
      <4>2. PICK r \in job[w].new :
              LET twins == RowsOf(r.user) # {} /\ \A s \in RowsOf(r.user) : s.id # r.id IN
              /\ bought' = IF Overtaken(w) THEN bought
                           ELSE [bought EXCEPT ![r.user] = [plan |-> r.plan, expire |-> r.expire,
                                                            plans |-> @.plans \cup {r.plan}]]
              /\ astray' = [astray EXCEPT ![r.user] =
                   (@ \ {"overwritten", "overtaken"}) \cup (IF twins THEN {"twins"} ELSE {})
                     \cup (IF Overtaken(w) THEN {"overtaken"} ELSE {})]
        BY <2>3 DEF PayPlan
      <4> DEFINE met == RowsOf(r.user) # {} /\ \A s \in RowsOf(r.user) : s.id # r.id
                 twins == IF met THEN {"twins"} ELSE {}
                 late == IF Overtaken(w) THEN {"overtaken"} ELSE {}
      <4>3. astray' = [astray EXCEPT ![r.user] =
              (@ \ {"overwritten", "overtaken"}) \cup twins \cup late]
        BY <4>2
      <4>4. twins \in SUBSET Why /\ late \in SUBSET Why
        BY <4>1
      <4> HIDE DEF met, twins, late
      <4> QED
        BY <4>2, <4>3, <4>4
    <3>2. r.user \in User /\ r.plan \in Plan /\ r.expire \in Nat
      BY <3>1, JobTyped DEF UserBillPlan
    <3> DEFINE plans == bought[r.user].plans \cup {r.plan}
               mine == [plan |-> r.plan, expire |-> r.expire, plans |-> plans]
    <3>3. mine \in [plan : Plan, expire : Nat, plans : SUBSET Plan]
      BY <3>2 DEF HistoryOk
    <3>4. bought' \in [User -> [plan : Plan, expire : Nat, plans : SUBSET Plan]]
      <4>1. bought' = bought \/ bought' = [bought EXCEPT ![r.user] = mine]
        BY <3>1
      <4> HIDE DEF mine
      <4> QED
        BY <3>3, <4>1 DEF HistoryOk
    <3>5. astray' \in [User -> SUBSET Why]
      BY <3>1 DEF HistoryOk
    <3> QED
      BY <3>4, <3>5 DEF HistoryOk
  <2>4. CASE CopyToRedis(w)
    <3>1. PICK r \in job[w].new : \E why \in SUBSET Why : astray' = [astray EXCEPT ![r.user] = why]
      <4>1. PICK r \in job[w].new :
              astray' = [astray EXCEPT ![r.user] =
                IF job[w].value = Effective(r.user) THEN @ \ {"redis"} ELSE @ \cup {"redis"}]
        BY <2>4 DEF CopyToRedis
      <4>2. r.user \in User
        BY JobTyped DEF UserBillPlan
      <4> DEFINE why == IF job[w].value = Effective(r.user)
                        THEN astray[r.user] \ {"redis"} ELSE astray[r.user] \cup {"redis"}
      <4>3. why \in SUBSET Why
        BY <4>2 DEF HistoryOk, Why
      <4>4. astray' = [astray EXCEPT ![r.user] = why]
        BY <4>1
      <4> HIDE DEF why
      <4> QED
        BY <4>3, <4>4
    <3>2. UNCHANGED bought /\ r.user \in User
      BY <2>4, JobTyped DEF CopyToRedis, UserBillPlan
    <3> QED
      BY <3>1, <3>2, BlameTyped
  <2>5. CASE SaveRenew(w)
    <3>1. UNCHANGED astray \/ \E r \in job[w].new : astray' = Blame(r.user, {"overwritten"})
      BY <2>5 DEF SaveRenew
    <3>2. astray' \in [User -> SUBSET Why]
      BY <3>1 DEF HistoryOk, Why, Blame
    <3> QED
      BY <2>5, <3>2 DEF SaveRenew, HistoryOk
  <2> QED
    BY <1>8, <2>1, <2>2, <2>3, <2>4, <2>5 DEF BuySteps
<1>9. ASSUME NEW w \in Worker, BuyFails(w) \/ HandlerFails(w) \/ CopyFails(w) PROVE HistoryOk'
  <2>1. CASE BuyFails(w)
    BY <1>1, <2>1 DEF BuyFails, Rollback
  <2>2. CASE HandlerFails(w) \/ CopyFails(w)
    <3>1. \E u, why : why \in SUBSET Why /\ astray' = Blame(u, why)
      BY <2>2 DEF HandlerFails, CopyFails, Why
    <3>2. astray' \in [User -> SUBSET Why]
      BY <3>1 DEF HistoryOk, Blame
    <3> QED
      BY <2>2, <3>2 DEF HandlerFails, CopyFails, HistoryOk
  <2> QED
    BY <1>9, <2>1, <2>2
<1>10. CASE UNCHANGED vars
  BY <1>1, <1>10 DEF vars
<1> QED
  BY <1>2, <1>3, <1>4, <1>5, <1>6, <1>7, <1>8, <1>9, <1>10
     DEF Next, RunSteps, CallSteps, Worker

LEMMA TypeNext ==
  ASSUME TypeOK, IdsOk, [Next]_vars
  PROVE  TypeOK'
  BY TablesNext, JobsNext, RunNext, HistoryNext DEF TypeOK

LEMMA InitType == Init => TypeOK /\ IdsOk
<1> SUFFICES ASSUME Init PROVE TypeOK /\ IdsOk
  OBVIOUS
<1>1. quota \in [User -> Quota]
  BY PlanAssumption DEF Init, Quota
<1>2. balance \in [User -> Nat] /\ redisPlan \in [User -> Plan]
  BY PlanAssumption DEF Init
<1>3. TablesOk
  BY <1>1, <1>2 DEF Init, TablesOk
<1>4. JobsOk
  BY NoJobTyped DEF Init, JobsOk
<1>5. RunOk
  <2>1. run = PutRun("idle", {}, {}, 0, << >>, << >>) /\ FoundOk(<< >>)
    BY NoRunFieldsSet DEF Init
  <2>2. /\ run.pc = "idle" /\ run.todo = {} /\ run.item = {} /\ run.tried = 0
        /\ run.plans = << >> /\ run.found = << >>
    BY <2>1 DEF PutRun
  <2>3. run = [pc |-> run.pc, todo |-> run.todo, item |-> run.item, tried |-> run.tried,
               plans |-> run.plans, found |-> run.found]
    BY <2>1, <2>2 DEF PutRun
  <2> QED
    BY <2>1, <2>2, <2>3 DEF RunOk, FoundOk
<1>6. HistoryOk
  <2>1. NoPurchase \in [plan : Plan, expire : Nat, plans : SUBSET Plan]
    BY PlanAssumption DEF NoPurchase
  <2> QED
    BY <2>1 DEF Init, HistoryOk
<1>7. \A w \in Worker : job[w].pc = "idle" /\ job[w].new = {}
  BY NoJobTyped DEF Init, NoneInHand
<1>8. IdsOk
  BY <1>7 DEF Init, IdsOk, InHand
<1> QED
  BY <1>3, <1>4, <1>5, <1>6, <1>8 DEF TypeOK
-----------------------------------------------------------------------------
(* No row, and no row in hand, with the id of r is another user's. *)
Owned(r) ==
  /\ \A s \in userPlans : s.id = r.id => s.user = r.user
  /\ \A v \in Worker : \A s \in job[v].new : 0 < s.id /\ s.id = r.id => s.user = r.user

(* A step makes the rows of R, or none, and forgets others. *)
LEMMA IdsStep ==
  ASSUME TypeOK, TypeOK', IdsOk, NEW R, R \subseteq UserBillPlan, \A r, s \in R : r = s,
         \A r \in R : Owned(r) /\ r.id <= lastRowId',
         lastRowId <= lastRowId', userPlans' \subseteq userPlans \cup R,
         \A r \in R \cap userPlans' : 0 < r.id /\ \A s \in userPlans' : s.id = r.id => s = r,
         \A w \in Worker : \A r \in job'[w].new :
           /\ r \in job[w].new \cup R
           /\ job'[w].pc # "read" => 0 < r.id,
         \A w \in Worker : InHand(w)'
  PROVE  IdsOk'
<1> USE DEF TypeOK
<1>1. \A r \in userPlans' : 0 < r.id /\ r.id <= lastRowId'
  <2> SUFFICES ASSUME NEW r \in userPlans' PROVE 0 < r.id /\ r.id <= lastRowId'
    OBVIOUS
  <2>1. CASE r \in R
    BY <2>1
  <2>2. CASE r \in userPlans
    BY <2>2 DEF IdsOk, TablesOk, UserBillPlan
  <2> QED
    BY <2>1, <2>2
<1>2. \A r, s \in userPlans' : r.id = s.id => r = s
  BY DEF IdsOk
<1>3. ASSUME NEW w \in Worker, NEW r \in job'[w].new
      PROVE  /\ r.id <= lastRowId' /\ (job'[w].pc # "read" => 0 < r.id)
             /\ \A s \in userPlans' : s.id = r.id => s.user = r.user
             /\ \A v \in Worker : \A s \in job'[v].new : 0 < s.id /\ s.id = r.id => s.user = r.user
  <2>1. r.id <= lastRowId'
    <3>1. CASE r \in R
      BY <3>1
    <3>2. CASE r \in job[w].new
      <4>1. r.id <= lastRowId /\ r.id \in Nat
        BY <3>2, JobTyped DEF IdsOk, UserBillPlan
      <4> QED
        BY <4>1 DEF TablesOk
    <3> QED
      BY <1>3, <3>1, <3>2
  <2>2. ASSUME NEW s \in userPlans', s.id = r.id PROVE s.user = r.user
    <3>1. 0 < s.id
      BY <1>1
    <3>2. CASE r \in R /\ s \in R
      BY <3>2
    <3>3. CASE r \in R /\ s \notin R
      BY <2>2, <3>3 DEF Owned
    <3>4. CASE r \notin R /\ s \in R
      BY <1>3, <2>2, <3>1, <3>4 DEF Owned
    <3>5. CASE r \notin R /\ s \notin R
      BY <1>3, <2>2, <3>5 DEF IdsOk
    <3> QED
      BY <3>2, <3>3, <3>4, <3>5
  <2>3. ASSUME NEW v \in Worker, NEW s \in job'[v].new, 0 < s.id, s.id = r.id
        PROVE  s.user = r.user
    <3>2. CASE r \in R /\ s \in R
      BY <3>2
    <3>3. CASE r \in R /\ s \notin R
      BY <2>3, <3>3 DEF Owned
    <3>4. CASE r \notin R /\ s \in R
      BY <1>3, <2>3, <3>4 DEF Owned
    <3>5. CASE r \notin R /\ s \notin R
      BY <1>3, <2>3, <3>5 DEF IdsOk
    <3> QED
      BY <3>2, <3>3, <3>4, <3>5
  <2> QED
    BY <1>3, <2>1, <2>2, <2>3
<1> QED
  BY <1>1, <1>2, <1>3 DEF IdsOk

(* A row, with the id of a row, or without one. *)
LEMMA OwnedRow ==
  ASSUME TypeOK, IdsOk, NEW s, NEW r \in userPlans, s.id = r.id, s.user = r.user
  PROVE  Owned(s) /\ s.id <= lastRowId /\ 0 < s.id
<1>1. \A t \in userPlans : t.id = s.id => t = r
  BY DEF IdsOk
<1>2. ASSUME NEW v \in Worker, NEW t \in job[v].new, 0 < t.id, t.id = s.id
      PROVE  t.user = s.user
  BY <1>2 DEF IdsOk
<1> QED
  BY <1>1, <1>2 DEF Owned, IdsOk

LEMMA OwnedNew ==
  ASSUME TypeOK, IdsOk, NEW s, s.id = 0 \/ s.id = lastRowId + 1
  PROVE  Owned(s)
<1>1. lastRowId \in Nat
  BY DEF TypeOK, TablesOk
<1>2. \A r \in userPlans : r.id # s.id
  BY <1>1 DEF IdsOk, TypeOK, TablesOk, UserBillPlan
<1>3. \A w \in Worker : \A r \in job[w].new : ~(0 < r.id /\ r.id = s.id)
  <2> TAKE w \in Worker
  <2> TAKE r \in job[w].new
  <2>1. r.id \in Nat /\ r.id <= lastRowId
    BY JobTyped DEF IdsOk, TypeOK, UserBillPlan
  <2> QED
    BY <1>1, <2>1
<1> QED
  BY <1>2, <1>3 DEF Owned

LEMMA OwnedInHand ==
  ASSUME IdsOk, NEW w \in Worker, NEW r \in job[w].new, 0 < r.id
  PROVE  Owned(r) /\ r.id <= lastRowId
  BY DEF IdsOk, Owned

(* In hand of who goes on. *)
LEMMA GoesOnInHand ==
  ASSUME IdsOk, NEW w \in Worker, NEW pc, NEW new, NEW raise, GoesOn(w, pc, new, raise),
         IF pc = "idle" THEN new = {} ELSE \E r \in new : new = {r}
  PROVE  \A v \in Worker : InHand(v)'
<1> TAKE v \in Worker
<1>1. CASE v = w
  BY <1>1 DEF GoesOn, InHand
<1>2. CASE v # w
  BY <1>2 DEF GoesOn, InHand, IdsOk
<1> QED
  BY <1>1, <1>2

(* Only goroutine w goes on, with rows that it had in hand: other goroutines do not see it. *)
LEMMA IdsKept ==
  ASSUME TypeOK, TypeOK', IdsOk, UNCHANGED <<userPlans, lastRowId>>,
         NEW w \in Worker, NEW pc, NEW new, NEW raise, GoesOn(w, pc, new, raise),
         \/ (new = {} /\ pc = "idle")
         \/ (new = job[w].new /\ pc # "idle" /\ pc # "read" /\ job[w].pc \notin {"idle", "read"})
  PROVE  IdsOk'
<1>1. \A v \in Worker : InHand(v)'
  <2>1. pc # "idle" => \E r \in new : new = {r}
    BY DEF IdsOk, InHand
  <2> QED
    BY <2>1, GoesOnInHand
<1>2. ASSUME NEW v \in Worker, NEW r \in job'[v].new
      PROVE  r \in job[v].new /\ (job'[v].pc # "read" => 0 < r.id)
  <2>1. CASE v = w
    BY <1>2, <2>1 DEF GoesOn, IdsOk
  <2>2. CASE v # w
    BY <1>2, <2>2 DEF GoesOn, IdsOk
  <2> QED
    BY <2>1, <2>2
<1>3. lastRowId <= lastRowId'
  BY DEF TypeOK, TablesOk
<1> DEFINE R == {}
<1>4. /\ R \subseteq UserBillPlan /\ \A r, s \in R : r = s
      /\ \A r \in R : Owned(r) /\ r.id <= lastRowId'
      /\ userPlans' \subseteq userPlans \cup R
      /\ \A r \in R \cap userPlans' : 0 < r.id /\ \A s \in userPlans' : s.id = r.id => s = r
      /\ \A v \in Worker : \A r \in job'[v].new :
           r \in job[v].new \cup R /\ (job'[v].pc # "read" => 0 < r.id)
  BY <1>2
<1> HIDE DEF R
<1> QED
  BY <1>1, <1>3, <1>4, IdsStep

(* Goroutine w takes row r in hand, and the table of rows does not change. *)
LEMMA IdsTaken ==
  ASSUME TypeOK, TypeOK', IdsOk, UNCHANGED userPlans, lastRowId <= lastRowId',
         NEW w \in Worker, NEW pc, NEW r \in UserBillPlan, NEW raise, GoesOn(w, pc, {r}, raise),
         pc # "idle", Owned(r), r.id <= lastRowId', pc # "read" => 0 < r.id
  PROVE  IdsOk'
<1>1. \A v \in Worker : InHand(v)'
  <2>1. \E s \in {r} : {r} = {s}
    OBVIOUS
  <2> QED
    BY <2>1, GoesOnInHand
<1>2. ASSUME NEW v \in Worker, NEW s \in job'[v].new
      PROVE  s \in job[v].new \cup {r} /\ (job'[v].pc # "read" => 0 < s.id)
  <2>1. CASE v = w
    BY <1>2, <2>1 DEF GoesOn
  <2>2. CASE v # w
    BY <1>2, <2>2 DEF GoesOn, IdsOk
  <2> QED
    BY <2>1, <2>2
<1>3. r \in userPlans => 0 < r.id /\ \A s \in userPlans : s.id = r.id => s = r
  BY DEF IdsOk
<1> DEFINE R == {r}
<1>4. /\ R \subseteq UserBillPlan /\ \A s, t \in R : s = t
      /\ \A s \in R : Owned(s) /\ s.id <= lastRowId'
      /\ userPlans' \subseteq userPlans \cup R
      /\ \A s \in R \cap userPlans' : 0 < s.id /\ \A t \in userPlans' : t.id = s.id => t = s
      /\ \A v \in Worker : \A s \in job'[v].new :
           s \in job[v].new \cup R /\ (job'[v].pc # "read" => 0 < s.id)
  BY <1>2, <1>3
<1> HIDE DEF R
<1> QED
  BY <1>1, <1>4, IdsStep

(* Goroutine w saves the row r that it has in hand, with the id of no other row. *)
LEMMA IdsSaved ==
  ASSUME TypeOK, TypeOK', IdsOk, UNCHANGED lastRowId,
         NEW w \in Worker, NEW pc, NEW new, NEW raise, GoesOn(w, pc, new, raise),
         NEW r \in job[w].new, job[w].pc \notin {"idle", "read"},
         (new = {} /\ pc = "idle") \/ (new = {r} /\ pc # "idle"),
         userPlans' \subseteq userPlans \cup {r},
         \A s \in userPlans' : s.id = r.id => s = r
  PROVE  IdsOk'
<1>1. \A v \in Worker : InHand(v)'
  <2>1. pc # "idle" => \E s \in new : new = {s}
    OBVIOUS
  <2> QED
    BY <2>1, GoesOnInHand
<1>2. 0 < r.id /\ r \in UserBillPlan
  BY JobTyped DEF IdsOk, TypeOK
<1>3. Owned(r) /\ r.id <= lastRowId'
  BY <1>2, OwnedInHand
<1>4. ASSUME NEW v \in Worker, NEW s \in job'[v].new
      PROVE  s \in job[v].new \cup {r} /\ (job'[v].pc # "read" => 0 < s.id)
  <2>1. CASE v = w
    BY <1>2, <1>4, <2>1 DEF GoesOn
  <2>2. CASE v # w
    BY <1>4, <2>2 DEF GoesOn, IdsOk
  <2> QED
    BY <2>1, <2>2
<1>5. lastRowId <= lastRowId'
  BY DEF TypeOK, TablesOk
<1> DEFINE R == {r}
<1>6. /\ R \subseteq UserBillPlan /\ \A s, t \in R : s = t
      /\ \A s \in R : Owned(s) /\ s.id <= lastRowId'
      /\ userPlans' \subseteq userPlans \cup R
      /\ \A s \in R \cap userPlans' : 0 < s.id /\ \A t \in userPlans' : t.id = s.id => t = s
      /\ \A v \in Worker : \A s \in job'[v].new :
           s \in job[v].new \cup R /\ (job'[v].pc # "read" => 0 < s.id)
  BY <1>2, <1>3, <1>4
<1> HIDE DEF R
<1> QED
  BY <1>1, <1>5, <1>6, IdsStep

LEMMA IdsRead ==
  ASSUME TypeOK, TypeOK', IdsOk, UNCHANGED <<userPlans, lastRowId>>,
         NEW w \in Worker, NEW u \in User, NEW p \in Plan, NEW auto \in BOOLEAN,
         GoesOn(w, "read", {NewUserPlan(u, p, auto)}, {})
  PROVE  IdsOk'
<1> DEFINE r == NewUserPlan(u, p, auto)
<1>1. /\ r \in UserBillPlan /\ r.user = u
      /\ r.id = IF First(u) = {} THEN 0 ELSE (CHOOSE s \in First(u) : TRUE).id
  BY NewPlanTyped DEF TypeOK
<1> HIDE DEF r
<1>2. lastRowId \in Nat
  BY DEF TypeOK, TablesOk
<1>3. Owned(r) /\ r.id <= lastRowId
  <2>1. CASE First(u) = {}
    BY <1>1, <1>2, <2>1, OwnedNew
  <2>2. CASE First(u) # {}
    <3>1. PICK s \in First(u) : r.id = s.id
      BY <1>1, <2>2
    <3>2. s \in userPlans /\ s.user = u
      BY DEF First, RowsOf
    <3> QED
      BY <1>1, <3>1, <3>2, OwnedRow
  <2> QED
    BY <2>1, <2>2
<1>4. GoesOn(w, "read", {r}, {})
  BY DEF r
<1>5. lastRowId <= lastRowId'
  BY <1>2
<1> QED
  BY <1>1, <1>3, <1>4, <1>5, IdsTaken

LEMMA IdsNext ==
  ASSUME TypeOK, TypeOK', IdsOk, [Next]_vars
  PROVE  IdsOk'
<1>1. ASSUME UNCHANGED <<userPlans, lastRowId, job>> PROVE IdsOk'
  BY <1>1 DEF IdsOk, InHand
<1> USE DEF TypeOK, tables
<1>2. ASSUME NEW u \in User, NEW c \in Purchases, BuyBillPlan(c.call, u, c.plan, c.auto)
      PROVE  IdsOk'
  <2>1. UNCHANGED <<userPlans, lastRowId>>
    BY <1>2 DEF BuyBillPlan
  <2> QED
    BY <1>2, <2>1, BuyGoesOn, IdsRead
<1>3. ASSUME NEW u \in User, NEW c \in Switches, UpdateRenew(c.call, u, c.auto) PROVE IdsOk'
  <2> DEFINE w == c.call
  <2>1. PICK r \in First(u) : \E s \in UserBillPlan :
          GoesOn(w, "switch", {s}, {}) /\ s.id = r.id /\ s.user = r.user
    BY <1>3, SwitchGoesOn
  <2>2. PICK s \in UserBillPlan : GoesOn(w, "switch", {s}, {}) /\ s.id = r.id /\ s.user = r.user
    BY <2>1
  <2>3. w \in Worker /\ r \in userPlans
    BY <1>3, SwitchGoesOn DEF First, RowsOf
  <2>4. Owned(s) /\ s.id <= lastRowId /\ 0 < s.id
    BY <2>2, <2>3, OwnedRow
  <2>5. UNCHANGED <<userPlans, lastRowId>> /\ lastRowId <= lastRowId'
    BY <1>3 DEF UpdateRenew, TablesOk
  <2> HIDE DEF w
  <2> QED
    BY <2>2, <2>3, <2>4, <2>5, IdsTaken
<1>4. CASE RunStart \/ ResetAllUsersQuotas \/ RunFails \/ ResetSave \/ NextDay
  BY <1>1, <1>4 DEF RunStart, ResetAllUsersQuotas, RunFails, ResetSave, NextDay
<1>5. ASSUME NEW p \in Plan, ResetFind(p) PROVE IdsOk'
  BY <1>1, <1>5 DEF ResetFind
<1>6. CASE Renew
  <2>1. UNCHANGED <<userPlans, lastRowId>>
    BY <1>6 DEF Renew
  <2>2. CASE UNCHANGED job
    BY <1>1, <2>1, <2>2
  <2>3. CASE ~UNCHANGED job
    <3>1. PICK r \in UserBillPlan : GoesOn(Cron, "read", {NewUserPlan(r.user, r.plan, TRUE)}, {})
      BY <1>6, <2>3, RenewGoesOn
    <3>2. r.user \in User /\ r.plan \in Plan /\ Cron \in Worker
      BY DEF UserBillPlan, Worker
    <3> QED
      BY <2>1, <3>1, <3>2, IdsRead
  <2> QED
    BY <2>2, <2>3
<1>7. ASSUME NEW w \in Worker, BuySteps(w) PROVE IdsOk'
  <2>1. CASE SavePlan(w)
    <3>1. PICK r \in job[w].new : \E s \in UserBillPlan : \E left \in 0 .. quota[r.user].count :
            /\ r \in UserBillPlan /\ s.user = r.user /\ s.plan = r.plan
            /\ (s = r /\ r.id # 0) \/ (r.id = 0 /\ s.id = lastRowId + 1)
            /\ lastRowId' = Max({lastRowId, s.id})
            /\ GoesOn(w, "saved", {s}, Raise(r.user, r.plan, left))
      BY <2>1, SaveGoesOn
    <3>2. PICK s \in UserBillPlan : \E raise :
            /\ r \in UserBillPlan /\ s.user = r.user
            /\ (s = r /\ r.id # 0) \/ (r.id = 0 /\ s.id = lastRowId + 1)
            /\ lastRowId' = Max({lastRowId, s.id})
            /\ GoesOn(w, "saved", {s}, raise)
      BY <3>1
    <3>3. lastRowId <= lastRowId' /\ s.id <= lastRowId' /\ lastRowId \in Nat /\ s.id \in Nat
      BY <3>2, GreaterOf DEF TablesOk, UserBillPlan
    <3>4. 0 < s.id /\ Owned(s)
      <4>1. CASE s = r /\ r.id # 0
        <5>1. 0 < r.id
          BY <3>3, <4>1
        <5> QED
          BY <4>1, <5>1, OwnedInHand
      <4>2. CASE r.id = 0 /\ s.id = lastRowId + 1
        BY <3>3, <4>2, OwnedNew
      <4> QED
        BY <3>2, <4>1, <4>2
    <3>5. UNCHANGED userPlans
      BY <2>1 DEF SavePlan
    <3>6. "saved" # "idle"
      OBVIOUS
    <3> QED
      BY <3>2, <3>3, <3>4, <3>5, <3>6, IdsTaken
  <2>2. CASE RaiseQuota(w)
    <3>1. UNCHANGED <<userPlans, lastRowId>>
      BY <2>2 DEF RaiseQuota
    <3>2. job[w].pc = "saved" /\ GoesOn(w, "raised", job[w].new, {})
      BY <2>2, RaiseGoesOn
    <3> QED
      BY <3>1, <3>2, IdsKept
  <2>3. CASE PayPlan(w)
    <3>1. PICK r \in job[w].new : userPlans' = {s \in userPlans : s.id # r.id} \cup {r}
      BY <2>3 DEF PayPlan
    <3>2. job[w].pc = "raised" /\ GoesOn(w, "paid", job[w].new, {})
      BY <2>3, PayGoesOn
    <3>3. job[w].new = {r}
      BY <3>2 DEF IdsOk, InHand
    <3>4. UNCHANGED lastRowId
      BY <2>3 DEF PayPlan
    <3>5. userPlans' \subseteq userPlans \cup {r} /\ \A s \in userPlans' : s.id = r.id => s = r
      BY <3>1
    <3>6. GoesOn(w, "paid", {r}, {}) /\ job[w].pc \notin {"idle", "read"} /\ "paid" # "idle"
      BY <3>2, <3>3
    <3> QED
      BY <3>4, <3>5, <3>6, IdsSaved
  <2>4. CASE Insufficient(w) \/ CopyToRedis(w)
    <3>1. job' = [job EXCEPT ![w] = NoJob] /\ UNCHANGED <<userPlans, lastRowId>>
      BY <2>4 DEF Insufficient, Rollback, CopyToRedis
    <3>2. GoesOn(w, "idle", {}, {})
      BY <3>1, LetsGo
    <3> QED
      BY <3>1, <3>2, IdsKept
  <2>5. CASE CopyRead(w)
    <3>1. InHand(w) /\ \A u \in User : Effective(u) \in Plan
      BY EffectiveTyped DEF IdsOk
    <3>2. job[w].pc = "paid" /\ GoesOn(w, "copying", job[w].new, job[w].raise)
      BY <2>5, <3>1, CopyGoesOn
    <3>3. UNCHANGED <<userPlans, lastRowId>>
      BY <2>5 DEF CopyRead
    <3> QED
      BY <3>2, <3>3, IdsKept
  <2>6. CASE SaveRenew(w)
    <3>1. PICK r \in job[w].new, s \in userPlans :
            s.id = r.id /\ userPlans' = (userPlans \ {s}) \cup {r}
      BY <2>6 DEF SaveRenew
    <3>2. job' = [job EXCEPT ![w] = NoJob] /\ UNCHANGED lastRowId /\ job[w].pc = "switch"
      BY <2>6 DEF SaveRenew
    <3>3. GoesOn(w, "idle", {}, {}) /\ job[w].pc \notin {"idle", "read"}
      BY <3>2, LetsGo
    <3>4. userPlans' \subseteq userPlans \cup {r} /\ \A t \in userPlans' : t.id = r.id => t = r
      BY <3>1 DEF IdsOk
    <3> QED
      BY <3>2, <3>3, <3>4, IdsSaved
  <2> QED
    BY <1>7, <2>1, <2>2, <2>3, <2>4, <2>5, <2>6 DEF BuySteps
<1>8. CASE Crash
  <2>1. \A w \in Worker : job'[w].new = {} /\ job'[w].pc = "idle"
    BY <1>8, NoJobTyped DEF Crash, NoneInHand
  <2>2. UNCHANGED <<userPlans, lastRowId>>
    BY <1>8 DEF Crash
  <2> QED
    BY <2>1, <2>2 DEF IdsOk, InHand
<1>9. ASSUME NEW w \in Worker, BuyFails(w) \/ HandlerFails(w) \/ CopyFails(w) PROVE IdsOk'
  <2>1. UNCHANGED <<userPlans, lastRowId>>
    BY <1>9 DEF BuyFails, Rollback, HandlerFails, CopyFails
  <2>2. CASE HandlerFails(w)
    <3>1. job[w].pc = "saved" /\ GoesOn(w, "raised", job[w].new, {})
      BY <2>2, RaiseGoesOn
    <3> QED
      BY <2>1, <3>1, IdsKept
  <2>3. CASE BuyFails(w) \/ CopyFails(w)
    <3>1. job' = [job EXCEPT ![w] = NoJob]
      BY <2>3 DEF BuyFails, Rollback, CopyFails
    <3>2. GoesOn(w, "idle", {}, {})
      BY <3>1, LetsGo
    <3> QED
      BY <2>1, <3>2, IdsKept
  <2> QED
    BY <1>9, <2>2, <2>3
<1>10. CASE UNCHANGED vars
  BY <1>1, <1>10 DEF vars
<1> QED
  BY <1>2, <1>3, <1>4, <1>5, <1>6, <1>7, <1>8, <1>9, <1>10
     DEF Next, RunSteps, CallSteps, Worker
-----------------------------------------------------------------------------
(* What no user is newly blamed for, nor forgiven. *)
StrayKept(why) == \A u \in User : \A x \in why : x \in astray'[u] <=> x \in astray[u]
Rows == {"twins", "overwritten", "overtaken"}
Quotas == {"stale", "unserved"}

(* Only the steps that give calls blame anyone for them. *)
LEMMA GrantsStray ==
  ASSUME TypeOK, ResetSave \/ \E w \in Worker : RaiseQuota(w) \/ HandlerFails(w)
  PROVE  StrayKept(Rows \cup {"redis"})
<1> USE DEF TypeOK, HistoryOk
<1>1. ASSUME NEW u \in User, NEW n, NEW late, NEW x \in Rows \cup {"redis"}
      PROVE  x \in Granted(u, n, late) <=> x \in astray[u]
  BY DEF Granted, Rows
<1>2. CASE ResetSave
  BY <1>1, <1>2 DEF ResetSave, StrayKept
<1>3. ASSUME NEW w \in Worker, RaiseQuota(w) PROVE StrayKept(Rows \cup {"redis"})
  <2>1. PICK r \in job[w].new :
          IF job[w].raise = {} THEN UNCHANGED <<quota, astray>>
          ELSE \E q \in job[w].raise : astray' = [astray EXCEPT ![r.user] =
                 Granted(r.user, q.count, Buying(r.user) # {w} \/ q.old # quota[r.user])]
    BY <1>3 DEF RaiseQuota
  <2>2. r.user \in User
    BY JobTyped DEF UserBillPlan
  <2>3. CASE job[w].raise = {}
    BY <2>1, <2>3 DEF StrayKept
  <2>4. CASE job[w].raise # {}
    <3>1. PICK q \in job[w].raise : astray' = [astray EXCEPT ![r.user] =
            Granted(r.user, q.count, Buying(r.user) # {w} \/ q.old # quota[r.user])]
      BY <2>1, <2>4
    <3> DEFINE late == Buying(r.user) # {w} \/ q.old # quota[r.user]
    <3>2. astray' = [astray EXCEPT ![r.user] = Granted(r.user, q.count, late)]
      BY <3>1
    <3> HIDE DEF late
    <3> QED
      BY <1>1, <2>2, <3>2 DEF StrayKept
  <2> QED
    BY <2>3, <2>4
<1>4. ASSUME NEW w \in Worker, HandlerFails(w) PROVE StrayKept(Rows \cup {"redis"})
  BY <1>4, JobTyped DEF HandlerFails, Blame, StrayKept, Rows, UserBillPlan
<1> QED
  BY <1>2, <1>3, <1>4

LEMMA CopiesStray ==
  ASSUME TypeOK, Crash \/ \E w \in Worker : CopyToRedis(w) \/ CopyFails(w)
  PROVE  StrayKept(Rows \cup Quotas)
<1> USE DEF TypeOK, HistoryOk, StrayKept, Rows, Quotas
<1>1. CASE Crash
  BY <1>1 DEF Crash
<1>2. ASSUME NEW w \in Worker, CopyToRedis(w) PROVE StrayKept(Rows \cup Quotas)
  <2>1. PICK r \in job[w].new :
              astray' = [astray EXCEPT ![r.user] =
                IF job[w].value = Effective(r.user) THEN @ \ {"redis"} ELSE @ \cup {"redis"}]
    BY <1>2 DEF CopyToRedis
  <2>2. r.user \in User
    BY JobTyped DEF UserBillPlan
  <2> QED
    BY <2>1, <2>2
<1>3. ASSUME NEW w \in Worker, CopyFails(w) PROVE StrayKept(Rows \cup Quotas)
  BY <1>3, JobTyped DEF CopyFails, Blame, UserBillPlan
<1> QED
  BY <1>1, <1>2, <1>3

(* A payment. *)
Twins(r) == RowsOf(r.user) # {} /\ \A s \in RowsOf(r.user) : s.id # r.id

LEMMA PayEffect ==
  ASSUME TypeOK, IdsOk, NEW w \in Worker, PayPlan(w)
  PROVE  \E r \in UserBillPlan :
           /\ job[w].new = {r} /\ 0 < r.id
           /\ userPlans' = {s \in userPlans : s.id # r.id} \cup {r}
           /\ \A u \in User \ {r.user} : bought'[u] = bought[u] /\ astray'[u] = astray[u]
           /\ Twins(r) => "twins" \in astray'[r.user]
           /\ "twins" \in astray[r.user] => "twins" \in astray'[r.user]
           /\ "redis" \in astray[r.user] <=> "redis" \in astray'[r.user]
           /\ StrayKept(Quotas)
           /\ IF Overtaken(w) THEN "overtaken" \in astray'[r.user]
              ELSE bought'[r.user].plan = r.plan /\ bought'[r.user].expire = r.expire
<1> USE DEF TypeOK
<1>1. PICK r \in job[w].new :
        /\ userPlans' = {s \in userPlans : s.id # r.id} \cup {r}
        /\ bought' = IF Overtaken(w) THEN bought
                     ELSE [bought EXCEPT ![r.user] = [plan |-> r.plan, expire |-> r.expire,
                                                      plans |-> @.plans \cup {r.plan}]]
        /\ astray' = [astray EXCEPT ![r.user] =
             (@ \ {"overwritten", "overtaken"}) \cup (IF Twins(r) THEN {"twins"} ELSE {})
               \cup (IF Overtaken(w) THEN {"overtaken"} ELSE {})]
  BY DEF PayPlan, Twins
<1>2. r \in UserBillPlan /\ r.user \in User
  BY JobTyped DEF UserBillPlan
<1>3. job[w].new = {r} /\ 0 < r.id
  BY PayGoesOn DEF IdsOk, InHand
<1>4. /\ \A u \in User \ {r.user} : astray'[u] = astray[u]
      /\ astray'[r.user] = (astray[r.user] \ {"overwritten", "overtaken"})
           \cup (IF Twins(r) THEN {"twins"} ELSE {})
           \cup (IF Overtaken(w) THEN {"overtaken"} ELSE {})
  <2> DEFINE why == (astray[r.user] \ {"overwritten", "overtaken"})
                      \cup (IF Twins(r) THEN {"twins"} ELSE {})
                      \cup (IF Overtaken(w) THEN {"overtaken"} ELSE {})
  <2>1. astray' = [astray EXCEPT ![r.user] = why]
    BY <1>1
  <2> HIDE DEF why
  <2>2. astray'[r.user] = why /\ \A u \in User \ {r.user} : astray'[u] = astray[u]
    BY <1>2, <2>1 DEF HistoryOk
  <2> QED
    BY <2>2 DEF why
<1>5. /\ \A u \in User \ {r.user} : bought'[u] = bought[u]
      /\ ~Overtaken(w) => bought'[r.user].plan = r.plan /\ bought'[r.user].expire = r.expire
  <2>1. CASE Overtaken(w)
    BY <1>1, <2>1
  <2>2. CASE ~Overtaken(w)
    <3> DEFINE plans == bought[r.user].plans \cup {r.plan}
               mine == [plan |-> r.plan, expire |-> r.expire, plans |-> plans]
    <3>1. bought' = [bought EXCEPT ![r.user] = mine]
      BY <1>1, <2>2
    <3>2. mine.plan = r.plan /\ mine.expire = r.expire
      OBVIOUS
    <3> HIDE DEF mine
    <3> QED
      BY <1>2, <3>1, <3>2 DEF HistoryOk
  <2> QED
    BY <2>1, <2>2
<1>6. StrayKept(Quotas)
  BY <1>4 DEF StrayKept, Quotas
<1>7. /\ Twins(r) => "twins" \in astray'[r.user]
      /\ "twins" \in astray[r.user] => "twins" \in astray'[r.user]
      /\ "redis" \in astray[r.user] <=> "redis" \in astray'[r.user]
      /\ Overtaken(w) => "overtaken" \in astray'[r.user]
  BY <1>4
<1> QED
  BY <1>1, <1>2, <1>3, <1>4, <1>5, <1>6, <1>7

(* A switch of the renewal is saved. *)
LEMMA SwitchEffect ==
  ASSUME TypeOK, IdsOk, NEW w \in Worker, SaveRenew(w)
  PROVE  \E r \in UserBillPlan : \E s \in userPlans :
           /\ s.id = r.id /\ s.user = r.user
           /\ userPlans' = (userPlans \ {s}) \cup {r}
           /\ StrayKept(Quotas \cup {"redis", "twins", "overtaken"})
           /\ \A u \in User : "overwritten" \in astray[u] => "overwritten" \in astray'[u]
           /\ "overwritten" \notin astray'[r.user] => s.plan = r.plan /\ s.expire = r.expire
<1> USE DEF TypeOK
<1>1. PICK r \in job[w].new, s \in userPlans :
        /\ s.id = r.id
        /\ userPlans' = (userPlans \ {s}) \cup {r}
        /\ astray' = IF [s EXCEPT !.auto = r.auto] = r THEN astray
                     ELSE Blame(r.user, {"overwritten"})
  BY DEF SaveRenew
<1>2. r \in UserBillPlan /\ r.user \in User /\ s \in UserBillPlan
  BY JobTyped DEF UserBillPlan, TablesOk
<1>3. s.user = r.user
  BY <1>1 DEF IdsOk
<1>4. CASE [s EXCEPT !.auto = r.auto] = r
  <2>1. s.plan = r.plan /\ s.expire = r.expire
    <3> DEFINE t == [s EXCEPT !.auto = r.auto]
    <3>1. t.plan = s.plan /\ t.expire = s.expire
      BY <1>2 DEF UserBillPlan
    <3>2. t = r
      BY <1>4
    <3> HIDE DEF t
    <3> QED
      BY <3>1, <3>2
  <2>2. astray' = astray
    BY <1>1, <1>4
  <2> QED
    BY <1>1, <1>2, <1>3, <2>1, <2>2 DEF StrayKept
<1>5. CASE [s EXCEPT !.auto = r.auto] # r
  <2>1. astray' = Blame(r.user, {"overwritten"})
    BY <1>1, <1>5
  <2>2. "overwritten" \in astray'[r.user]
    BY <1>2, <2>1 DEF Blame, HistoryOk
  <2>3. StrayKept(Quotas \cup {"redis", "twins", "overtaken"})
    BY <1>2, <2>1 DEF Blame, HistoryOk, StrayKept, Quotas
  <2>4. \A u \in User : "overwritten" \in astray[u] => "overwritten" \in astray'[u]
    BY <1>2, <2>1 DEF Blame, HistoryOk
  <2> QED
    BY <1>1, <1>2, <1>3, <2>2, <2>3, <2>4
<1> QED
  BY <1>4, <1>5
-----------------------------------------------------------------------------
(* The rows and the last purchase. *)
LEMMA RowsKept ==
  ASSUME RowsInv, UNCHANGED <<userPlans, bought>>, StrayKept(Rows)
  PROVE  RowsInv'
<1>1. \A u \in User : RowsOf(u)' = RowsOf(u)
  BY DEF RowsOf
<1>2. \A u \in User : Kept(u)' => Kept(u)
  BY DEF Kept, StrayKept, Rows
<1>3. \A u \in User : "twins" \notin astray'[u] => "twins" \notin astray[u]
  BY DEF StrayKept, Rows
<1> QED
  BY <1>1, <1>2, <1>3 DEF RowsInv, OneRow, LastBought

LEMMA RowsPaid ==
  ASSUME TypeOK, IdsOk, RowsInv, NEW w \in Worker, PayPlan(w)
  PROVE  RowsInv'
<1>1. PICK r \in UserBillPlan :
        /\ job[w].new = {r} /\ 0 < r.id
        /\ userPlans' = {s \in userPlans : s.id # r.id} \cup {r}
        /\ \A u \in User \ {r.user} : bought'[u] = bought[u] /\ astray'[u] = astray[u]
        /\ Twins(r) => "twins" \in astray'[r.user]
        /\ "twins" \in astray[r.user] => "twins" \in astray'[r.user]
        /\ IF Overtaken(w) THEN "overtaken" \in astray'[r.user]
           ELSE bought'[r.user].plan = r.plan /\ bought'[r.user].expire = r.expire
  BY PayEffect
<1>2. \A s \in userPlans : s.id = r.id => s.user = r.user
  BY <1>1 DEF IdsOk
<1> SUFFICES ASSUME NEW u \in User PROVE OneRow(u)' /\ LastBought(u)'
  BY DEF RowsInv
<1>3. CASE u # r.user
  <2>1. RowsOf(u)' = RowsOf(u)
    BY <1>1, <1>2, <1>3 DEF RowsOf
  <2>2. bought'[u] = bought[u] /\ astray'[u] = astray[u]
    BY <1>1, <1>3
  <2> QED
    BY <2>1, <2>2 DEF RowsInv, OneRow, LastBought, Kept
<1>4. CASE u = r.user
  <2>1. r \in RowsOf(u)'
    BY <1>1, <1>4 DEF RowsOf
  <2>2. ASSUME "twins" \notin astray'[u] PROVE RowsOf(u)' = {r}
    <3>1. ~Twins(r) /\ "twins" \notin astray[u]
      BY <1>1, <1>4, <2>2
    <3>2. \A s \in RowsOf(u) : s.id = r.id
      <4>1. \A s, t \in RowsOf(u) : s = t
        BY <3>1 DEF RowsInv, OneRow
      <4> QED
        BY <1>4, <3>1, <4>1 DEF Twins
    <3> QED
      BY <1>1, <1>4, <3>2 DEF RowsOf
  <2>3. OneRow(u)'
    BY <2>2 DEF OneRow
  <2>4. LastBought(u)'
    <3>1. ASSUME Kept(u)'
          PROVE  \A s \in RowsOf(u)' :
                   s.plan = bought'[u].plan /\ s.expire = bought'[u].expire
      <4>1. "twins" \notin astray'[u] /\ "overtaken" \notin astray'[u]
        BY <3>1 DEF Kept
      <4> QED
        BY <1>1, <1>4, <2>2, <4>1
    <3> QED
      BY <2>1, <3>1 DEF LastBought
  <2> QED
    BY <2>3, <2>4
<1> QED
  BY <1>3, <1>4

LEMMA RowsSwitched ==
  ASSUME TypeOK, IdsOk, RowsInv, NEW w \in Worker, SaveRenew(w)
  PROVE  RowsInv'
<1>1. PICK r \in UserBillPlan, s \in userPlans :
        /\ s.id = r.id /\ s.user = r.user
        /\ userPlans' = (userPlans \ {s}) \cup {r}
        /\ StrayKept(Quotas \cup {"redis", "twins", "overtaken"})
        /\ \A u \in User : "overwritten" \in astray[u] => "overwritten" \in astray'[u]
        /\ "overwritten" \notin astray'[r.user] => s.plan = r.plan /\ s.expire = r.expire
  BY SwitchEffect
<1>2. UNCHANGED bought
  BY DEF SaveRenew
<1> SUFFICES ASSUME NEW u \in User PROVE OneRow(u)' /\ LastBought(u)'
  BY DEF RowsInv
<1>3. ("twins" \in astray'[u] <=> "twins" \in astray[u]) /\ (Kept(u)' => Kept(u))
  BY <1>1 DEF StrayKept, Kept
<1>4. CASE u # r.user
  <2>1. RowsOf(u)' = RowsOf(u)
    BY <1>1, <1>4 DEF RowsOf
  <2> QED
    BY <1>2, <1>3, <2>1 DEF RowsInv, OneRow, LastBought
<1>5. CASE u = r.user
  <2>1. s \in RowsOf(u) /\ RowsOf(u)' = (RowsOf(u) \ {s}) \cup {r}
    BY <1>1, <1>5 DEF RowsOf
  <2>2. OneRow(u)'
    BY <1>3, <2>1 DEF RowsInv, OneRow
  <2>3. LastBought(u)'
    <3>1. ASSUME Kept(u)'
          PROVE  \A t \in RowsOf(u)' :
                   t.plan = bought'[u].plan /\ t.expire = bought'[u].expire
      <4>1. s.plan = r.plan /\ s.expire = r.expire
        BY <1>1, <1>5, <3>1 DEF Kept
      <4>2. \A t \in RowsOf(u) : t.plan = bought[u].plan /\ t.expire = bought[u].expire
        BY <1>3, <3>1 DEF RowsInv, LastBought
      <4> QED
        BY <1>2, <2>1, <4>1, <4>2
    <3> QED
      BY <2>1, <3>1 DEF LastBought
  <2> QED
    BY <2>2, <2>3
<1> QED
  BY <1>4, <1>5

LEMMA RowsNext ==
  ASSUME TypeOK, IdsOk, RowsInv, [Next]_vars
  PROVE  RowsInv'
<1> USE DEF tables, history
<1>1. ASSUME UNCHANGED <<userPlans, history>> PROVE RowsInv'
  BY <1>1, RowsKept DEF StrayKept
<1>2. ASSUME NEW u \in User, NEW c \in Purchases, BuyBillPlan(c.call, u, c.plan, c.auto)
      PROVE  RowsInv'
  BY <1>1, <1>2 DEF BuyBillPlan
<1>3. ASSUME NEW u \in User, NEW c \in Switches, UpdateRenew(c.call, u, c.auto) PROVE RowsInv'
  BY <1>1, <1>3 DEF UpdateRenew
<1>4. CASE RunStart \/ Renew \/ ResetAllUsersQuotas \/ RunFails \/ NextDay
  BY <1>1, <1>4 DEF RunStart, Renew, ResetAllUsersQuotas, RunFails, NextDay
<1>5. ASSUME NEW p \in Plan, ResetFind(p) PROVE RowsInv'
  BY <1>1, <1>5 DEF ResetFind
<1>6. CASE ResetSave \/ \E w \in Worker : RaiseQuota(w) \/ HandlerFails(w)
  <2>1. UNCHANGED <<userPlans, bought>>
    BY <1>6 DEF ResetSave, RaiseQuota, HandlerFails
  <2> QED
    BY <1>6, <2>1, GrantsStray, RowsKept DEF StrayKept
<1>7. CASE Crash \/ \E w \in Worker : CopyToRedis(w) \/ CopyFails(w)
  <2>1. UNCHANGED <<userPlans, bought>>
    BY <1>7 DEF Crash, CopyToRedis, CopyFails
  <2> QED
    BY <1>7, <2>1, CopiesStray, RowsKept DEF StrayKept
<1>8. ASSUME NEW w \in Worker, SavePlan(w) \/ Insufficient(w) \/ CopyRead(w) \/ BuyFails(w)
      PROVE  RowsInv'
  BY <1>1, <1>8 DEF SavePlan, Insufficient, CopyRead, BuyFails, Rollback
<1>9. ASSUME NEW w \in Worker, BuySteps(w) PROVE RowsInv'
  BY <1>6, <1>7, <1>8, <1>9, RowsPaid, RowsSwitched DEF BuySteps
<1>10. CASE UNCHANGED vars
  BY <1>1, <1>10 DEF vars
<1> QED
  BY <1>2, <1>3, <1>4, <1>5, <1>6, <1>7, <1>8, <1>9, <1>10
     DEF Next, RunSteps, CallSteps, Worker

(* What is kept of the rows and the last purchase is PurchaseKept. *)
PurchaseKeptOf(u) == Kept(u) =>
  Effective(u) = IF bought[u].expire > today THEN bought[u].plan ELSE Default

LEMMA RowsGivePurchase ==
  ASSUME TypeOK, RowsInv
  PROVE  \A u \in User : PurchaseKeptOf(u)
<1> SUFFICES ASSUME NEW u \in User, Kept(u)
             PROVE  Effective(u) = IF bought[u].expire > today THEN bought[u].plan ELSE Default
  BY DEF PurchaseKeptOf
<1>1. \A r, s \in RowsOf(u) : r = s
  BY DEF RowsInv, OneRow, Kept
<1>2. CASE RowsOf(u) = {}
  <2>1. bought[u].expire = 0 /\ today \in Nat
    BY <1>2 DEF RowsInv, LastBought, TypeOK, TablesOk
  <2>2. ~(bought[u].expire > today)
    BY <2>1
  <2> QED
    BY <1>2, <2>2, NoRowEffective
<1>3. CASE RowsOf(u) # {}
  <2>1. PICK r \in RowsOf(u) : RowsOf(u) = {r}
    BY <1>1, <1>3
  <2>2. r.plan = bought[u].plan /\ r.expire = bought[u].expire
    BY DEF RowsInv, LastBought
  <2> QED
    BY <2>1, <2>2, OneRowEffective DEF TypeOK
<1> QED
  BY <1>2, <1>3
-----------------------------------------------------------------------------
(* The quota that has been given. *)
LEMMA GivenMore ==
  ASSUME TypeOK, TypeOK', NEW u \in User, NEW p \in Plan,
         quota[u].count <= quota'[u].count, Given(u, p)
  PROVE  Given(u, p)'
<1>1. quota[u].count \in Nat /\ quota'[u].count \in Nat /\ Count[p] \in Nat
  BY PlanAssumption DEF TypeOK, TablesOk, Quota
<1> QED
  BY <1>1 DEF Given

(* A step of goroutine w that gives nothing. *)
LEMMA QuotaSame ==
  ASSUME TypeOK, QuotaInv, UNCHANGED <<quota, bought>>, today <= today', today' \in Nat,
         StrayKept(Quotas), \A u \in User : Kept(u)' => Kept(u),
         \A w \in Worker :
           \/ job'[w] = job[w]
           \/ ~Saving(w)' /\ (job'[w].raise = {}
                \/ (job'[w].new = job[w].new /\ job'[w].raise = job[w].raise))
  PROVE  QuotaInv'
<1>1. \A u \in User : Misgiven(u)' <=> Misgiven(u)
  BY DEF Misgiven, StrayKept, Quotas
<1>2. ASSUME NEW w \in Worker PROVE RaiseKept(w)'
  <2>1. CASE job'[w] = job[w]
    <3>1. \A r \in job[w].new : r.user \in User
      BY JobTyped DEF TypeOK, UserBillPlan
    <3>2. RaiseKept(w)
      BY DEF QuotaInv
    <3> QED
      BY <1>1, <2>1, <3>1, <3>2 DEF RaiseKept, Saving, Given
  <2>2. CASE ~Saving(w)' /\ job'[w].raise = {}
    BY <2>2 DEF RaiseKept
  <2>3. CASE ~Saving(w)' /\ job'[w].new = job[w].new /\ job'[w].raise = job[w].raise
    BY <2>3 DEF RaiseKept, QuotaInv
  <2> QED
    BY <2>1, <2>2, <2>3
<1>3. ASSUME NEW u \in User PROVE QuotaKept(u)'
  <2>1. bought'[u].expire > today' => bought[u].expire > today
    BY DEF TypeOK, TablesOk, HistoryOk
  <2> QED
    BY <1>1, <2>1 DEF QuotaInv, QuotaKept, Given
<1> QED
  BY <1>2, <1>3 DEF QuotaInv

(* The handler compares. *)
LEMMA QuotaSaved ==
  ASSUME TypeOK, QuotaInv, NEW w \in Worker, SavePlan(w)
  PROVE  QuotaInv'
<1> USE DEF TypeOK
<1>1. PICK r \in job[w].new : \E s \in UserBillPlan : \E left \in 0 .. quota[r.user].count :
        /\ r \in UserBillPlan /\ s.user = r.user /\ s.plan = r.plan
        /\ GoesOn(w, "saved", {s}, Raise(r.user, r.plan, left))
  BY SaveGoesOn
<1>2. PICK s \in UserBillPlan, left \in 0 .. quota[r.user].count :
        /\ r \in UserBillPlan /\ s.user = r.user /\ s.plan = r.plan
        /\ GoesOn(w, "saved", {s}, Raise(r.user, r.plan, left))
  BY <1>1
<1>3. r.user \in User /\ r.plan \in Plan
  BY <1>2 DEF UserBillPlan
<1>4. quota[r.user].count \in Nat /\ Count[r.plan] \in Nat
  BY <1>3, PlanAssumption DEF TablesOk, Quota
<1>5. left \in Nat /\ left <= quota[r.user].count
  BY <1>4
<1> DEFINE raise == Raise(r.user, r.plan, left)
<1>6. (\A q \in raise : q.count = Count[r.plan]) /\ (raise = {} => left >= Count[r.plan])
  BY <1>3, <1>5, RaiseTyped
<1>7. raise = {} => Given(r.user, r.plan)
  BY <1>4, <1>5, <1>6 DEF Given
<1>8. UNCHANGED <<quota, today, bought, astray>>
  BY DEF SavePlan, history
<1>9. job'[w].pc = "saved" /\ job'[w].new = {s} /\ job'[w].raise = raise
  BY <1>2 DEF GoesOn
<1> HIDE DEF raise
<1>10. RaiseKept(w)'
  <2>1. Given(r.user, r.plan)' <=> Given(r.user, r.plan)
    BY <1>8 DEF Given
  <2> QED
    BY <1>2, <1>6, <1>7, <1>9, <2>1 DEF RaiseKept
<1>11. ASSUME NEW v \in Worker, v # w PROVE RaiseKept(v)'
  <2>1. job'[v] = job[v] /\ RaiseKept(v)
    BY <1>2, <1>11 DEF GoesOn, QuotaInv
  <2> QED
    BY <1>8, <2>1 DEF RaiseKept, Saving, Given, Misgiven
<1>12. \A u \in User : QuotaKept(u)'
  BY <1>8 DEF QuotaInv, QuotaKept, Given, Misgiven, Kept
<1> QED
  BY <1>10, <1>11, <1>12 DEF QuotaInv

(* The handler has saved the quota: who had bought it meanwhile cannot tell. *)
LEMMA QuotaRaised ==
  ASSUME TypeOK, TypeOK', IdsOk, QuotaInv, NEW w \in Worker, RaiseQuota(w)
  PROVE  QuotaInv'
<1> USE DEF TypeOK
<1>1. PICK r \in job[w].new :
        IF job[w].raise = {} THEN UNCHANGED <<quota, astray>>
        ELSE \E q \in job[w].raise :
          /\ quota' = [quota EXCEPT ![r.user] =
               [count |-> Max({@.count, q.count}), next |-> q.next]]
          /\ astray' = [astray EXCEPT ![r.user] =
               Granted(r.user, q.count, Buying(r.user) # {w} \/ q.old # quota[r.user])]
  BY DEF RaiseQuota
<1>2. job[w].pc = "saved" /\ GoesOn(w, "raised", job[w].new, {}) /\ job[w].new = {r}
  BY RaiseGoesOn DEF IdsOk, InHand
<1>3. r \in UserBillPlan /\ r.user \in User /\ r.plan \in Plan
  BY JobTyped DEF UserBillPlan
<1>4. UNCHANGED <<today, bought>> /\ RaiseKept(w)
  BY DEF RaiseQuota, QuotaInv
<1>5. CASE job[w].raise = {}
  <2>1. UNCHANGED <<quota, astray>>
    BY <1>1, <1>5
  <2>2. RaiseKept(w)'
    BY <1>2, <1>4, <1>5, <2>1 DEF RaiseKept, Saving, Given, Misgiven, GoesOn
  <2>3. ASSUME NEW v \in Worker, v # w PROVE RaiseKept(v)'
    <3>1. job'[v] = job[v] /\ RaiseKept(v)
      BY <1>2, <2>3 DEF GoesOn, QuotaInv
    <3> QED
      BY <2>1, <3>1 DEF RaiseKept, Saving, Given, Misgiven
  <2>4. \A u \in User : QuotaKept(u)'
    BY <1>4, <2>1 DEF QuotaInv, QuotaKept, Given, Misgiven, Kept
  <2> QED
    BY <2>2, <2>3, <2>4 DEF QuotaInv
<1>6. CASE job[w].raise # {}
  <2>1. PICK q \in job[w].raise :
          /\ quota' = [quota EXCEPT ![r.user] =
               [count |-> Max({@.count, q.count}), next |-> q.next]]
          /\ astray' = [astray EXCEPT ![r.user] =
               Granted(r.user, q.count, Buying(r.user) # {w} \/ q.old # quota[r.user])]
    BY <1>1, <1>6
  <2> DEFINE u == r.user
             late == Buying(u) # {w} \/ q.old # quota[u]
  <2>2. q.count = Count[r.plan] /\ q.count \in Nat
    BY <1>2, <1>3, <1>4, PlanAssumption DEF RaiseKept
  <2>3. /\ quota'[u].count = Max({quota[u].count, q.count})
        /\ \A v \in User : v # u => quota'[v] = quota[v]
    <3> DEFINE new == [count |-> Max({quota[u].count, q.count}), next |-> q.next]
    <3>1. new.count = Max({quota[u].count, q.count})
      OBVIOUS
    <3>2. quota' = [quota EXCEPT ![u] = new]
      BY <2>1
    <3> HIDE DEF new
    <3>3. quota'[u] = new /\ \A v \in User : v # u => quota'[v] = quota[v]
      BY <1>3, <3>2 DEF TablesOk
    <3> QED
      BY <3>1, <3>3
  <2>4. quota[u].count \in Nat /\ quota'[u].count \in Nat
    BY <1>3 DEF TablesOk, Quota
  <2>5. quota[u].count <= quota'[u].count /\ q.count <= quota'[u].count
    BY <2>2, <2>3, <2>4, GreaterOf
  <2>6. astray'[u] = Granted(u, q.count, late) /\ \A v \in User : v # u => astray'[v] = astray[v]
    BY <1>3, <2>1 DEF HistoryOk
  <2>7. late => Misgiven(u)'
    BY <2>6 DEF Granted, Misgiven
  <2>8. Misgiven(u) => Misgiven(u)' \/ q.count >= Count[bought[u].plan]
    BY <2>6 DEF Granted, Misgiven
  <2> HIDE DEF late
  <2>9. ASSUME NEW v \in User, NEW p \in Plan, Given(v, p) PROVE Given(v, p)'
    <3>1. quota[v].count <= quota'[v].count
      BY <2>3, <2>5, <2>9 DEF TablesOk, Quota
    <3> QED
      BY <2>9, <3>1, GivenMore
  <2>10. RaiseKept(w)'
    <3>1. Given(u, r.plan)'
      BY <2>2, <2>4, <2>5 DEF Given
    <3> QED
      BY <1>2, <3>1 DEF RaiseKept, GoesOn
  <2>11. ASSUME NEW v \in Worker, v # w PROVE RaiseKept(v)'
    <3>1. job'[v] = job[v] /\ RaiseKept(v)
      BY <1>2, <2>11 DEF GoesOn, QuotaInv
    <3>2. ASSUME NEW s \in job[v].new, Saving(v)
          PROVE  (job[v].pc = "saved" /\ job[v].raise # {})
                   \/ Given(s.user, s.plan)' \/ Misgiven(s.user)'
      <4>1. s.user \in User /\ s.plan \in Plan
        BY JobTyped DEF UserBillPlan
      <4>2. CASE s.user = u
        <5>1. v \in Buying(u)
          BY <3>2, <4>2 DEF Buying, Saving
        <5> QED
          BY <2>7, <2>11, <4>2, <5>1 DEF late
      <4>3. CASE s.user # u
        <5>1. Misgiven(s.user)' <=> Misgiven(s.user)
          BY <2>6, <4>1, <4>3 DEF Misgiven
        <5> QED
          BY <2>9, <3>1, <3>2, <4>1, <5>1 DEF RaiseKept
      <4> QED
        BY <4>2, <4>3
    <3> QED
      BY <3>1, <3>2 DEF RaiseKept, Saving
  <2>12. ASSUME NEW v \in User PROVE QuotaKept(v)'
    <3>1. SUFFICES ASSUME bought[v].expire > today, Kept(v)', ~Misgiven(v)'
                   PROVE  Given(v, bought[v].plan)'
      BY <1>4 DEF QuotaKept, Given
    <3>2. Kept(v) /\ bought[v].plan \in Plan
      BY <3>1, GrantsStray DEF Kept, StrayKept, Rows, HistoryOk
    <3>3. CASE ~Misgiven(v)
      <4>1. Given(v, bought[v].plan)
        BY <3>1, <3>2, <3>3 DEF QuotaInv, QuotaKept
      <4> DEFINE p == bought[v].plan
      <4>2. p \in Plan /\ Given(v, p) /\ UNCHANGED p
        BY <1>4, <3>2, <4>1
      <4>3. quota'[v].count >= Count[p]
        <5> HIDE DEF p
        <5> QED
          BY <2>9, <4>2 DEF Given
      <4> QED
        BY <1>4, <4>3 DEF Given
    <3>4. CASE Misgiven(v)
      <4>1. v = u
        BY <2>6, <3>1, <3>4 DEF Misgiven
      <4>2. q.count >= Count[bought[u].plan] /\ Count[bought[u].plan] \in Nat
        BY <2>8, <3>1, <3>2, <3>4, <4>1, PlanAssumption
      <4>3. quota'[u].count >= Count[bought[u].plan]
        BY <2>2, <2>4, <2>5, <4>2
      <4> QED
        BY <4>1, <4>3, <1>4 DEF Given
    <3> QED
      BY <3>3, <3>4
  <2> QED
    BY <2>10, <2>11, <2>12 DEF QuotaInv
<1> QED
  BY <1>5, <1>6

LEMMA QuotaUnserved ==
  ASSUME TypeOK, IdsOk, QuotaInv, NEW w \in Worker, HandlerFails(w)
  PROVE  QuotaInv'
<1> USE DEF TypeOK
<1>1. PICK r \in job[w].new : astray' = Blame(r.user, {"unserved"})
  BY DEF HandlerFails
<1>2. GoesOn(w, "raised", job[w].new, {}) /\ job[w].new = {r}
  BY RaiseGoesOn DEF IdsOk, InHand
<1>3. r.user \in User
  BY JobTyped DEF UserBillPlan
<1>4. UNCHANGED <<quota, today, bought>>
  BY DEF HandlerFails, tables
<1>5. Misgiven(r.user)' /\ \A u \in User : Misgiven(u) => Misgiven(u)'
  BY <1>1, <1>3 DEF Blame, Misgiven, HistoryOk
<1>6. \A u \in User : Kept(u)' => Kept(u)
  BY GrantsStray DEF Kept, StrayKept, Rows
<1>7. RaiseKept(w)'
  BY <1>2, <1>5 DEF RaiseKept, GoesOn
<1>8. ASSUME NEW v \in Worker, v # w PROVE RaiseKept(v)'
  <2>1. job'[v] = job[v] /\ RaiseKept(v)
    BY <1>2, <1>8 DEF GoesOn, QuotaInv
  <2>2. \A s \in job[v].new : s.user \in User
    BY JobTyped DEF UserBillPlan
  <2> QED
    BY <1>4, <1>5, <2>1, <2>2 DEF RaiseKept, Saving, Given
<1>9. \A u \in User : QuotaKept(u)'
  BY <1>4, <1>5, <1>6 DEF QuotaInv, QuotaKept, Given
<1> QED
  BY <1>7, <1>8, <1>9 DEF QuotaInv

(* A plan is paid for when its calls have been given. *)
LEMMA QuotaPaid ==
  ASSUME TypeOK, IdsOk, QuotaInv, NEW w \in Worker, PayPlan(w)
  PROVE  QuotaInv'
<1> USE DEF TypeOK
<1>1. PICK r \in UserBillPlan :
        /\ job[w].new = {r}
        /\ \A u \in User \ {r.user} : bought'[u] = bought[u] /\ astray'[u] = astray[u]
        /\ StrayKept(Quotas)
        /\ IF Overtaken(w) THEN "overtaken" \in astray'[r.user]
           ELSE bought'[r.user].plan = r.plan /\ bought'[r.user].expire = r.expire
  BY PayEffect
<1>2. job[w].pc = "raised" /\ GoesOn(w, "paid", job[w].new, {})
  BY PayGoesOn
<1>3. UNCHANGED <<quota, today>>
  BY DEF PayPlan
<1>4. \A u \in User : Misgiven(u)' <=> Misgiven(u)
  BY <1>1 DEF Misgiven, StrayKept, Quotas
<1>5. RaiseKept(w)'
  BY <1>2 DEF RaiseKept, Saving, GoesOn
<1>6. ASSUME NEW v \in Worker, v # w PROVE RaiseKept(v)'
  <2>1. job'[v] = job[v] /\ RaiseKept(v)
    BY <1>2, <1>6 DEF GoesOn, QuotaInv
  <2>2. \A s \in job[v].new : s.user \in User
    BY JobTyped DEF UserBillPlan
  <2> QED
    BY <1>3, <1>4, <2>1, <2>2 DEF RaiseKept, Saving, Given
<1>7. ASSUME NEW u \in User PROVE QuotaKept(u)'
  <2>1. CASE u # r.user
    BY <1>1, <1>3, <1>4, <2>1 DEF QuotaInv, QuotaKept, Given, Kept
  <2>2. CASE u = r.user
    <3>1. SUFFICES ASSUME Kept(u)', ~Misgiven(u)' PROVE quota'[u].count >= Count[bought'[u].plan]
      BY DEF QuotaKept, Given
    <3>2. bought'[u].plan = r.plan
      BY <1>1, <2>2, <3>1 DEF Kept
    <3>3. Given(u, r.plan)
      BY <1>1, <1>2, <1>4, <2>2, <3>1 DEF QuotaInv, RaiseKept, Saving
    <3> QED
      BY <1>3, <3>2, <3>3 DEF Given
  <2> QED
    BY <2>1, <2>2
<1> QED
  BY <1>5, <1>6, <1>7 DEF QuotaInv

(* A reset gives the plan in effect, or is late. *)
LEMMA QuotaReset ==
  ASSUME TypeOK, RowsInv, QuotaInv, ResetSave
  PROVE  QuotaInv'
<1> USE DEF TypeOK
<1> DEFINE mine == DOMAIN run.found
           late(u) == run.found[u].plan # Effective(u)
                      \/ \E w \in Buying(u) : job[w].pc \in {"saved", "raised"}
<1>1. /\ quota' = [u \in User |-> IF u \in mine
           THEN [count |-> run.found[u].count, next |-> run.found[u].next] ELSE quota[u]]
      /\ astray' = [u \in User |->
           IF u \in mine THEN Granted(u, run.found[u].count, late(u)) ELSE astray[u]]
      /\ UNCHANGED <<today, job, bought>>
  BY DEF ResetSave
<1>2. ASSUME NEW u \in User, u \in mine
      PROVE  quota'[u].count = Count[run.found[u].plan] /\ (late(u) => Misgiven(u)')
  BY <1>1, <1>2 DEF RunOk, Granted, Misgiven
<1>3. ASSUME NEW u \in User, u \notin mine
      PROVE  quota'[u] = quota[u] /\ astray'[u] = astray[u]
  BY <1>1, <1>3
<1>4. ASSUME NEW w \in Worker PROVE RaiseKept(w)'
  <2>1. job'[w] = job[w] /\ RaiseKept(w)
    BY <1>1 DEF QuotaInv
  <2>2. ASSUME NEW r \in job[w].new, Saving(w)
        PROVE  (job[w].pc = "saved" /\ job[w].raise # {})
                 \/ Given(r.user, r.plan)' \/ Misgiven(r.user)'
    <3>1. r.user \in User
      BY JobTyped DEF UserBillPlan
    <3>2. CASE r.user \in mine
      <4>1. w \in Buying(r.user) /\ job[w].pc \in {"saved", "raised"}
        BY <2>2 DEF Buying, Saving
      <4> QED
        BY <1>2, <3>1, <3>2, <4>1
    <3>3. CASE r.user \notin mine
      BY <1>3, <2>1, <2>2, <3>1, <3>3 DEF RaiseKept, Given, Misgiven
    <3> QED
      BY <3>2, <3>3
  <2> QED
    BY <2>1, <2>2 DEF RaiseKept, Saving
<1>5. ASSUME NEW u \in User PROVE QuotaKept(u)'
  <2>1. SUFFICES ASSUME bought[u].expire > today, Kept(u)', ~Misgiven(u)'
                 PROVE  Given(u, bought[u].plan)'
    BY <1>1 DEF QuotaKept, Given
  <2>2. Kept(u)
    BY <2>1, GrantsStray DEF Kept, StrayKept, Rows
  <2>3. CASE u \in mine
    <3>1. run.found[u].plan = Effective(u)
      BY <1>2, <2>1, <2>3
    <3>2. Effective(u) = bought[u].plan
      BY <2>1, <2>2, RowsGivePurchase DEF PurchaseKeptOf
    <3>3. quota'[u].count = Count[bought[u].plan] /\ Count[bought[u].plan] \in Nat
      BY <1>2, <2>3, <3>1, <3>2, PlanAssumption DEF HistoryOk
    <3> QED
      BY <1>1, <3>3 DEF Given
  <2>4. CASE u \notin mine
    BY <1>1, <1>3, <2>1, <2>2, <2>4 DEF QuotaInv, QuotaKept, Given, Misgiven
  <2> QED
    BY <2>3, <2>4
<1> QED
  BY <1>4, <1>5 DEF QuotaInv

LEMMA QuotaNext ==
  ASSUME TypeOK, TypeOK', IdsOk, RowsInv, QuotaInv, [Next]_vars
  PROVE  QuotaInv'
<1> USE DEF TypeOK, tables, history
<1>1. ASSUME UNCHANGED <<quota, bought, today>>, StrayKept(Quotas),
             \A u \in User : Kept(u)' => Kept(u),
             UNCHANGED job
               \/ \E w \in Worker, pc \in JobStep \ {"saved", "raised"} :
                    \/ \E new : GoesOn(w, pc, new, {})
                    \/ GoesOn(w, pc, job[w].new, job[w].raise)
      PROVE  QuotaInv'
  <2>1. \A w \in Worker :
           \/ job'[w] = job[w]
           \/ ~Saving(w)' /\ (job'[w].raise = {}
                \/ (job'[w].new = job[w].new /\ job'[w].raise = job[w].raise))
    <3>1. CASE UNCHANGED job
      BY <3>1
    <3>2. CASE ~UNCHANGED job
      <4>1. PICK v \in Worker, pc \in JobStep \ {"saved", "raised"} :
              \/ \E new : GoesOn(v, pc, new, {})
              \/ GoesOn(v, pc, job[v].new, job[v].raise)
        BY <1>1, <3>2
      <4> TAKE w \in Worker
      <4>2. CASE w = v
        BY <4>1, <4>2 DEF GoesOn, Saving
      <4>3. CASE w # v
        BY <4>1, <4>3 DEF GoesOn
      <4> QED
        BY <4>2, <4>3
    <3> QED
      BY <3>1, <3>2
  <2>2. today <= today' /\ today' \in Nat
    BY <1>1 DEF TablesOk
  <2> QED
    BY <1>1, <2>1, <2>2, QuotaSame
<1>2. ASSUME UNCHANGED history
      PROVE  StrayKept(Quotas) /\ \A u \in User : Kept(u)' => Kept(u)
  BY <1>2 DEF StrayKept, Kept
<1>3. ASSUME NEW u \in User, NEW c \in Purchases, BuyBillPlan(c.call, u, c.plan, c.auto)
      PROVE  QuotaInv'
  <2>1. UNCHANGED <<quota, today, history>>
    BY <1>3 DEF BuyBillPlan
  <2>2. \E new : GoesOn(c.call, "read", new, {}) /\ c.call \in Worker
    BY <1>3, BuyGoesOn
  <2>3. "read" \in JobStep \ {"saved", "raised"}
    BY DEF JobStep
  <2> QED
    BY <1>1, <1>2, <2>1, <2>2, <2>3
<1>4. ASSUME NEW u \in User, NEW c \in Switches, UpdateRenew(c.call, u, c.auto) PROVE QuotaInv'
  <2>1. UNCHANGED <<quota, today, history>>
    BY <1>4 DEF UpdateRenew
  <2>2. \E new : GoesOn(c.call, "switch", new, {}) /\ c.call \in Worker
    BY <1>4, SwitchGoesOn
  <2>3. "switch" \in JobStep \ {"saved", "raised"}
    BY DEF JobStep
  <2> QED
    BY <1>1, <1>2, <2>1, <2>2, <2>3
<1>5. CASE RunStart \/ ResetAllUsersQuotas \/ RunFails
  BY <1>1, <1>2, <1>5 DEF RunStart, ResetAllUsersQuotas, RunFails
<1>6. ASSUME NEW p \in Plan, ResetFind(p) PROVE QuotaInv'
  BY <1>1, <1>2, <1>6 DEF ResetFind
<1>7. CASE Renew
  <2>1. UNCHANGED <<quota, today, history>>
    BY <1>7 DEF Renew
  <2>2. UNCHANGED job \/ \E new : GoesOn(Cron, "read", new, {})
    BY <1>7, RenewGoesOn
  <2>3. "read" \in JobStep \ {"saved", "raised"} /\ Cron \in Worker
    BY DEF JobStep, Worker
  <2> QED
    BY <1>1, <1>2, <2>1, <2>2, <2>3
<1>8. CASE NextDay
  <2>1. today <= today' /\ today' \in Nat
    BY <1>8 DEF NextDay, TablesOk
  <2>2. UNCHANGED <<quota, history, job>>
    BY <1>8 DEF NextDay
  <2> QED
    BY <1>2, <2>1, <2>2, QuotaSame
<1>9. CASE Crash
  <2>1. \A w \in Worker : job'[w].raise = {} /\ ~Saving(w)'
    BY <1>9, NoJobTyped DEF Crash, NoneInHand, Saving
  <2>2. StrayKept(Quotas) /\ \A u \in User : Kept(u)' => Kept(u)
    BY <1>9, CopiesStray DEF StrayKept, Kept, Rows
  <2>3. UNCHANGED <<quota, bought, today>> /\ today <= today' /\ today' \in Nat
    BY <1>9 DEF Crash, TablesOk
  <2> QED
    BY <2>1, <2>2, <2>3, QuotaSame
<1>10. ASSUME NEW w \in Worker, Insufficient(w) \/ BuyFails(w) PROVE QuotaInv'
  <2>1. UNCHANGED <<quota, today, history>> /\ job' = [job EXCEPT ![w] = NoJob]
    BY <1>10 DEF Insufficient, BuyFails, Rollback
  <2>2. GoesOn(w, "idle", {}, {}) /\ "idle" \in JobStep \ {"saved", "raised"}
    BY <2>1, LetsGo DEF JobStep
  <2> QED
    BY <1>1, <1>2, <2>1, <2>2
<1>11. ASSUME NEW w \in Worker, CopyToRedis(w) \/ CopyFails(w) PROVE QuotaInv'
  <2>1. UNCHANGED <<quota, today, bought>> /\ job' = [job EXCEPT ![w] = NoJob]
    BY <1>11 DEF CopyToRedis, CopyFails
  <2>2. GoesOn(w, "idle", {}, {}) /\ "idle" \in JobStep \ {"saved", "raised"}
    BY <2>1, LetsGo DEF JobStep
  <2>3. StrayKept(Quotas) /\ \A u \in User : Kept(u)' => Kept(u)
    BY <1>11, CopiesStray DEF StrayKept, Kept, Rows
  <2> QED
    BY <1>1, <2>1, <2>2, <2>3
<1>12. ASSUME NEW w \in Worker, SaveRenew(w) PROVE QuotaInv'
  <2>1. UNCHANGED <<quota, today, bought>> /\ job' = [job EXCEPT ![w] = NoJob]
    BY <1>12 DEF SaveRenew
  <2>2. GoesOn(w, "idle", {}, {}) /\ "idle" \in JobStep \ {"saved", "raised"}
    BY <2>1, LetsGo DEF JobStep
  <2>3. StrayKept(Quotas) /\ \A u \in User : Kept(u)' => Kept(u)
    BY <1>12, SwitchEffect DEF StrayKept, Kept
  <2> QED
    BY <1>1, <2>1, <2>2, <2>3
<1>13. ASSUME NEW w \in Worker, CopyRead(w) PROVE QuotaInv'
  <2>1. UNCHANGED <<quota, today, history>>
    BY <1>13 DEF CopyRead
  <2>2. InHand(w) /\ \A u \in User : Effective(u) \in Plan
    BY EffectiveTyped DEF IdsOk
  <2>3. GoesOn(w, "copying", job[w].new, job[w].raise)
    BY <1>13, <2>2, CopyGoesOn
  <2>4. "copying" \in JobStep \ {"saved", "raised"}
    BY DEF JobStep
  <2> QED
    BY <1>1, <1>2, <2>1, <2>3, <2>4
<1>14. ASSUME NEW w \in Worker, BuySteps(w) PROVE QuotaInv'
  BY <1>10, <1>11, <1>12, <1>13, <1>14, QuotaSaved, QuotaRaised, QuotaPaid DEF BuySteps
<1>15. CASE UNCHANGED vars
  BY <1>1, <1>2, <1>15 DEF vars
<1> QED
  BY <1>3, <1>4, <1>5, <1>6, <1>7, <1>8, <1>9, <1>10, <1>11, <1>14, <1>15,
     QuotaReset, QuotaUnserved DEF Next, RunSteps, CallSteps, Worker
-----------------------------------------------------------------------------
(* The plan in redis. *)
CopySteps == {"paid", "copying"}
Copies(w) == job[w].pc \in CopySteps

(* Goroutines that copy go on to copy, and the tables stay as they are. *)
LEMMA RedisSame ==
  ASSUME RedisInv, UNCHANGED <<userPlans, redisPlan, today>>,
         StrayKept({"twins", "overwritten", "redis"}),
         \A w \in Worker : Copies(w) => Copies(w)' /\ job'[w].new = job[w].new
  PROVE  RedisInv'
<1> SUFFICES ASSUME NEW u \in User PROVE CopyKept(u)'
  BY DEF RedisInv
<1>1. RowsOf(u)' = RowsOf(u) /\ InForce(RowsOf(u))' = InForce(RowsOf(u))
  BY DEF RowsOf, InForce
<1>2. Effective(u)' = Effective(u)
  BY <1>1 DEF Effective
<1>3. Copying(u) => Copying(u)'
  BY DEF Copying, Copies, CopySteps
<1>4. astray'[u] \cap {"twins", "overwritten", "redis"}
        = astray[u] \cap {"twins", "overwritten", "redis"}
  BY DEF StrayKept
<1> QED
  BY <1>1, <1>2, <1>3, <1>4 DEF RedisInv, CopyKept

(* What is in effect for a user changes with the rows of the user only. *)
LEMMA RedisOthers ==
  ASSUME RedisInv, NEW u \in User, UNCHANGED today, redisPlan'[u] = redisPlan[u],
         RowsOf(u)' = RowsOf(u), astray'[u] = astray[u], Copying(u) => Copying(u)'
  PROVE  CopyKept(u)'
<1>1. InForce(RowsOf(u))' = InForce(RowsOf(u))
  BY DEF InForce
<1>2. Effective(u)' = Effective(u)
  BY <1>1 DEF Effective
<1> QED
  BY <1>1, <1>2 DEF RedisInv, CopyKept

LEMMA RedisPaid ==
  ASSUME TypeOK, IdsOk, RedisInv, NEW w \in Worker, PayPlan(w)
  PROVE  RedisInv'
<1>1. PICK r \in UserBillPlan :
        /\ job[w].new = {r}
        /\ userPlans' = {s \in userPlans : s.id # r.id} \cup {r}
        /\ \A u \in User \ {r.user} : astray'[u] = astray[u]
  BY PayEffect
<1>2. job[w].pc = "raised" /\ GoesOn(w, "paid", job[w].new, {})
  BY PayGoesOn DEF TypeOK
<1>3. \A s \in userPlans : s.id = r.id => s.user = r.user
  BY <1>1 DEF IdsOk
<1>4. UNCHANGED <<redisPlan, today>>
  BY DEF PayPlan
<1> SUFFICES ASSUME NEW u \in User PROVE CopyKept(u)'
  BY DEF RedisInv
<1>5. CASE u = r.user
  <2>1. Copying(u)'
    BY <1>1, <1>2, <1>5 DEF GoesOn, Copying
  <2> QED
    BY <2>1 DEF CopyKept
<1>6. CASE u # r.user
  <2>1. RowsOf(u)' = RowsOf(u)
    BY <1>1, <1>3, <1>6 DEF RowsOf
  <2>2. Copying(u) => Copying(u)'
    BY <1>2 DEF GoesOn, Copying
  <2>3. astray'[u] = astray[u] /\ redisPlan'[u] = redisPlan[u]
    BY <1>1, <1>4, <1>6
  <2> QED
    BY <1>4, <2>1, <2>2, <2>3, RedisOthers
<1> QED
  BY <1>5, <1>6

(* A copy brings redis up to date, or its user is blamed. *)
LEMMA RedisCopied ==
  ASSUME TypeOK, IdsOk, RedisInv, NEW w \in Worker, CopyToRedis(w) \/ CopyFails(w)
  PROVE  RedisInv'
<1> USE DEF TypeOK
<1>1. job' = [job EXCEPT ![w] = NoJob] /\ UNCHANGED <<userPlans, today>> /\ Copies(w)
  BY DEF CopyToRedis, CopyFails, tables, Copies, CopySteps
<1>2. GoesOn(w, "idle", {}, {})
  BY <1>1, LetsGo
<1>3. PICK r \in job[w].new :
        /\ \A u \in User \ {r.user} : redisPlan'[u] = redisPlan[u] /\ astray'[u] = astray[u]
        /\ redisPlan'[r.user] = Effective(r.user) \/ "redis" \in astray'[r.user]
  <2>1. CASE CopyToRedis(w)
    <3>1. PICK r \in job[w].new :
            /\ redisPlan' = [redisPlan EXCEPT ![r.user] = job[w].value]
            /\ astray' = [astray EXCEPT ![r.user] =
                 IF job[w].value = Effective(r.user) THEN @ \ {"redis"} ELSE @ \cup {"redis"}]
      BY <2>1 DEF CopyToRedis, SetKeys
    <3>2. r.user \in User
      BY JobTyped DEF UserBillPlan
    <3>3. /\ redisPlan'[r.user] = job[w].value
          /\ \A u \in User \ {r.user} : redisPlan'[u] = redisPlan[u] /\ astray'[u] = astray[u]
      BY <3>1, <3>2 DEF TablesOk, HistoryOk
    <3>4. job[w].value # Effective(r.user) => "redis" \in astray'[r.user]
      BY <3>1, <3>2 DEF HistoryOk
    <3> QED
      BY <3>3, <3>4
  <2>2. CASE CopyFails(w)
    <3>1. PICK r \in job[w].new : astray' = Blame(r.user, {"redis"})
      BY <2>2 DEF CopyFails
    <3>2. r.user \in User
      BY JobTyped DEF UserBillPlan
    <3>3. UNCHANGED redisPlan
      BY <2>2 DEF CopyFails, tables
    <3> QED
      BY <3>1, <3>2, <3>3 DEF Blame, HistoryOk
  <2> QED
    BY <2>1, <2>2
<1>4. job[w].new = {r} /\ r.user \in User
  BY <1>1, <1>3, JobTyped DEF IdsOk, InHand, Copies, CopySteps, UserBillPlan
<1>5. \A u \in User : RowsOf(u)' = RowsOf(u)
  BY <1>1 DEF RowsOf
<1> SUFFICES ASSUME NEW u \in User PROVE CopyKept(u)'
  BY DEF RedisInv
<1>6. CASE u = r.user
  <2>2. RowsOf(u)' = RowsOf(u) /\ InForce(RowsOf(u))' = InForce(RowsOf(u))
    BY <1>1, <1>5 DEF InForce
  <2>1. Effective(u)' = Effective(u)
    BY <2>2 DEF Effective
  <2> QED
    BY <1>3, <1>6, <2>1 DEF CopyKept
<1>7. CASE u # r.user
  <2>1. Copying(u) => Copying(u)'
    BY <1>2, <1>4, <1>7 DEF GoesOn, Copying
  <2> QED
    BY <1>1, <1>3, <1>5, <1>7, <2>1, RedisOthers
<1> QED
  BY <1>6, <1>7

LEMMA RedisSwitched ==
  ASSUME TypeOK, TypeOK', IdsOk, RowsInv, RedisInv, NEW w \in Worker, SaveRenew(w)
  PROVE  RedisInv'
<1> USE DEF TypeOK
<1>1. PICK r \in UserBillPlan, s \in userPlans :
        /\ s.id = r.id /\ s.user = r.user
        /\ userPlans' = (userPlans \ {s}) \cup {r}
        /\ StrayKept(Quotas \cup {"redis", "twins", "overtaken"})
        /\ \A u \in User : "overwritten" \in astray[u] => "overwritten" \in astray'[u]
        /\ "overwritten" \notin astray'[r.user] => s.plan = r.plan /\ s.expire = r.expire
  BY SwitchEffect
<1>2. job' = [job EXCEPT ![w] = NoJob] /\ UNCHANGED <<redisPlan, today>> /\ job[w].pc = "switch"
  BY DEF SaveRenew
<1>3. \A u \in User : Copying(u) => Copying(u)'
  BY <1>2, LetsGo DEF GoesOn, Copying
<1> SUFFICES ASSUME NEW u \in User, ~Copying(u)',
                    astray'[u] \cap {"twins", "overwritten", "redis"} = {},
                    RowsOf(u)' = {} \/ InForce(RowsOf(u))' # {}
             PROVE  redisPlan'[u] = Effective(u)'
  BY DEF RedisInv, CopyKept
<1>4. ~Copying(u) /\ astray[u] \cap {"twins", "overwritten", "redis"} = {}
  BY <1>1, <1>3 DEF StrayKept
<1>5. CASE u # r.user
  <2>1. RowsOf(u)' = RowsOf(u)
    BY <1>1, <1>5 DEF RowsOf
  <2>2. InForce(RowsOf(u))' = InForce(RowsOf(u)) /\ Effective(u)' = Effective(u)
    BY <1>2, <2>1 DEF InForce, Effective
  <2> QED
    BY <1>2, <1>4, <2>1, <2>2 DEF RedisInv, CopyKept
<1>6. CASE u = r.user
  <2>1. RowsOf(u) = {s} /\ RowsOf(u)' = {r}
    <3>1. s \in RowsOf(u) /\ RowsOf(u)' = (RowsOf(u) \ {s}) \cup {r}
      BY <1>1, <1>6 DEF RowsOf
    <3>2. \A t \in RowsOf(u) : t = s
      BY <1>4, <3>1 DEF RowsInv, OneRow
    <3> QED
      BY <3>1, <3>2
  <2>2. s.plan = r.plan /\ s.expire = r.expire
    BY <1>1, <1>6
  <2>3. r.expire > today
    BY <1>2, <2>1 DEF InForce
  <2>4. Effective(u) = s.plan /\ InForce(RowsOf(u)) # {}
    BY <2>1, <2>2, <2>3, OneRowEffective DEF InForce
  <2>5. Effective(u)' = r.plan
    <3>1. InForce(RowsOf(u))' = {r}
      BY <1>2, <2>1, <2>3 DEF InForce
    <3>2. LastRow({r}) = {r}
      BY DEF LastRow, UserBillPlan
    <3>3. (CHOOSE x \in {r} : TRUE) = r
      OBVIOUS
    <3> QED
      BY <3>1, <3>2, <3>3 DEF Effective
  <2> QED
    BY <1>2, <1>4, <2>2, <2>4, <2>5 DEF RedisInv, CopyKept
<1> QED
  BY <1>5, <1>6

(* A plan that is still in force tomorrow is in force today. *)
LEMMA RedisNextDay ==
  ASSUME TypeOK, RowsInv, RedisInv, NextDay
  PROVE  RedisInv'
<1> USE DEF TypeOK
<1>1. today' = today + 1 /\ today \in Nat /\ UNCHANGED <<userPlans, redisPlan, job, astray>>
  BY DEF NextDay, tables, history, TablesOk
<1> SUFFICES ASSUME NEW u \in User, ~Copying(u),
                    astray[u] \cap {"twins", "overwritten", "redis"} = {},
                    RowsOf(u) = {} \/ InForce(RowsOf(u))' # {}
             PROVE  redisPlan[u] = Effective(u)'
  BY <1>1 DEF RedisInv, CopyKept, Copying, RowsOf
<1>2. CASE RowsOf(u) = {}
  <2>1. Effective(u) = Default
    BY <1>2, NoRowEffective
  <2>2. RowsOf(u)' = {} /\ InForce(RowsOf(u))' = {}
    BY <1>1, <1>2 DEF RowsOf, InForce
  <2>3. Effective(u)' = Default
    BY <2>2 DEF Effective
  <2> QED
    BY <1>2, <2>1, <2>3 DEF RedisInv, CopyKept
<1>3. CASE RowsOf(u) # {}
  <2>1. PICK r \in RowsOf(u) : RowsOf(u) = {r}
    BY <1>3 DEF RowsInv, OneRow
  <2>2. r \in UserBillPlan /\ r.expire \in Nat /\ r.id \in Nat
    BY DEF RowsOf, TablesOk, UserBillPlan
  <2>3. RowsOf(u)' = {r}
    BY <1>1, <2>1 DEF RowsOf
  <2>4. r.expire > today + 1
    BY <1>1, <1>3, <2>3 DEF InForce
  <2>5. r.expire > today
    BY <1>1, <2>2, <2>4
  <2>6. Effective(u) = r.plan /\ InForce(RowsOf(u)) # {}
    BY <2>1, <2>5, OneRowEffective DEF InForce
  <2>7. Effective(u)' = r.plan
    <3>1. InForce(RowsOf(u))' = {r}
      BY <1>1, <2>3, <2>4 DEF InForce
    <3>2. LastRow({r}) = {r} /\ (CHOOSE x \in {r} : TRUE) = r
      BY <2>2 DEF LastRow
    <3> QED
      BY <3>1, <3>2 DEF Effective
  <2> QED
    BY <2>6, <2>7 DEF RedisInv, CopyKept
<1> QED
  BY <1>2, <1>3

LEMMA RedisNext ==
  ASSUME TypeOK, TypeOK', IdsOk, RowsInv, RedisInv, [Next]_vars
  PROVE  RedisInv'
<1> USE DEF TypeOK, tables, history
<1> DEFINE Why3 == {"twins", "overwritten", "redis"}
<1>1. ASSUME UNCHANGED <<userPlans, redisPlan, today>>, StrayKept(Why3),
             UNCHANGED job
               \/ \E w \in Worker : \E pc, new, raise :
                    /\ GoesOn(w, pc, new, raise)
                    /\ ~Copies(w) \/ (pc \in CopySteps /\ new = job[w].new)
      PROVE  RedisInv'
  <2>1. \A w \in Worker : Copies(w) => Copies(w)' /\ job'[w].new = job[w].new
    <3>1. CASE UNCHANGED job
      BY <3>1 DEF Copies
    <3>2. CASE ~UNCHANGED job
      <4>1. PICK v \in Worker : \E pc, new, raise :
              /\ GoesOn(v, pc, new, raise)
              /\ ~Copies(v) \/ (pc \in CopySteps /\ new = job[v].new)
        BY <1>1, <3>2
      <4> TAKE w \in Worker
      <4>2. CASE w = v
        BY <4>1, <4>2 DEF GoesOn, Copies
      <4>3. CASE w # v
        BY <4>1, <4>3 DEF GoesOn, Copies
      <4> QED
        BY <4>2, <4>3
    <3> QED
      BY <3>1, <3>2
  <2> QED
    BY <1>1, <2>1, RedisSame
<1>2. UNCHANGED history => StrayKept(Why3)
  BY DEF StrayKept
<1> HIDE DEF Why3
<1>3. ASSUME NEW u \in User, NEW c \in Purchases, BuyBillPlan(c.call, u, c.plan, c.auto)
      PROVE  RedisInv'
  <2>1. UNCHANGED <<userPlans, redisPlan, today, history>>
    BY <1>3 DEF BuyBillPlan
  <2>2. PICK new : GoesOn(c.call, "read", new, {}) /\ c.call \in Worker /\ job[c.call].pc = "idle"
    BY <1>3, BuyGoesOn
  <2>3. ~Copies(c.call)
    BY <2>2 DEF Copies, CopySteps
  <2> QED
    BY <1>1, <1>2, <2>1, <2>2, <2>3
<1>4. ASSUME NEW u \in User, NEW c \in Switches, UpdateRenew(c.call, u, c.auto) PROVE RedisInv'
  <2>1. UNCHANGED <<userPlans, redisPlan, today, history>>
    BY <1>4 DEF UpdateRenew
  <2>2. PICK new : GoesOn(c.call, "switch", new, {}) /\ c.call \in Worker /\ job[c.call].pc = "idle"
    BY <1>4, SwitchGoesOn
  <2>3. ~Copies(c.call)
    BY <2>2 DEF Copies, CopySteps
  <2> QED
    BY <1>1, <1>2, <2>1, <2>2, <2>3
<1>5. CASE RunStart \/ ResetAllUsersQuotas \/ RunFails
  BY <1>1, <1>2, <1>5 DEF RunStart, ResetAllUsersQuotas, RunFails
<1>6. ASSUME NEW p \in Plan, ResetFind(p) PROVE RedisInv'
  BY <1>1, <1>2, <1>6 DEF ResetFind
<1>7. CASE Renew
  <2>1. UNCHANGED <<userPlans, redisPlan, today, history>> /\ job[Cron].pc = "idle"
    BY <1>7 DEF Renew
  <2>2. UNCHANGED job \/ \E new : GoesOn(Cron, "read", new, {})
    BY <1>7, RenewGoesOn
  <2>3. ~Copies(Cron) /\ Cron \in Worker
    BY <2>1 DEF Copies, CopySteps, Worker
  <2> QED
    BY <1>1, <1>2, <2>1, <2>2, <2>3
<1>8. CASE ResetSave
  <2>1. UNCHANGED <<userPlans, redisPlan, today, job>>
    BY <1>8 DEF ResetSave
  <2>2. StrayKept(Why3)
    BY <1>8, GrantsStray DEF StrayKept, Rows, Why3
  <2> QED
    BY <1>1, <2>1, <2>2
<1>9. CASE Crash
  <2> SUFFICES ASSUME NEW u \in User PROVE redisPlan'[u] = Effective(u)'
    BY DEF RedisInv, CopyKept
  <2>1. UNCHANGED <<userPlans, today>> /\ redisPlan'[u] = Effective(u)
    BY <1>9 DEF Crash, FindAllUsersEffectivePlan
  <2> QED
    BY <2>1 DEF Effective, InForce, RowsOf
<1>10. ASSUME NEW w \in Worker, Insufficient(w) \/ BuyFails(w) PROVE RedisInv'
  <2>1. /\ UNCHANGED <<userPlans, redisPlan, today, history>> /\ job' = [job EXCEPT ![w] = NoJob]
        /\ job[w].pc \in {"read", "saved", "raised"}
    BY <1>10 DEF Insufficient, BuyFails, Rollback
  <2>2. GoesOn(w, "idle", {}, {})
    BY <2>1, LetsGo
  <2>3. ~Copies(w)
    BY <2>1 DEF Copies, CopySteps
  <2> QED
    BY <1>1, <1>2, <2>1, <2>2, <2>3
<1>11. ASSUME NEW w \in Worker, SavePlan(w) PROVE RedisInv'
  <2>1. UNCHANGED <<userPlans, redisPlan, today, history>> /\ job[w].pc = "read"
    BY <1>11 DEF SavePlan
  <2>2. \E new, raise : GoesOn(w, "saved", new, raise)
    BY <1>11, SaveGoesOn
  <2>3. ~Copies(w)
    BY <2>1 DEF Copies, CopySteps
  <2> QED
    BY <1>1, <1>2, <2>1, <2>2, <2>3
<1>12. ASSUME NEW w \in Worker, RaiseQuota(w) \/ HandlerFails(w) PROVE RedisInv'
  <2>1. UNCHANGED <<userPlans, redisPlan, today>>
    BY <1>12 DEF RaiseQuota, HandlerFails
  <2>2. job[w].pc = "saved" /\ GoesOn(w, "raised", job[w].new, {})
    BY <1>12, RaiseGoesOn
  <2>3. ~Copies(w)
    BY <2>2 DEF Copies, CopySteps
  <2>4. StrayKept(Why3)
    BY <1>12, GrantsStray DEF StrayKept, Rows, Why3
  <2> QED
    BY <1>1, <2>1, <2>2, <2>3, <2>4
<1>13. ASSUME NEW w \in Worker, CopyRead(w) PROVE RedisInv'
  <2>1. UNCHANGED <<userPlans, redisPlan, today, history>>
    BY <1>13 DEF CopyRead
  <2>2. InHand(w) /\ \A u \in User : Effective(u) \in Plan
    BY EffectiveTyped DEF IdsOk
  <2>3. GoesOn(w, "copying", job[w].new, job[w].raise) /\ "copying" \in CopySteps
    BY <1>13, <2>2, CopyGoesOn DEF CopySteps
  <2> QED
    BY <1>1, <1>2, <2>1, <2>3
<1>14. ASSUME NEW w \in Worker, BuySteps(w) PROVE RedisInv'
  BY <1>10, <1>11, <1>12, <1>13, <1>14, RedisPaid, RedisCopied, RedisSwitched DEF BuySteps
<1>15. CASE UNCHANGED vars
  BY <1>1, <1>2, <1>15 DEF vars
<1> QED
  BY <1>3, <1>4, <1>5, <1>6, <1>7, <1>8, <1>9, <1>10, <1>12, <1>14, <1>15,
     RedisCopied, RedisNextDay DEF Next, RunSteps, CallSteps, Worker
-----------------------------------------------------------------------------
Inv == TypeOK /\ IdsOk /\ RowsInv /\ QuotaInv /\ RedisInv

LEMMA InitInv == Init => Inv
<1> SUFFICES ASSUME Init PROVE Inv
  OBVIOUS
<1>1. TypeOK /\ IdsOk
  BY InitType
<1>2. \A u \in User : RowsOf(u) = {} /\ bought[u].expire = 0 /\ bought[u].plan = Default
  BY DEF Init, RowsOf, NoPurchase
<1>3. RowsInv
  BY <1>2 DEF RowsInv, OneRow, LastBought
<1>4. \A w \in Worker : job[w].pc = "idle" /\ job[w].new = {} /\ job[w].raise = {}
  BY NoJobTyped DEF Init, NoneInHand
<1>5. QuotaInv
  <2>1. \A u \in User : ~(bought[u].expire > today)
    BY <1>2 DEF Init
  <2> QED
    BY <1>4, <2>1 DEF QuotaInv, RaiseKept, QuotaKept, Saving
<1>6. RedisInv
  BY <1>2, NoRowEffective DEF Init, RedisInv, CopyKept
<1> QED
  BY <1>1, <1>3, <1>5, <1>6 DEF Inv

LEMMA NextInv == Inv /\ [Next]_vars => Inv'
<1> SUFFICES ASSUME Inv, [Next]_vars PROVE Inv'
  OBVIOUS
<1>1. TypeOK'
  BY TypeNext DEF Inv
<1>2. IdsOk' /\ RowsInv'
  BY <1>1, IdsNext, RowsNext DEF Inv
<1>3. QuotaInv' /\ RedisInv'
  BY <1>1, QuotaNext, RedisNext DEF Inv
<1> QED
  BY <1>1, <1>2, <1>3 DEF Inv

LEMMA Invariant == Spec => []Inv
<1> QED
  BY InitInv, NextInv, PTL DEF Spec

(* The rows, the quotas and what is under way keep their form (user_bill_plan.go,
   user_api_quota.go), whatever the calls, the daily run and their failures do. *)
THEOREM BillPlanTypeCorrect == Spec => []TypeOK
<1>1. Inv => TypeOK
  BY DEF Inv
<1> QED
  BY <1>1, Invariant, PTL

(* user_bill_plan.go:94: the plan in effect is the one bought last, until
   it expires; unless two first purchases met, an older row was saved over it, or the
   run renewed what it had listed before the purchase. *)
THEOREM PurchasesAreKept == Spec => []PurchaseKept
<1>1. Inv => PurchaseKept
  BY RowsGivePurchase DEF Inv, PurchaseKept, PurchaseKeptOf, Kept
<1> QED
  BY <1>1, Invariant, PTL

(* user_api_quota.go:94-141: who has a plan in force has been given its quota, unless a
   late reset or a failed handler is to blame. *)
THEOREM PaidQuotasAreGiven == Spec => []PaidQuotaGiven
<1>1. Inv => PaidQuotaGiven
  <2> SUFFICES ASSUME Inv, NEW u \in User, bought[u].expire > today, astray[u] \subseteq {"redis"}
               PROVE  quota[u].count >= Count[bought[u].plan]
    BY DEF PaidQuotaGiven
  <2>1. Kept(u) /\ ~Misgiven(u)
    BY DEF Kept, Misgiven
  <2> QED
    BY <2>1 DEF Inv, QuotaInv, QuotaKept, Given
<1> QED
  BY <1>1, Invariant, PTL

(* redis_plan.go:15: when no purchase is under way the gateway has the plan in effect,
   but for copies that failed or came late, and plans that have expired. *)
THEOREM RedisPlansAreCurrent == Spec => []RedisPlanCurrent
<1>1. Inv => RedisPlanCurrent
  <2> SUFFICES ASSUME Inv, NEW u \in User, Buying(u) = {},
                      astray[u] \cap {"twins", "overwritten", "redis"} = {},
                      RowsOf(u) = {} \/ InForce(RowsOf(u)) # {}
               PROVE  redisPlan[u] = Effective(u)
    BY DEF RedisPlanCurrent
  <2>1. ~Copying(u)
    BY DEF Copying, Buying
  <2> QED
    BY <2>1 DEF Inv, RedisInv, CopyKept
<1> QED
  BY <1>1, Invariant, PTL
=============================================================================
