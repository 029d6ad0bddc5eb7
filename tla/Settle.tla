------------------------------- MODULE Settle -------------------------------
(***************************************************************************)
(* server/services/settle.go.  The gateway counts API calls in redis, one  *)
(* counter per user and cost type.  The settle loop charges each counter   *)
(* to the quotas and then to the balance in MySQL, notes on a stack what   *)
(* was charged, and lowers the counter; RefundApiCost pops that stack.     *)
(* The two exclude each other by settleLock.  Deposits, withdrawals,       *)
(* bought quotas and the resets of the plans happen meanwhile.             *)
(*                                                                         *)
(* A posting to the ledger is one step here: BalanceLedger has its         *)
(* detail. The reads of one user's rows are one step too: no other actor   *)
(* touches two of them in a way that a later read of one would tell.       *)
(***************************************************************************)
EXTENDS FiatAmount, Naturals, FiniteSets, Sequences, FiniteSetsExt

CONSTANTS
  User, CostType,
  Price,           \* GetApiPrice of each key
  Arrears, InitialBalance, InitialQuota,
  CallSizes,       \* what the gateway adds to a counter at once
  DepositAmounts, WithdrawAmounts, RolloverCounts, RefundCounts,
  PlanQuotas,      \* what a plan resets: functions from cost types to counts
  MaxCalls, MaxMoves, MaxResets, MaxRefunds, MaxFaults,  \* bounds
  MaxCount         \* bound on the counters a pass starts from

(* A counter, a quota row and a stack each belong to a user and a cost type. *)
Key == User \X CostType
Quota == [reset : Int, rollover : Int]
IsPlanQuota(q) == DOMAIN q \subseteq CostType /\ q \in [DOMAIN q -> Nat]
SettleType == {"reset", "rollover", "balance"}
Item == [type : SettleType, count : Nat]

ASSUME SettleAssumption ==
  /\ User # {} /\ CostType # {}
  /\ Price \in [Key -> Nat]
  /\ Arrears \in [User -> Int]
  /\ InitialBalance \in [User -> Int]
  /\ InitialQuota \in [Key -> Quota]
  /\ CallSizes \subseteq Nat
  /\ DepositAmounts \subseteq Nat /\ WithdrawAmounts \subseteq Nat
  /\ RolloverCounts \subseteq Nat /\ RefundCounts \subseteq Nat
  /\ \A q \in PlanQuotas : IsPlanQuota(q)
  /\ MaxCalls \in Nat /\ MaxMoves \in Nat /\ MaxResets \in Nat
  /\ MaxRefunds \in Nat /\ MaxFaults \in Nat /\ MaxCount \in Nat

(* user_balances.balance and arrears_quota are decimal(20,2), and whole fen are
   deposited. *)
ASSUME WholeFenAssumption ==
  /\ \A u \in User : WholeFen(InitialBalance[u]) /\ WholeFen(Arrears[u])
  /\ \A a \in DepositAmounts \cup WithdrawAmounts : WholeFen(a)

VARIABLES
  count,       \* redis: calls not settled yet
  quota,       \* MySQL: user_api_quota
  balance,     \* MySQL: user_balances
  leftover,    \* MySQL: last unsettled amount of fees and of refunds
  stack,       \* MySQL: user_settleds.stack
  settleLock,  \* "free", or who holds it
  pass,        \* the settle loop
  refund,      \* the RefundApiCost in progress
  plan,        \* the quota reset in progress
  used,        \* history: calls the gateway counted
  charged,     \* history: calls charged, by what they were charged to
  refunded,    \* history: calls paid back
  forgiven,    \* history: calls taken off a counter twice
  moves, resets, refunds, faults  \* how often each has happened

store == <<quota, balance, leftover, stack>>
history == <<used, charged, refunded, forgiven>>
bounds == <<moves, resets, refunds, faults>>
vars == <<count, store, settleLock, pass, refund, plan, history, bounds>>

Nothing == [t \in SettleType |-> 0]
FirstKey == CHOOSE k \in Key : TRUE
NoPass ==
  [at |-> "idle", key |-> FirstKey, due |-> Nothing, todo |-> {}, loaded |-> {},
   seen |-> [k \in Key |-> 0], balance |-> [u \in User |-> 0],
   quota |-> [k \in Key |-> [reset |-> 0, rollover |-> 0]]]
NoRefund == [at |-> "idle", key |-> FirstKey, left |-> 0, data |-> << >>]
NoPlan ==
  [at |-> "idle", user |-> FirstKey[1], quotas |-> << >>,
   rollover |-> [t \in CostType |-> 0]]

Init ==
  /\ count = [k \in Key |-> 0]
  /\ quota = InitialQuota
  /\ balance = InitialBalance
  /\ leftover = [u \in User |-> [fee |-> 0, refund |-> 0]]
  /\ stack = [k \in Key |-> << >>]
  /\ settleLock = "free"
  /\ pass = NoPass
  /\ refund = NoRefund
  /\ plan = NoPlan
  /\ used = [k \in Key |-> 0]
  /\ charged = [k \in Key |-> Nothing]
  /\ refunded = [k \in Key |-> Nothing]
  /\ forgiven = [k \in Key |-> 0]
  /\ moves = 0 /\ resets = 0 /\ refunds = 0 /\ faults = 0
-----------------------------------------------------------------------------
Lesser(a, b) == IF a <= b THEN a ELSE b
Positive(n) == IF n > 0 THEN n ELSE 0
(* decimal.Div(price).BigInt(): towards zero. *)
TruncDiv(a, b) == IF a >= 0 THEN a \div b ELSE -((-a) \div b)
InQuota(due) == due["reset"] + due["rollover"]
TotalOf(due) == InQuota(due) + due["balance"]
Sum3(a, b) == [t \in SettleType |-> a[t] + b[t]]

(* calc cost: what n calls take from a quota row, then from the balance; what
   the balance cannot pay is left on the counter. *)
DueOf(k, n, q, available) ==
  LET inQuota == Lesser(n, q.reset + q.rollover)
      inReset == Lesser(inQuota, q.reset)
      rest == n - inQuota
  IN [reset |-> inReset,
      rollover |-> inQuota - inReset,
      balance |-> IF Price[k] > 0 THEN Lesser(rest, TruncDiv(available, Price[k]))
                                  ELSE rest]

(* What the transaction takes: the quotas if InQuota is positive, the balance
   if its part is. *)
ChargeOf(due) ==
  [t \in SettleType |->
     IF t = "balance" THEN Positive(due[t])
                      ELSE IF InQuota(due) > 0 THEN due[t] ELSE 0]

(* One entry of the stack: data is what is to be saved, old is us.Stack.Data(). *)
PushOne(s, t, n) ==
  LET last == Len(s.data) IN
  IF n <= 0 THEN s
  ELSE IF last > 0 /\ s.data[last].type = t
  THEN LET d == [s.data EXCEPT ![last] = [type |-> t, count |-> s.data[last].count + n]]
       IN [old |-> d, data |-> d]
  ELSE [old |-> s.old, data |-> Append(s.old, [type |-> t, count |-> n])]

Push(data, due) ==
  LET a == PushOne([old |-> data, data |-> data], "reset", due["reset"])
      b == PushOne(a, "rollover", due["rollover"])
  IN PushOne(b, "balance", due["balance"]).data

(* A posting of the given kind: its row carries the remainder, then the balance
   is stored. *)
LogFee(u, kind, amount) ==
  LET s == CalcLeftover(amount + leftover[u][kind])
  IN leftover' = [leftover EXCEPT ![u] = [@ EXCEPT ![kind] = s.leftover]]
PostFee(u, kind, amount) ==
  LET s == CalcLeftover(amount + leftover[u][kind]) IN
  /\ balance' = [balance EXCEPT ![u] = @ + s.amount]
  /\ LogFee(u, kind, amount)
-----------------------------------------------------------------------------
(* The gateway counts n calls. *)
ApiCall(k, n) ==
  /\ used[k] + n <= MaxCalls
  /\ count' = [count EXCEPT ![k] = @ + n]
  /\ used' = [used EXCEPT ![k] = @ + n]
  /\ UNCHANGED <<store, settleLock, pass, refund, plan, charged, refunded, forgiven,
                 bounds>>

(* DepositBalance and WithdrawBalance: a checked posting of whole fen. *)
MoveBalance(u, amount) ==
  /\ moves < MaxMoves
  /\ balance[u] + Arrears[u] + amount >= 0
  /\ moves' = moves + 1
  /\ balance' = [balance EXCEPT ![u] = @ + amount]
  /\ UNCHANGED <<count, quota, leftover, stack, settleLock, pass, refund, plan,
                 history, resets, refunds, faults>>

(* depositRollover: count_rollover = count_rollover + n *)
DepositRollover(k, n) ==
  /\ moves < MaxMoves
  /\ moves' = moves + 1
  /\ quota' = [quota EXCEPT ![k] = [reset |-> @.reset, rollover |-> @.rollover + n]]
  /\ UNCHANGED <<count, balance, leftover, stack, settleLock, pass, refund, plan,
                 history, resets, refunds, faults>>
-----------------------------------------------------------------------------
(* resetQuotaByPlan, when the next refresh of a plan is due. *)
ResetQuotaByPlan(u, q) ==
  /\ resets < MaxResets
  /\ plan.at = "idle"
  /\ resets' = resets + 1
  /\ plan' = [plan EXCEPT !.at = "read", !.user = u, !.quotas = q]
  /\ UNCHANGED <<count, store, settleLock, pass, refund, history, moves, refunds,
                 faults>>

(* ResetQuotaOnPlanUpdated: only what the new plan raises. *)
ResetQuotaOnPlanUpdated(u, q) ==
  LET needUpdates == {t \in DOMAIN q : quota[<<u, t>>].reset < q[t]} IN
  /\ needUpdates # {}
  /\ ResetQuotaByPlan(u, [t \in needUpdates |-> q[t]])

(* Reset: find the rows ... *)
ResetFind ==
  /\ plan.at = "read"
  /\ plan' = [plan EXCEPT !.at = "save",
                          !.rollover = [t \in CostType |-> quota[<<plan.user, t>>].rollover]]
  /\ UNCHANGED <<count, store, settleLock, pass, refund, history, bounds>>

(* ... and save them whole, count_rollover included. *)
ResetSave ==
  /\ plan.at = "save"
  /\ quota' = [k \in Key |->
       IF k[1] = plan.user /\ k[2] \in DOMAIN plan.quotas
       THEN [reset |-> plan.quotas[k[2]], rollover |-> plan.rollover[k[2]]]
       ELSE quota[k]]
  /\ plan' = NoPlan
  /\ UNCHANGED <<count, balance, leftover, stack, settleLock, pass, refund, history,
                 bounds>>
-----------------------------------------------------------------------------
(* Faulty variant: a counter of one is left alone. *)
UserCountsAboveOne == {k \in Key : count[k] > 1}

(* GetUserCounts: the counters above zero. *)
UserCounts == {k \in Key : count[k] > 0}

BeginPass ==
  /\ pass.at = "idle" /\ settleLock = "free"
  /\ UserCounts # {}
  /\ \A k \in Key : count[k] <= MaxCount
  /\ settleLock' = "settle"
  /\ pass' = [NoPass EXCEPT !.at = "next", !.todo = UserCounts, !.seen = count]
  /\ UNCHANGED <<count, store, refund, plan, history, bounds>>

(* The rows of a user are read once in a pass. *)
Loaded(u) ==
  IF u \in pass.loaded THEN pass
  ELSE [pass EXCEPT !.loaded = @ \cup {u},
                    !.balance = [@ EXCEPT ![u] = balance[u]],
                    !.quota = [j \in Key |-> IF j[1] = u THEN quota[j] ELSE pass.quota[j]]]

(* The pass takes a key. *)
PickKey(k) ==
  LET rows == Loaded(k[1])
      due == DueOf(k, pass.seen[k], rows.quota[k], rows.balance[k[1]] + Arrears[k[1]])
  IN
  /\ pass.at = "next" /\ k \in pass.todo
  /\ pass' = [rows EXCEPT !.todo = @ \ {k}, !.key = k, !.due = due,
                          !.at = IF InQuota(due) = 0 /\ due["balance"] = 0
                                 THEN "next" ELSE "pay"]
  /\ UNCHANGED <<count, store, settleLock, refund, plan, history, bounds>>

(* The quotas of a key in memory, lowered by what was due. *)
Lowered(k, due) ==
  [reset |-> pass.quota[k].reset - due["reset"],
   rollover |-> pass.quota[k].rollover - due["rollover"]]

(* Faulty variant: the balance in memory is not lowered. *)
RememberQuota(k, due) ==
  [pass EXCEPT !.at = "decr", !.quota = [@ EXCEPT ![k] = Lowered(k, due)]]

(* update state on memory *)
Remember(k, due) ==
  LET left == pass.balance[k[1]] - Price[k] * due["balance"] IN
  [pass EXCEPT !.at = "decr",
               !.quota = [@ EXCEPT ![k] = Lowered(k, due)],
               !.balance = [@ EXCEPT ![k[1]] = left]]

(* update mysql, in one transaction, and then the state on memory *)
PayKey ==
  LET k == pass.key
      due == pass.due
      charge == ChargeOf(due)
  IN
  /\ pass.at = "pay"
  /\ quota' = [quota EXCEPT ![k] = [reset |-> @.reset - charge["reset"],
                                    rollover |-> @.rollover - charge["rollover"]]]
  /\ PostFee(k[1], "fee", -(Price[k] * charge["balance"]))
  /\ stack' = [stack EXCEPT ![k] = Push(@, due)]
  /\ charged' = [charged EXCEPT ![k] = Sum3(@, charge)]
  /\ pass' = Remember(k, due)
  /\ UNCHANGED <<count, settleLock, refund, plan, used, refunded, forgiven, bounds>>

(* Faulty variant: SET to what remains of the count that was read. *)
SetCount ==
  LET k == pass.key IN
  /\ pass.at = "decr"
  /\ count' = [count EXCEPT ![k] = pass.seen[k] - TotalOf(pass.due)]
  /\ pass' = [pass EXCEPT !.at = "next"]
  /\ UNCHANGED <<store, settleLock, refund, plan, history, bounds>>

(* DECRBY of what was charged; calls counted meanwhile stay. *)
DecrCount ==
  LET k == pass.key IN
  /\ pass.at = "decr"
  /\ count' = [count EXCEPT ![k] = @ - TotalOf(pass.due)]
  /\ pass' = [pass EXCEPT !.at = "next"]
  /\ UNCHANGED <<store, settleLock, refund, plan, history, bounds>>

EndPass ==
  /\ pass.at = "next" /\ pass.todo = {}
  /\ pass' = NoPass
  /\ settleLock' = "free"
  /\ UNCHANGED <<count, store, refund, plan, history, bounds>>
-----------------------------------------------------------------------------
(* A refund of n calls reads the stack; an empty one is an error. *)
RefundBegin(k, n) ==
  /\ refunds < MaxRefunds
  /\ settleLock = "free" /\ refund.at = "idle"
  /\ stack[k] # << >>
  /\ settleLock' = "refund"
  /\ refunds' = refunds + 1
  /\ refund' = [at |-> "pop", key |-> k, left |-> n, data |-> stack[k]]
  /\ UNCHANGED <<count, store, pass, plan, history, moves, resets, faults>>

Popping == refund.at = "pop" /\ refund.left > 0 /\ refund.data # << >>
Top == refund.data[Len(refund.data)]
(* Faulty variant: the item is not looked at. *)
MatchAll == refund.left
MatchCount == Lesser(Top.count, refund.left)

Returned == [t \in SettleType |-> IF t = Top.type THEN MatchCount ELSE 0]

(* Refund of UserQuotaOperator, or RefundApiFee, outside of a transaction. *)
RepayQuota ==
  /\ quota' = [quota EXCEPT ![refund.key] =
                 [reset |-> @.reset + Returned["reset"],
                  rollover |-> @.rollover + Returned["rollover"]]]
  /\ UNCHANGED <<balance, leftover>>
RepayFee ==
  /\ PostFee(refund.key[1], "refund", Price[refund.key] * MatchCount)
  /\ UNCHANGED quota
Repay == IF Top.type = "balance" THEN RepayFee ELSE RepayQuota
NoteRefunded == refunded' = [refunded EXCEPT ![refund.key] = Sum3(@, Returned)]

(* The last item of the stack is paid back, whole or in part. *)
RefundItem ==
  LET n == Len(refund.data) IN
  /\ Popping
  /\ Repay
  /\ NoteRefunded
  /\ refund' = [refund EXCEPT
       !.left = @ - MatchCount,
       !.data = IF MatchCount = Top.count THEN SubSeq(@, 1, n - 1)
                ELSE [@ EXCEPT ![n] = [type |-> Top.type,
                                       count |-> Top.count - MatchCount]]]
  /\ UNCHANGED <<count, stack, settleLock, pass, plan, used, charged, forgiven, bounds>>

(* Faulty variant: the stack is not saved. *)
RefundUnsaved ==
  /\ refund.at = "pop" /\ ~Popping
  /\ refund' = NoRefund
  /\ settleLock' = "free"
  /\ UNCHANGED <<count, store, pass, plan, history, bounds>>

(* Everything asked for is paid back, or the stack is empty: it is saved. *)
RefundSave ==
  /\ refund.at = "pop" /\ ~Popping
  /\ stack' = [stack EXCEPT ![refund.key] = refund.data]
  /\ refund' = NoRefund
  /\ settleLock' = "free"
  /\ UNCHANGED <<count, quota, balance, leftover, pass, plan, history, bounds>>
-----------------------------------------------------------------------------
Fault == faults < MaxFaults /\ faults' = faults + 1

(* One of the reads for a key fails, before or after those of the rows. *)
SkipKey(k) ==
  /\ Fault
  /\ pass.at = "next" /\ k \in pass.todo
  /\ \E rows \in {pass, Loaded(k[1])} : pass' = [rows EXCEPT !.todo = @ \ {k}]
  /\ UNCHANGED <<count, store, settleLock, refund, plan, history, moves, resets,
                 refunds>>

(* Faulty variant: the loop does not go on with the next key. *)
PayFailsUnnoticed ==
  /\ Fault
  /\ pass.at = "pay"
  /\ pass' = [pass EXCEPT !.at = "decr"]
  /\ UNCHANGED <<count, store, settleLock, refund, plan, history, moves, resets,
                 refunds>>

(* The transaction is rolled back: the loop goes on with the next key. *)
PayFails ==
  /\ Fault
  /\ pass.at = "pay"
  /\ pass' = [pass EXCEPT !.at = "next"]
  /\ UNCHANGED <<count, store, settleLock, refund, plan, history, moves, resets,
                 refunds>>

(* DECRBY fails: the error is only logged. *)
DecrFails ==
  /\ Fault
  /\ pass.at = "decr"
  /\ pass' = [pass EXCEPT !.at = "next"]
  /\ UNCHANGED <<count, store, settleLock, refund, plan, history, moves, resets,
                 refunds>>

(* Its reply is lost and the client sends it again. *)
DecrRepeated ==
  LET k == pass.key
      n == TotalOf(pass.due)
  IN
  /\ Fault
  /\ pass.at = "decr"
  /\ count' = [count EXCEPT ![k] = @ - 2 * n]
  /\ forgiven' = [forgiven EXCEPT ![k] = @ + Positive(n)]
  /\ pass' = [pass EXCEPT !.at = "next"]
  /\ UNCHANGED <<store, settleLock, refund, plan, used, charged, refunded, moves,
                 resets, refunds>>

(* RefundApiCost returns an error: the stack is not saved, what was paid back
   stays.  The item that fails may be half done, outside of a transaction: a
   quota is raised before the row is logged, a fee is logged before the balance
   is stored. *)
RefundFails ==
  /\ Fault
  /\ refund.at = "pop"
  /\ \/ UNCHANGED <<quota, balance, leftover, refunded>>
     \/ Popping /\ Top.type # "balance" /\ RepayQuota /\ NoteRefunded
     \/ /\ Popping /\ Top.type = "balance"
        /\ LogFee(refund.key[1], "refund", Price[refund.key] * MatchCount)
        /\ UNCHANGED <<quota, balance, refunded>>
  /\ refund' = NoRefund
  /\ settleLock' = "free"
  /\ UNCHANGED <<count, stack, pass, plan, used, charged, forgiven, moves, resets,
                 refunds>>

(* The server dies: MySQL and redis remain. *)
Crash ==
  /\ Fault
  /\ pass' = NoPass /\ refund' = NoRefund /\ plan' = NoPlan
  /\ settleLock' = "free"
  /\ UNCHANGED <<count, store, history, moves, resets, refunds>>
-----------------------------------------------------------------------------
SettleStep ==
  \/ BeginPass
  \/ \E k \in Key : PickKey(k)
  \/ PayKey
  \/ DecrCount
  \/ EndPass

RefundStep == RefundItem \/ RefundSave

Others ==
  \/ \E k \in Key :
       \/ \E n \in CallSizes : ApiCall(k, n)
       \/ \E n \in RolloverCounts : DepositRollover(k, n)
       \/ \E n \in RefundCounts : RefundBegin(k, n)
  \/ \E u \in User :
       \/ \E a \in DepositAmounts : MoveBalance(u, a)
       \/ \E a \in WithdrawAmounts : MoveBalance(u, -a)
       \/ \E q \in PlanQuotas :
            ResetQuotaByPlan(u, q) \/ ResetQuotaOnPlanUpdated(u, q)
  \/ ResetFind \/ ResetSave

Faults ==
  \/ \E k \in Key : SkipKey(k)
  \/ PayFails \/ DecrFails \/ DecrRepeated
  \/ RefundFails
  \/ Crash

(* The loop sleeps. *)
Rest == pass.at = "idle" /\ refund.at = "idle" /\ UNCHANGED vars

Next == SettleStep \/ RefundStep \/ Others \/ Faults \/ Rest

Spec == Init /\ [][Next]_vars

(* LoopSettle runs for ever, and a handler that has the lock is scheduled. *)
FairSpec == Spec /\ WF_vars(SettleStep) /\ WF_vars(RefundStep)
-----------------------------------------------------------------------------
(* Every variable keeps its type. *)
TypeOK ==
  /\ count \in [Key -> Int]
  /\ quota \in [Key -> Quota]
  /\ balance \in [User -> Int]
  /\ leftover \in [User -> [fee : Int, refund : Int]]
  /\ stack \in [Key -> Seq(Item)]
  /\ settleLock \in {"free", "settle", "refund"}
  /\ pass \in [at : {"idle", "next", "pay", "decr"}, key : Key,
               due : [SettleType -> Int], todo : SUBSET Key, loaded : SUBSET User,
               seen : [Key -> Int], balance : [User -> Int], quota : [Key -> Quota]]
  /\ refund \in [at : {"idle", "pop"}, key : Key, left : Nat, data : Seq(Item)]
  /\ plan \in [at : {"idle", "read", "save"}, user : User, quotas : {plan.quotas},
               rollover : [CostType -> Int]]
  /\ IsPlanQuota(plan.quotas)
  /\ used \in [Key -> Nat] /\ forgiven \in [Key -> Nat]
  /\ charged \in [Key -> [SettleType -> Int]]
  /\ refunded \in [Key -> [SettleType -> Nat]]
  /\ moves \in Nat /\ resets \in Nat /\ refunds \in Nat /\ faults \in Nat

(* settle.go:196-210: no call goes free.  What was charged and what is still on
   the counter make up for every call that was counted, whatever fails between
   MySQL and redis, whatever a reset does to the quotas and however short the
   balance is; only a DECRBY applied twice takes a call off for nothing. *)
NoFreeCalls ==
  \A k \in Key : used[k] <= count[k] + TotalOf(charged[k]) + forgiven[k]

Funded(u) == InitialBalance[u] + Arrears[u] >= 0
InCredit(q) == q.reset >= 0 /\ q.rollover >= 0

(* The settle loop by itself never takes a user below the arrears quota, nor more of
   a quota than there is, though it pays unchecked, from balances and quotas read at
   the start of the pass, for several cost types, with fractions of a fen carried;
   when nobody withdraws, and no plan resets the quotas. *)
NeverOverdraws ==
  /\ WithdrawAmounts = {} =>
       \A u \in User : Funded(u) => balance[u] + Arrears[u] >= 0
  /\ PlanQuotas = {} =>
       \A k \in Key : InCredit(InitialQuota[k]) => InCredit(quota[k])

PartOf(item, t) == IF item.type = t THEN item.count ELSE 0
OnStack(items, t) == SumFunction([i \in DOMAIN items |-> PartOf(items[i], t)])
(* What may still be refunded: a refund in progress holds the stack. *)
Refundable(k) ==
  IF refund.at = "pop" /\ refund.key = k THEN refund.data ELSE stack[k]

(* settle.go:36 "记录扣费堆栈：退费时根据堆栈退还": what was and what can be paid
   back to a quota or to the balance never exceeds what was taken from it. *)
RefundsCovered ==
  \A k \in Key, t \in SettleType :
    refunded[k][t] + OnStack(Refundable(k), t) <= charged[k][t]

Unaffordable(k) ==
  /\ Price[k] > 0
  /\ quota[k].reset + quota[k].rollover <= 0
  /\ balance[k[1]] + Arrears[k[1]] < Price[k]

Solvent == \A u \in User : balance[u] + Arrears[u] >= 0
Settled == \A k \in Key : count[k] <= 0 \/ Unaffordable(k)

(* Every counted call is settled at last, or there is nothing to pay it with:
   failed passes are made up for, and new calls do not starve a key.  Unless a
   withdrawal overtakes a pass: below the arrears quota settle.go:130 raises the
   counter itself. *)
EverythingSettled == []Solvent => <>[]Settled

(* A charge that is committed and not taken off the counter yet. *)
InFlight(k) == IF pass.at = "decr" /\ pass.key = k THEN TotalOf(pass.due) ELSE 0

Meter == INSTANCE Metering WITH
  owed <- [k \in Key |-> count[k] - InFlight(k)],
  paid <- [k \in Key |-> TotalOf(charged[k])]

(* Without faults, resets and withdrawals, the loop over redis and MySQL, with
   calls, deposits and refunds in between, is a meter: each call is counted
   once and charged at most once, and no charge exceeds what is owed. *)
ImplementsMeter == Meter!MeterSpec
=============================================================================
