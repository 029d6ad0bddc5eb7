---------------------------- MODULE SettleProofs ----------------------------
(***************************************************************************)
(* Theorems about Settle, for every set of users and cost types, every     *)
(* price, quota and balance, and every bound: types; no call goes free     *)
(* however redis and MySQL fail in between; the loop never overdraws; what *)
(* is refunded was charged; and the whole implements Metering.             *)
(***************************************************************************)
EXTENDS Settle, AmountProofs, SequenceTheorems

Due == [SettleType -> Int]
Pass ==
  [at : {"idle", "next", "pay", "decr"}, key : Key, due : Due, todo : SUBSET Key,
   loaded : SUBSET User, seen : [Key -> Int], balance : [User -> Int],
   quota : [Key -> Quota]]
Refund == [at : {"idle", "pop"}, key : Key, left : Nat, data : Seq(Item)]

(* A key is there to stand for "no key". *)
LEMMA FirstKeyIsKey == FirstKey \in Key /\ FirstKey[1] \in User
<1>1. PICK u \in User, t \in CostType : TRUE
  BY SettleAssumption
<1>2. <<u, t>> \in Key
  BY DEF Key
<1> QED
  BY <1>2 DEF FirstKey, Key

(* What rests is well typed. *)
LEMMA IdleTyped ==
  /\ NoPass \in Pass
  /\ NoRefund \in Refund
  /\ NoPlan \in [at : {"idle", "read", "save"}, user : User, quotas : {NoPlan.quotas},
                 rollover : [CostType -> Int]]
  /\ IsPlanQuota(NoPlan.quotas)
<1>1. NoPass \in Pass
  BY FirstKeyIsKey DEF NoPass, Pass, Due, Nothing, Quota
<1>2. NoRefund \in Refund
  BY FirstKeyIsKey DEF NoRefund, Refund
<1>3. NoPlan \in [at : {"idle", "read", "save"}, user : User, quotas : {NoPlan.quotas},
                  rollover : [CostType -> Int]]
  BY FirstKeyIsKey DEF NoPlan
<1>4. IsPlanQuota(NoPlan.quotas)
  BY DEF NoPlan, IsPlanQuota
<1> QED
  BY <1>1, <1>2, <1>3, <1>4

(* TypeOK in parts: a leaf takes the part it needs. *)
LEMMA Types ==
  ASSUME TypeOK
  PROVE  /\ count \in [Key -> Int] /\ used \in [Key -> Nat] /\ forgiven \in [Key -> Nat]
         /\ quota \in [Key -> Quota]
         /\ balance \in [User -> Int]
         /\ stack \in [Key -> Seq(Item)]
         /\ charged \in [Key -> Due] /\ refunded \in [Key -> [SettleType -> Nat]]
         /\ pass \in Pass /\ refund \in Refund
         /\ moves \in Nat /\ resets \in Nat /\ refunds \in Nat /\ faults \in Nat
BY DEF TypeOK, Pass, Due, Refund

(* What a transaction takes covers what is then taken off the counter. *)
LEMMA ChargeCoversDue ==
  ASSUME NEW due \in Due
  PROVE  /\ ChargeOf(due) \in Due
         /\ TotalOf(due) \in Int
         /\ TotalOf(ChargeOf(due)) >= TotalOf(due)
         /\ TotalOf(ChargeOf(due)) >= 0
<1>1. due["reset"] \in Int /\ due["rollover"] \in Int /\ due["balance"] \in Int
  BY DEF Due, SettleType
<1>2. ChargeOf(due) \in Due
  BY <1>1 DEF ChargeOf, Due, SettleType, Positive, InQuota
<1>3. /\ ChargeOf(due)["reset"] = IF InQuota(due) > 0 THEN due["reset"] ELSE 0
      /\ ChargeOf(due)["rollover"] = IF InQuota(due) > 0 THEN due["rollover"] ELSE 0
      /\ ChargeOf(due)["balance"] = Positive(due["balance"])
  BY DEF ChargeOf, SettleType
<1>4. TotalOf(due) = due["reset"] + due["rollover"] + due["balance"]
  BY DEF TotalOf, InQuota
<1>5. TotalOf(ChargeOf(due)) = (IF InQuota(due) > 0 THEN InQuota(due) ELSE 0)
                               + Positive(due["balance"])
  <2>1. CASE InQuota(due) > 0
    BY <1>1, <1>3, <2>1 DEF TotalOf, InQuota, Positive
  <2>2. CASE ~(InQuota(due) > 0)
    <3>1. InQuota(ChargeOf(due)) = 0
      BY <1>3, <2>2 DEF InQuota
    <3> QED
      BY <1>1, <1>3, <2>2, <3>1 DEF TotalOf, Positive
  <2> QED
    BY <2>1, <2>2
<1>6. InQuota(due) \in Int /\ TotalOf(due) = InQuota(due) + due["balance"]
  BY <1>1 DEF InQuota, TotalOf
<1> QED
  BY <1>1, <1>2, <1>5, <1>6 DEF Positive

(* Counts by type add up to counts by type. *)
LEMMA SumTyped ==
  ASSUME NEW a \in Due, NEW b \in Due
  PROVE  /\ Sum3(a, b) \in Due
         /\ TotalOf(Sum3(a, b)) = TotalOf(a) + TotalOf(b)
<1>1. \A t \in SettleType : a[t] \in Int /\ b[t] \in Int
  BY DEF Due
<1>2. /\ Sum3(a, b)["reset"] = a["reset"] + b["reset"]
      /\ Sum3(a, b)["rollover"] = a["rollover"] + b["rollover"]
      /\ Sum3(a, b)["balance"] = a["balance"] + b["balance"]
  BY DEF Sum3, SettleType
<1>3. Sum3(a, b) \in Due
  BY <1>1 DEF Sum3, Due
<1> QED
  BY <1>1, <1>2, <1>3 DEF TotalOf, InQuota, SettleType

(* The stack stays a sequence of items, whatever is pushed on it. *)
LEMMA PushOneTyped ==
  ASSUME NEW s \in [old : Seq(Item), data : Seq(Item)], NEW t \in SettleType,
         NEW n \in Int
  PROVE  PushOne(s, t, n) \in [old : Seq(Item), data : Seq(Item)]
<1> DEFINE last == Len(s.data)
<1>1. CASE n <= 0
  BY <1>1 DEF PushOne
<1>2. CASE n > 0 /\ last > 0 /\ s.data[last].type = t
  <2>1. last \in 1 .. Len(s.data) /\ s.data[last] \in Item
    BY <1>2
  <2>2. [type |-> t, count |-> s.data[last].count + n] \in Item
    BY <1>2, <2>1 DEF Item
  <2>3. [s.data EXCEPT ![last] = [type |-> t, count |-> s.data[last].count + n]] \in Seq(Item)
    BY <2>1, <2>2, ExceptSeq
  <2> QED
    BY <1>2, <2>3 DEF PushOne
<1>3. CASE n > 0 /\ ~(last > 0 /\ s.data[last].type = t)
  <2>1. [type |-> t, count |-> n] \in Item
    BY <1>3 DEF Item
  <2>2. Append(s.old, [type |-> t, count |-> n]) \in Seq(Item)
    BY <2>1
  <2> QED
    BY <1>3, <2>2 DEF PushOne
<1> QED
  BY <1>1, <1>2, <1>3

(* What a pass pushes leaves a sequence of items. *)
LEMMA PushTyped ==
  ASSUME NEW data \in Seq(Item), NEW due \in Due
  PROVE  Push(data, due) \in Seq(Item)
<1> DEFINE a == PushOne([old |-> data, data |-> data], "reset", due["reset"])
           b == PushOne(a, "rollover", due["rollover"])
<1>1. due["reset"] \in Int /\ due["rollover"] \in Int /\ due["balance"] \in Int
  BY DEF Due, SettleType
<1>2. a \in [old : Seq(Item), data : Seq(Item)]
  BY <1>1, PushOneTyped DEF SettleType
<1>3. b \in [old : Seq(Item), data : Seq(Item)]
  <2> HIDE DEF a
  <2> QED
    BY <1>1, <1>2, PushOneTyped DEF SettleType
<1>4. PushOne(b, "balance", due["balance"]) \in [old : Seq(Item), data : Seq(Item)]
  <2> HIDE DEF a, b
  <2> QED
    BY <1>1, <1>3, PushOneTyped DEF SettleType
<1> QED
  BY <1>4 DEF Push

(* A posting keeps the types of the accounts, and so does half of one. *)
LEMMA LogTyped ==
  ASSUME TypeOK, NEW u \in User, NEW kind \in {"fee", "refund"}, NEW amount \in Int
  PROVE  /\ CalcLeftover(amount + leftover[u][kind]) \in [amount : Int, leftover : Int]
         /\ LogFee(u, kind, amount) => leftover' \in [User -> [fee : Int, refund : Int]]
<1> DEFINE s == CalcLeftover(amount + leftover[u][kind])
<1>1. leftover[u] \in [fee : Int, refund : Int]
  BY DEF TypeOK
<1>2. s \in [amount : Int, leftover : Int]
  BY <1>1, CalcLeftoverSplits
<1> HIDE DEF s
<1>3. SUFFICES ASSUME LogFee(u, kind, amount)
               PROVE  leftover' \in [User -> [fee : Int, refund : Int]]
  BY <1>2 DEF s
<1>4. leftover' = [leftover EXCEPT ![u] = [leftover[u] EXCEPT ![kind] = s.leftover]]
  BY <1>3 DEF LogFee, s
<1>5. [leftover[u] EXCEPT ![kind] = s.leftover] \in [fee : Int, refund : Int]
  BY <1>1, <1>2
<1> QED
  BY <1>4, <1>5 DEF TypeOK

(* A whole posting keeps the types of balance and remainder. *)
LEMMA PostTyped ==
  ASSUME TypeOK, NEW u \in User, NEW kind \in {"fee", "refund"}, NEW amount \in Int,
         PostFee(u, kind, amount)
  PROVE  /\ balance' \in [User -> Int]
         /\ leftover' \in [User -> [fee : Int, refund : Int]]
<1> DEFINE s == CalcLeftover(amount + leftover[u][kind])
<1>1. s \in [amount : Int, leftover : Int]
  BY LogTyped
<1> HIDE DEF s
<1>2. balance' = [balance EXCEPT ![u] = balance[u] + s.amount]
  BY DEF PostFee, s
<1>3. balance[u] + s.amount \in Int
  <2>1. balance[u] \in Int
    BY DEF TypeOK
  <2> QED
    BY <1>1, <2>1
<1>4. balance' \in [User -> Int]
  BY <1>2, <1>3 DEF TypeOK
<1> QED
  BY <1>4, LogTyped DEF PostFee

-----------------------------------------------------------------------------
(* The initial state is well typed. *)
LEMMA InitTyped == Init => TypeOK
<1> SUFFICES ASSUME Init PROVE TypeOK
  OBVIOUS
<1>1. pass \in Pass /\ refund \in Refund
  BY IdleTyped DEF Init
<1>2. /\ plan \in [at : {"idle", "read", "save"}, user : User, quotas : {plan.quotas},
                   rollover : [CostType -> Int]]
      /\ IsPlanQuota(plan.quotas)
  BY IdleTyped DEF Init
<1>3. quota \in [Key -> Quota] /\ balance \in [User -> Int]
  BY SettleAssumption DEF Init
<1>4. charged \in [Key -> Due] /\ refunded \in [Key -> [SettleType -> Nat]]
  BY DEF Init, Nothing, Due
<1>5. stack \in [Key -> Seq(Item)]
  BY DEF Init
<1> QED
  BY <1>1, <1>2, <1>3, <1>4, <1>5 DEF Init, TypeOK, Pass, Due, Refund

(* A counted call keeps the types. *)
LEMMA ApiCallTyped ==
  ASSUME TypeOK, NEW k \in Key, NEW n \in CallSizes, ApiCall(k, n)
  PROVE  TypeOK'
<1>1. n \in Nat
  BY SettleAssumption
<1>2. count[k] + n \in Int /\ used[k] + n \in Nat
  <2>1. count[k] \in Int /\ used[k] \in Nat
    BY Types
  <2> QED
    BY <1>1, <2>1
<1>3. count' \in [Key -> Int]
  BY <1>2 DEF TypeOK, ApiCall
<1>4. used' \in [Key -> Nat]
  BY <1>2 DEF TypeOK, ApiCall
<1> QED
  BY <1>3, <1>4 DEF TypeOK, ApiCall, store, bounds

(* A deposit or a withdrawal keeps the types. *)
LEMMA MoveBalanceTyped ==
  ASSUME TypeOK, NEW u \in User, NEW a \in Int, MoveBalance(u, a)
  PROVE  TypeOK'
<1>1. balance[u] + a \in Int
  <2>1. balance[u] \in Int
    BY Types
  <2> QED
    BY <2>1
<1>2. balance' \in [User -> Int]
  BY <1>1 DEF TypeOK, MoveBalance
<1>3. moves' \in Nat
  BY Types DEF MoveBalance
<1> QED
  BY <1>2, <1>3 DEF TypeOK, MoveBalance, history

(* A bought quota keeps the types. *)
LEMMA DepositRolloverTyped ==
  ASSUME TypeOK, NEW k \in Key, NEW n \in RolloverCounts, DepositRollover(k, n)
  PROVE  TypeOK'
<1>1. n \in Nat
  BY SettleAssumption
<1> DEFINE row == [reset |-> quota[k].reset, rollover |-> quota[k].rollover + n]
<1>2. quota[k] \in Quota
  BY Types
<1>3. row \in Quota
  BY <1>1, <1>2 DEF Quota
<1>4. quota' = [quota EXCEPT ![k] = row]
  BY DEF DepositRollover
<1> HIDE DEF row
<1>5. quota' \in [Key -> Quota]
  BY <1>3, <1>4 DEF TypeOK
<1>6. moves' \in Nat
  BY Types DEF DepositRollover
<1> QED
  BY <1>5, <1>6 DEF TypeOK, DepositRollover, history

(* The reset that begins has the quotas of a plan. *)
LEMMA ResetQuotaByPlanTyped ==
  ASSUME TypeOK, NEW u \in User, NEW q, IsPlanQuota(q), ResetQuotaByPlan(u, q)
  PROVE  TypeOK'
<1>1. plan' = [plan EXCEPT !.at = "read", !.user = u, !.quotas = q]
  BY DEF ResetQuotaByPlan
<1>2. plan \in [at : {"idle", "read", "save"}, user : User, quotas : {plan.quotas},
                rollover : [CostType -> Int]]
  BY DEF TypeOK
<1>3. /\ plan' \in [at : {"idle", "read", "save"}, user : User, quotas : {plan'.quotas},
                    rollover : [CostType -> Int]]
      /\ plan'.quotas = q
  BY <1>1, <1>2
<1>4. IsPlanQuota(plan'.quotas)
  BY <1>3
<1>5. resets' \in Nat
  BY Types DEF ResetQuotaByPlan
<1> QED
  BY <1>3, <1>4, <1>5 DEF TypeOK, ResetQuotaByPlan, store, history

(* So has one that resets only what the plan raises. *)
LEMMA ResetQuotaOnPlanUpdatedTyped ==
  ASSUME TypeOK, NEW u \in User, NEW q \in PlanQuotas, ResetQuotaOnPlanUpdated(u, q)
  PROVE  TypeOK'
<1> DEFINE needUpdates == {t \in DOMAIN q : quota[<<u, t>>].reset < q[t]}
           part == [t \in needUpdates |-> q[t]]
<1>1. IsPlanQuota(q)
  BY SettleAssumption
<1>2. IsPlanQuota(part)
  BY <1>1 DEF IsPlanQuota
<1>3. ResetQuotaByPlan(u, part)
  BY DEF ResetQuotaOnPlanUpdated
<1> HIDE DEF part
<1> QED
  BY <1>2, <1>3, ResetQuotaByPlanTyped

(* The rows that a reset finds have integers. *)
LEMMA ResetFindTyped ==
  ASSUME TypeOK, ResetFind
  PROVE  TypeOK'
<1>1. \A t \in CostType : <<plan.user, t>> \in Key
  BY DEF TypeOK, Key
<1>2. [t \in CostType |-> quota[<<plan.user, t>>].rollover] \in [CostType -> Int]
  BY <1>1 DEF TypeOK, Quota
<1>3. /\ plan' \in [at : {"idle", "read", "save"}, user : User, quotas : {plan'.quotas},
                    rollover : [CostType -> Int]]
      /\ plan'.quotas = plan.quotas
  BY <1>2 DEF TypeOK, ResetFind
<1> QED
  BY <1>3 DEF TypeOK, ResetFind, store, history, bounds, IsPlanQuota

(* The rows that it saves are quota rows. *)
LEMMA ResetSaveTyped ==
  ASSUME TypeOK, ResetSave
  PROVE  TypeOK'
<1>1. \A k \in Key : k[2] \in CostType
  BY DEF Key
<1>2. \A t \in DOMAIN plan.quotas : plan.quotas[t] \in Int
  BY DEF TypeOK, IsPlanQuota
<1>3. quota' \in [Key -> Quota]
  BY <1>1, <1>2 DEF TypeOK, ResetSave, Quota
<1> QED
  BY <1>3, IdleTyped DEF TypeOK, ResetSave, history, bounds
-----------------------------------------------------------------------------
(* A pass begins with the counters it has read. *)
LEMMA BeginPassTyped ==
  ASSUME TypeOK, BeginPass
  PROVE  TypeOK'
<1>1. pass' \in Pass
  BY IdleTyped DEF TypeOK, BeginPass, UserCounts, Pass
<1> QED
  BY <1>1 DEF TypeOK, BeginPass, store, history, bounds, Pass, Due

(* What is due is a number of calls of each kind. *)
LEMMA DueTyped ==
  ASSUME NEW k \in Key, NEW n \in Int, NEW q \in Quota, NEW a \in Int
  PROVE  DueOf(k, n, q, a) \in Due
<1>1. Price[k] \in Nat
  BY SettleAssumption
<1>2. Price[k] > 0 => TruncDiv(a, Price[k]) \in Int
  BY <1>1 DEF TruncDiv
<1>3. q.reset \in Int /\ q.rollover \in Int
  BY DEF Quota
<1>4. Lesser(n, q.reset + q.rollover) \in Int
  BY <1>3 DEF Lesser
<1>5. Lesser(Lesser(n, q.reset + q.rollover), q.reset) \in Int
  BY <1>3, <1>4 DEF Lesser
<1>6. Price[k] > 0 =>
        Lesser(n - Lesser(n, q.reset + q.rollover), TruncDiv(a, Price[k])) \in Int
  BY <1>2, <1>4 DEF Lesser
<1>7. /\ DueOf(k, n, q, a)["reset"] \in Int
      /\ DueOf(k, n, q, a)["rollover"] \in Int
      /\ DueOf(k, n, q, a)["balance"] \in Int
  BY <1>1, <1>4, <1>5, <1>6 DEF DueOf
<1>8. DueOf(k, n, q, a) = [t \in SettleType |-> DueOf(k, n, q, a)[t]]
  BY DEF DueOf, SettleType
<1> QED
  BY <1>7, <1>8 DEF Due, SettleType
(* The rows that a pass has read. *)
LEMMA LoadedTyped ==
  ASSUME TypeOK, NEW u \in User
  PROVE  Loaded(u) \in Pass /\ Loaded(u).at = pass.at
<1> DEFINE bal == [pass.balance EXCEPT ![u] = balance[u]]
           quo == [j \in Key |-> IF j[1] = u THEN quota[j] ELSE pass.quota[j]]
<1>1. pass \in Pass /\ quota \in [Key -> Quota] /\ balance \in [User -> Int]
  BY Types
<1>2. bal \in [User -> Int]
  BY <1>1 DEF Pass
<1>3. quo \in [Key -> Quota]
  BY <1>1 DEF Pass
<1>4. Loaded(u) = IF u \in pass.loaded THEN pass
                  ELSE [pass EXCEPT !.loaded = pass.loaded \cup {u}, !.balance = bal,
                                    !.quota = quo]
  BY DEF Loaded
<1>5. pass.loaded \cup {u} \in SUBSET User
  BY <1>1 DEF Pass
<1> HIDE DEF bal, quo
<1>6. [pass EXCEPT !.loaded = pass.loaded \cup {u}, !.balance = bal, !.quota = quo] \in Pass
  <2> DEFINE all == pass.loaded \cup {u}
  <2>1. all \in SUBSET User
    BY <1>5
  <2> HIDE DEF all
  <2>2. [pass EXCEPT !.loaded = all, !.balance = bal, !.quota = quo] \in Pass
    BY <1>1, <1>2, <1>3, <2>1 DEF Pass
  <2> QED
    BY <2>2 DEF all
<1>7. [pass EXCEPT !.loaded = pass.loaded \cup {u}, !.balance = bal, !.quota = quo].at
        = pass.at
  BY <1>1 DEF Pass
<1>8. CASE u \in pass.loaded
  BY <1>1, <1>4, <1>8
<1>9. CASE u \notin pass.loaded
  BY <1>4, <1>6, <1>7, <1>9
<1> QED
  BY <1>8, <1>9

(* What is due for a key is a count of each type. *)
LEMMA PickKeyTyped ==
  ASSUME TypeOK, NEW k \in Key, PickKey(k)
  PROVE  TypeOK'
<1> DEFINE rows == Loaded(k[1])
           due == DueOf(k, pass.seen[k], rows.quota[k], rows.balance[k[1]] + Arrears[k[1]])
           at == IF InQuota(due) = 0 /\ due["balance"] = 0 THEN "next" ELSE "pay"
<1>1. k[1] \in User
  BY DEF Key
<1>2. rows \in Pass
  BY <1>1, LoadedTyped
<1>3. pass.seen[k] \in Int
  BY Types DEF Pass
<1>4. rows.quota[k] \in Quota /\ rows.balance[k[1]] + Arrears[k[1]] \in Int
  <2> HIDE DEF rows
  <2>1. rows.balance[k[1]] \in Int /\ Arrears[k[1]] \in Int
    BY <1>1, <1>2, SettleAssumption DEF Pass
  <2>2. rows.quota[k] \in Quota
    BY <1>2 DEF Pass
  <2> QED
    BY <2>1, <2>2
<1>5. due \in Due
  <2> HIDE DEF rows
  <2> QED
    BY <1>3, <1>4, DueTyped
<1>6. pass' = [rows EXCEPT !.todo = rows.todo \ {k}, !.key = k, !.due = due, !.at = at]
  BY DEF PickKey
<1>7. at \in {"idle", "next", "pay", "decr"}
  OBVIOUS
<1> HIDE DEF rows, due, at
<1>8. pass' \in Pass
  BY <1>2, <1>5, <1>6, <1>7 DEF Pass
<1>9. UNCHANGED <<count, store, settleLock, refund, plan, history, bounds>>
  BY DEF PickKey
<1> QED
  BY <1>8, <1>9 DEF TypeOK, store, history, bounds, Pass, Due, IsPlanQuota

(* The rows in memory stay rows. *)
LEMMA RememberTyped ==
  ASSUME TypeOK, NEW k \in Key, NEW due \in Due
  PROVE  Remember(k, due) \in Pass
<1> DEFINE row == Lowered(k, due)
           quo == [pass.quota EXCEPT ![k] = row]
           bal == [pass.balance EXCEPT ![k[1]] =
                     pass.balance[k[1]] - Price[k] * due["balance"]]
<1>1. pass \in Pass /\ k[1] \in User
  BY Types DEF Key
<1>2. due["reset"] \in Int /\ due["rollover"] \in Int /\ due["balance"] \in Int
  BY DEF Due, SettleType
<1>3. pass.quota \in [Key -> Quota] /\ pass.balance \in [User -> Int]
  BY <1>1 DEF Pass
<1>4. row \in Quota
  <2>1. pass.quota[k].reset \in Int /\ pass.quota[k].rollover \in Int
    BY <1>3 DEF Quota
  <2> QED
    BY <1>2, <2>1 DEF Quota, Lowered
<1>5. quo \in [Key -> Quota]
  BY <1>3, <1>4
<1>6. bal \in [User -> Int]
  <2>1. Price[k] \in Int /\ pass.balance[k[1]] \in Int
    BY <1>1, <1>3, SettleAssumption
  <2>2. Price[k] * due["balance"] \in Int
    BY <1>2, <2>1
  <2>3. pass.balance[k[1]] - Price[k] * due["balance"] \in Int
    BY <2>1, <2>2
  <2> QED
    BY <1>3, <2>3
<1>7. Remember(k, due) = [pass EXCEPT !.at = "decr", !.quota = quo, !.balance = bal]
  BY DEF Remember
<1> HIDE DEF quo, bal
<1> QED
  BY <1>1, <1>5, <1>6, <1>7 DEF Pass

(* The payment of a key keeps the types. *)
LEMMA PayKeyTyped ==
  ASSUME TypeOK, PayKey
  PROVE  TypeOK'
<1> DEFINE k == pass.key
           due == pass.due
           charge == ChargeOf(due)
           row == [reset |-> quota[k].reset - charge["reset"],
                   rollover |-> quota[k].rollover - charge["rollover"]]
<1>1. k \in Key /\ k[1] \in User /\ due \in Due
  BY Types DEF Pass, Key
<1>2. charge \in Due
  BY <1>1, ChargeCoversDue
<1>3. /\ quota' = [quota EXCEPT ![k] = row]
      /\ PostFee(k[1], "fee", -(Price[k] * charge["balance"]))
      /\ stack' = [stack EXCEPT ![k] = Push(stack[k], due)]
      /\ charged' = [charged EXCEPT ![k] = Sum3(charged[k], charge)]
      /\ pass' = Remember(k, due)
  BY DEF PayKey
<1>4. UNCHANGED <<count, settleLock, refund, plan, used, refunded, forgiven, bounds>>
  BY DEF PayKey
<1> HIDE DEF k, due, charge
<1>5. quota' \in [Key -> Quota]
  <2>1. quota \in [Key -> Quota]
    BY Types
  <2>2. row \in Quota
    <3>1. quota[k].reset \in Int /\ quota[k].rollover \in Int
      BY <1>1, <2>1 DEF Quota
    <3>2. charge["reset"] \in Int /\ charge["rollover"] \in Int
      BY <1>2 DEF Due, SettleType
    <3> QED
      BY <3>1, <3>2 DEF Quota
  <2> QED
    BY <1>3, <2>1, <2>2
<1>6. balance' \in [User -> Int] /\ leftover' \in [User -> [fee : Int, refund : Int]]
  <2>1. Price[k] \in Int /\ charge["balance"] \in Int
    BY <1>1, <1>2, SettleAssumption DEF Due, SettleType
  <2>2. -(Price[k] * charge["balance"]) \in Int
    BY <2>1
  <2> QED
    BY <1>1, <1>3, <2>2, PostTyped
<1>7. stack' \in [Key -> Seq(Item)]
  <2>1. stack \in [Key -> Seq(Item)]
    BY Types
  <2>2. Push(stack[k], due) \in Seq(Item)
    BY <1>1, <2>1, PushTyped
  <2> QED
    BY <1>3, <2>1, <2>2
<1>8. charged' \in [Key -> Due]
  <2>1. charged \in [Key -> Due]
    BY Types
  <2>2. Sum3(charged[k], charge) \in Due
    BY <1>1, <1>2, <2>1, SumTyped
  <2> QED
    BY <1>3, <2>1, <2>2
<1>9. pass' \in Pass
  BY <1>1, <1>3, RememberTyped
<1> QED
  BY <1>4, <1>5, <1>6, <1>7, <1>8, <1>9 DEF TypeOK, bounds, Pass, Due, IsPlanQuota

(* A step of the pass that leaves MySQL alone. *)
LEMMA PassStepTyped ==
  ASSUME TypeOK,
         pass' \in Pass, refund' \in Refund, settleLock' \in {"free", "settle", "refund"},
         count' \in [Key -> Int], forgiven' \in [Key -> Nat], faults' \in Nat,
         UNCHANGED <<store, plan, used, charged, refunded, moves, resets, refunds>>
  PROVE  TypeOK'
BY DEF TypeOK, store, Pass, Due, Refund, IsPlanQuota

(* A pass that goes on with the next key is a pass. *)
LEMMA NextKeyTyped == ASSUME TypeOK PROVE [pass EXCEPT !.at = "next"] \in Pass
<1>1. pass \in Pass
  BY Types
<1> QED
  BY <1>1 DEF Pass

(* Lowering the counter keeps the types. *)
LEMMA DecrCountTyped ==
  ASSUME TypeOK, DecrCount
  PROVE  TypeOK'
<1>1. pass.key \in Key /\ TotalOf(pass.due) \in Int
  BY Types, ChargeCoversDue DEF Pass
<1>2. count[pass.key] \in Int
  BY <1>1, Types
<1>3. count[pass.key] - TotalOf(pass.due) \in Int
  BY <1>1, <1>2
<1>4. count' \in [Key -> Int]
  BY <1>3, Types DEF DecrCount
<1>5. pass' \in Pass
  BY NextKeyTyped DEF DecrCount
<1>6. /\ UNCHANGED <<store, plan, used, charged, refunded, moves, resets, refunds>>
      /\ UNCHANGED <<settleLock, refund, forgiven, faults>>
  BY DEF DecrCount, history, bounds
<1>7. settleLock \in {"free", "settle", "refund"}
  BY DEF TypeOK
<1> QED
  BY <1>4, <1>5, <1>6, <1>7, Types, PassStepTyped

(* The end of a pass keeps the types. *)
LEMMA EndPassTyped ==
  ASSUME TypeOK, EndPass
  PROVE  TypeOK'
<1>1. /\ UNCHANGED <<store, plan, used, charged, refunded, moves, resets, refunds>>
      /\ UNCHANGED <<count, refund, forgiven, faults>>
      /\ pass' = NoPass /\ settleLock' = "free"
  BY DEF EndPass, history, bounds
<1> QED
  BY <1>1, IdleTyped, Types, PassStepTyped
-----------------------------------------------------------------------------
(* A refund begins with a stack of items. *)
LEMMA RefundBeginTyped ==
  ASSUME TypeOK, NEW k \in Key, NEW n \in RefundCounts, RefundBegin(k, n)
  PROVE  TypeOK'
<1>1. n \in Nat
  BY SettleAssumption
<1>2. stack[k] \in Seq(Item)
  BY Types
<1>3. refund' \in Refund
  BY <1>1, <1>2 DEF RefundBegin, Refund
<1>4. refunds' \in Nat
  BY Types DEF RefundBegin
<1> QED
  BY <1>3, <1>4 DEF TypeOK, RefundBegin, store, history, Refund, IsPlanQuota

(* The item on top, and how much of it is refunded. *)
LEMMA TopTyped ==
  ASSUME TypeOK, Popping
  PROVE  /\ Len(refund.data) \in 1 .. Len(refund.data)
         /\ Top \in Item
         /\ MatchCount \in Nat /\ MatchCount <= Top.count /\ MatchCount <= refund.left
         /\ refund.key \in Key
<1>1. refund.data \in Seq(Item) /\ refund.left \in Nat /\ refund.key \in Key
  BY Types DEF Refund
<1>2. Len(refund.data) \in 1 .. Len(refund.data)
  BY <1>1 DEF Popping
<1>3. Top \in Item
  BY <1>1, <1>2 DEF Top
<1> QED
  BY <1>1, <1>2, <1>3 DEF MatchCount, Lesser, Item

(* A refund returns a natural number of each type. *)
LEMMA ReturnedTyped ==
  ASSUME TypeOK, Popping
  PROVE  Returned \in [SettleType -> Nat]
BY TopTyped DEF Returned

(* A repaid quota row is a quota row. *)
LEMMA RepayQuotaTyped ==
  ASSUME TypeOK, Popping, RepayQuota
  PROVE  quota' \in [Key -> Quota]
<1> DEFINE k == refund.key
           row == [reset |-> quota[k].reset + Returned["reset"],
                   rollover |-> quota[k].rollover + Returned["rollover"]]
<1>1. k \in Key /\ quota \in [Key -> Quota]
  BY TopTyped, Types
<1>2. Returned["reset"] \in Int /\ Returned["rollover"] \in Int
  BY ReturnedTyped DEF SettleType
<1>3. quota' = [quota EXCEPT ![k] = row]
  BY DEF RepayQuota
<1>4. row \in Quota
  BY <1>1, <1>2 DEF Quota
<1> QED
  BY <1>1, <1>3, <1>4

(* A repaid fee keeps the types of the accounts. *)
LEMMA RepayFeeTyped ==
  ASSUME TypeOK, Popping, RepayFee
  PROVE  /\ balance' \in [User -> Int]
         /\ leftover' \in [User -> [fee : Int, refund : Int]]
<1>1. refund.key \in Key /\ MatchCount \in Int /\ Price[refund.key] \in Int
  BY TopTyped, SettleAssumption
<1>2. refund.key[1] \in User /\ Price[refund.key] * MatchCount \in Int
  BY <1>1 DEF Key
<1> QED
  BY <1>2, PostTyped DEF RepayFee

(* The history of refunds is of counts. *)
LEMMA NoteRefundedTyped ==
  ASSUME TypeOK, Popping, NoteRefunded
  PROVE  refunded' \in [Key -> [SettleType -> Nat]]
<1> DEFINE k == refund.key
<1>1. k \in Key /\ refunded \in [Key -> [SettleType -> Nat]]
  BY TopTyped, Types
<1>2. Sum3(refunded[k], Returned) \in [SettleType -> Nat]
  BY <1>1, ReturnedTyped DEF Sum3
<1>3. refunded' = [refunded EXCEPT ![k] = Sum3(refunded[k], Returned)]
  BY DEF NoteRefunded
<1> QED
  BY <1>1, <1>2, <1>3

(* The stack that a refund holds stays a sequence of items. *)
LEMMA RefundItemTyped ==
  ASSUME TypeOK, RefundItem
  PROVE  TypeOK'
<1> DEFINE n == Len(refund.data)
           rest == [type |-> Top.type, count |-> Top.count - MatchCount]
           data == IF MatchCount = Top.count THEN SubSeq(refund.data, 1, n - 1)
                                             ELSE [refund.data EXCEPT ![n] = rest]
<1>1. Popping /\ NoteRefunded /\ (Top.type = "balance" => RepayFee)
      /\ (Top.type # "balance" => RepayQuota)
  BY DEF RefundItem, Repay
<1>2. refund \in Refund
  BY Types
<1>3. refund.data \in Seq(Item) /\ n \in 1 .. Len(refund.data)
  BY <1>1, <1>2, TopTyped DEF Refund
<1>4. data \in Seq(Item)
  <2>1. rest \in Item
    BY <1>1, TopTyped DEF Item
  <2>2. [refund.data EXCEPT ![n] = rest] \in Seq(Item)
    BY <1>3, <2>1, ExceptSeq
  <2>3. SubSeq(refund.data, 1, n - 1) \in Seq(Item)
    <3>1. \A i \in 1 .. n - 1 : refund.data[i] \in Item
      BY <1>3
    <3> QED
      BY <1>3, <3>1, SubSeqProperties
  <2> QED
    BY <2>2, <2>3
<1>5. refund.left - MatchCount \in Nat
  BY <1>1, <1>2, TopTyped DEF Refund
<1>6. refund' = [refund EXCEPT !.left = refund.left - MatchCount, !.data = data]
  BY DEF RefundItem
<1> HIDE DEF data
<1>7. refund' \in Refund
  BY <1>2, <1>4, <1>5, <1>6 DEF Refund
<1>8. refunded' \in [Key -> [SettleType -> Nat]]
  BY <1>1, NoteRefundedTyped
<1>9. /\ quota' \in [Key -> Quota]
      /\ balance' \in [User -> Int]
      /\ leftover' \in [User -> [fee : Int, refund : Int]]
  <2>1. CASE Top.type = "balance"
    BY <1>1, <2>1, RepayFeeTyped, Types DEF RepayFee
  <2>2. CASE Top.type # "balance"
    <3>1. UNCHANGED <<balance, leftover>>
      BY <1>1, <2>2 DEF RepayQuota
    <3>2. leftover \in [User -> [fee : Int, refund : Int]]
      BY DEF TypeOK
    <3> QED
      BY <1>1, <2>2, <3>1, <3>2, RepayQuotaTyped, Types
  <2> QED
    BY <2>1, <2>2
<1> QED
  BY <1>7, <1>8, <1>9 DEF TypeOK, RefundItem, bounds, Refund, IsPlanQuota

(* The stack that it saves is one. *)
LEMMA RefundSaveTyped ==
  ASSUME TypeOK, RefundSave
  PROVE  TypeOK'
<1>1. refund.key \in Key /\ refund.data \in Seq(Item) /\ stack \in [Key -> Seq(Item)]
  BY Types DEF Refund
<1>2. stack' \in [Key -> Seq(Item)]
  BY <1>1 DEF RefundSave
<1> QED
  BY <1>2, IdleTyped DEF TypeOK, RefundSave, history, bounds, Refund, IsPlanQuota
-----------------------------------------------------------------------------
(* The faults are counted in natural numbers. *)
LEMMA FaultTyped == ASSUME TypeOK, Fault PROVE faults' \in Nat
BY Types DEF Fault

(* A failure in a pass keeps the types. *)
LEMMA PassFaultTyped ==
  ASSUME TypeOK, (\E k \in Key : SkipKey(k)) \/ PayFails \/ DecrFails
  PROVE  TypeOK'
<1>1. pass' \in Pass
  <2>1. CASE \E k \in Key : SkipKey(k)
    <3>1. PICK k \in Key : SkipKey(k)
      BY <2>1
    <3>2. PICK rows \in {pass, Loaded(k[1])} : pass' = [rows EXCEPT !.todo = rows.todo \ {k}]
      BY <3>1 DEF SkipKey
    <3>3. pass \in Pass /\ Loaded(k[1]) \in Pass
      BY Types, LoadedTyped DEF Key
    <3>4. rows \in Pass
      BY <3>2, <3>3
    <3> QED
      BY <3>2, <3>4 DEF Pass
  <2>2. CASE PayFails \/ DecrFails
    BY <2>2, NextKeyTyped DEF PayFails, DecrFails
  <2> QED
    BY <2>1, <2>2
<1>2. /\ UNCHANGED <<store, plan, used, charged, refunded, moves, resets, refunds>>
      /\ UNCHANGED <<count, settleLock, refund, forgiven>>
      /\ Fault
  BY DEF SkipKey, PayFails, DecrFails, history
<1>3. settleLock \in {"free", "settle", "refund"}
  BY DEF TypeOK
<1> QED
  BY <1>1, <1>2, <1>3, Types, FaultTyped, PassStepTyped

(* A DECRBY applied twice keeps the types. *)
LEMMA DecrRepeatedTyped ==
  ASSUME TypeOK, DecrRepeated
  PROVE  TypeOK'
<1> DEFINE k == pass.key
           n == TotalOf(pass.due)
<1>1. k \in Key /\ n \in Int /\ count[k] \in Int /\ forgiven[k] \in Nat
  BY Types, ChargeCoversDue DEF Pass
<1>2. /\ count' = [count EXCEPT ![k] = count[k] - 2 * n]
      /\ forgiven' = [forgiven EXCEPT ![k] = forgiven[k] + Positive(n)]
      /\ pass' = [pass EXCEPT !.at = "next"]
      /\ UNCHANGED <<store, plan, used, charged, refunded, moves, resets, refunds>>
      /\ UNCHANGED <<settleLock, refund>>
      /\ Fault
  BY DEF DecrRepeated
<1> HIDE DEF k, n
<1>3. count[k] - 2 * n \in Int /\ forgiven[k] + Positive(n) \in Nat
  BY <1>1 DEF Positive
<1>4. count' \in [Key -> Int] /\ forgiven' \in [Key -> Nat]
  BY <1>2, <1>3, Types
<1>5. settleLock \in {"free", "settle", "refund"}
  BY DEF TypeOK
<1> QED
  BY <1>2, <1>4, <1>5, Types, NextKeyTyped, FaultTyped, PassStepTyped

(* A refund that fails, with an item half done, keeps the types. *)
LEMMA RefundFailsTyped ==
  ASSUME TypeOK, RefundFails
  PROVE  TypeOK'
<1>1. leftover \in [User -> [fee : Int, refund : Int]]
  BY DEF TypeOK
<1>2. /\ quota' \in [Key -> Quota] /\ refunded' \in [Key -> [SettleType -> Nat]]
      /\ balance' = balance
      /\ leftover' \in [User -> [fee : Int, refund : Int]]
  <2>1. CASE UNCHANGED <<quota, balance, leftover, refunded>>
    BY <1>1, <2>1, Types
  <2>2. CASE Popping /\ RepayQuota /\ NoteRefunded
    BY <1>1, <2>2, RepayQuotaTyped, NoteRefundedTyped DEF RepayQuota
  <2>3. CASE /\ Popping
             /\ LogFee(refund.key[1], "refund", Price[refund.key] * MatchCount)
             /\ UNCHANGED <<quota, balance, refunded>>
    <3>1. refund.key \in Key /\ MatchCount \in Int /\ Price[refund.key] \in Int
      BY <2>3, TopTyped, SettleAssumption
    <3>2. refund.key[1] \in User /\ Price[refund.key] * MatchCount \in Int
      BY <3>1 DEF Key
    <3> QED
      BY <2>3, <3>2, LogTyped, Types
  <2> QED
    BY <2>1, <2>2, <2>3 DEF RefundFails
<1> QED
  BY <1>2, IdleTyped, FaultTyped
     DEF TypeOK, RefundFails, Refund, IsPlanQuota

(* The death of the server keeps the types. *)
LEMMA CrashTyped ==
  ASSUME TypeOK, Crash
  PROVE  TypeOK'
BY IdleTyped, FaultTyped DEF TypeOK, Crash, store, history, Pass, Due, Refund
(* What happens beside the loop keeps the types. *)
LEMMA OthersTyped ==
  ASSUME TypeOK, Others
  PROVE  TypeOK'
<1>1. CASE \E k \in Key : \E n \in CallSizes : ApiCall(k, n)
  BY <1>1, ApiCallTyped
<1>2. CASE \E k \in Key : \E n \in RolloverCounts : DepositRollover(k, n)
  BY <1>2, DepositRolloverTyped
<1>3. CASE \E k \in Key : \E n \in RefundCounts : RefundBegin(k, n)
  BY <1>3, RefundBeginTyped
<1>4. CASE \E u \in User : \E a \in DepositAmounts : MoveBalance(u, a)
  BY <1>4, SettleAssumption, MoveBalanceTyped
<1>5. CASE \E u \in User : \E a \in WithdrawAmounts : MoveBalance(u, -a)
  <2>1. PICK u \in User, a \in WithdrawAmounts : MoveBalance(u, -a)
    BY <1>5
  <2>2. -a \in Int
    BY SettleAssumption
  <2> QED
    BY <2>1, <2>2, MoveBalanceTyped
<1>6. CASE \E u \in User : \E q \in PlanQuotas : ResetQuotaByPlan(u, q)
  BY <1>6, SettleAssumption, ResetQuotaByPlanTyped
<1>7. CASE \E u \in User : \E q \in PlanQuotas : ResetQuotaOnPlanUpdated(u, q)
  BY <1>7, ResetQuotaOnPlanUpdatedTyped
<1>8. CASE ResetFind
  BY <1>8, ResetFindTyped
<1>9. CASE ResetSave
  BY <1>9, ResetSaveTyped
<1> QED
  BY <1>1, <1>2, <1>3, <1>4, <1>5, <1>6, <1>7, <1>8, <1>9 DEF Others

(* Every step preserves the types. *)
LEMMA NextTyped ==
  ASSUME TypeOK, [Next]_vars
  PROVE  TypeOK'
<1>1. CASE SettleStep
  BY <1>1, BeginPassTyped, PickKeyTyped, PayKeyTyped, DecrCountTyped, EndPassTyped
     DEF SettleStep
<1>2. CASE RefundStep
  BY <1>2, RefundItemTyped, RefundSaveTyped DEF RefundStep
<1>3. CASE Others
  BY <1>3, OthersTyped
<1>4. CASE Faults
  BY <1>4, PassFaultTyped, DecrRepeatedTyped, RefundFailsTyped, CrashTyped DEF Faults
<1>5. CASE UNCHANGED vars
  BY <1>5 DEF TypeOK, vars, store, history, bounds, IsPlanQuota
<1> QED
  BY <1>1, <1>2, <1>3, <1>4, <1>5 DEF Next, Rest

(* Every variable of the settle loop, the refunds and the resets keeps its type,
   whatever the prices, quotas, faults and interleavings. *)
THEOREM SettleTypeCorrect == Spec => []TypeOK
<1>1. TypeOK /\ [Next]_vars => TypeOK'
  BY NextTyped
<1> QED
  BY InitTyped, <1>1, PTL DEF Spec
-----------------------------------------------------------------------------
(***************************************************************************)
(* No call goes free.  Between the commit of a charge and the DECRBY a key *)
(* is charged ahead of its counter: by at least what the DECRBY will take  *)
(* off, even when that is negative.                                        *)
(***************************************************************************)
Owed(k) == count[k] + TotalOf(charged[k]) + forgiven[k]

ChargedAhead ==
  pass.at = "decr" => used[pass.key] <= Owed(pass.key) - TotalOf(pass.due)

Metered == NoFreeCalls /\ ChargedAhead

(* What a key is owed is an integer. *)
LEMMA OwedTyped ==
  ASSUME TypeOK, NEW k \in Key
  PROVE  /\ count[k] \in Int /\ used[k] \in Nat /\ forgiven[k] \in Nat
         /\ TotalOf(charged[k]) \in Int /\ Owed(k) \in Int
<1>1. charged[k] \in Due
  BY Types
<1>2. TotalOf(charged[k]) \in Int
  BY <1>1, ChargeCoversDue
<1>3. count[k] \in Int /\ used[k] \in Nat /\ forgiven[k] \in Nat
  BY Types
<1> QED
  BY <1>2, <1>3 DEF Owed

(* A step that touches neither the counters nor the history keeps Metered, if
   it does not begin a DECRBY. *)
LEMMA MeteredFrame ==
  ASSUME Metered, UNCHANGED <<count, used, charged, forgiven>>,
         pass' = pass \/ pass'.at # "decr"
  PROVE  Metered'
BY DEF Metered, NoFreeCalls, ChargedAhead, Owed

(* A counted call is owed and on the counter at once. *)
LEMMA ApiCallMetered ==
  ASSUME TypeOK, Metered, NEW k \in Key, NEW n \in CallSizes, ApiCall(k, n)
  PROVE  Metered'
<1>1. n \in Nat
  BY SettleAssumption
<1>2. \A j \in Key : /\ used'[j] = used[j] + (IF j = k THEN n ELSE 0)
                    /\ count'[j] = count[j] + (IF j = k THEN n ELSE 0)
  BY <1>1, Types DEF ApiCall
<1>3. UNCHANGED <<charged, forgiven, pass>>
  BY DEF ApiCall
<1>4. \A j \in Key : Owed(j)' = Owed(j) + (IF j = k THEN n ELSE 0)
  BY <1>1, <1>2, <1>3, OwedTyped DEF Owed
<1>5. NoFreeCalls'
  BY <1>1, <1>2, <1>4, OwedTyped DEF Metered, NoFreeCalls, Owed
<1>6. pass.key \in Key /\ TotalOf(pass.due) \in Int
  BY Types, ChargeCoversDue DEF Pass
<1>7. ChargedAhead'
  BY <1>1, <1>2, <1>3, <1>4, <1>6, OwedTyped DEF Metered, ChargedAhead
<1> QED
  BY <1>5, <1>7 DEF Metered

(* A payment charges at least what the DECRBY will take off. *)
LEMMA PayKeyMetered ==
  ASSUME TypeOK, Metered, PayKey
  PROVE  Metered'
<1>a. PICK k \in Key, due \in Due : k = pass.key /\ due = pass.due
  BY Types DEF Pass
<1> DEFINE charge == ChargeOf(due)
<1>1. k \in Key /\ due \in Due /\ charged \in [Key -> Due] /\ pass \in Pass
  BY Types
<1>2. /\ charge \in Due /\ TotalOf(due) \in Int /\ TotalOf(charge) \in Int
      /\ TotalOf(charge) >= TotalOf(due) /\ TotalOf(charge) >= 0
  BY <1>1, ChargeCoversDue
<1>3. /\ charged' = [charged EXCEPT ![k] = Sum3(charged[k], charge)]
      /\ UNCHANGED <<count, used, forgiven>>
      /\ pass' = Remember(k, due)
  BY <1>a DEF PayKey
<1>4. pass'.key = k /\ pass'.due = due
  BY <1>a, <1>1, <1>3 DEF Remember, Pass
<1> HIDE DEF charge
<1>5. TotalOf(charged'[k]) = TotalOf(charged[k]) + TotalOf(charge)
  BY <1>1, <1>2, <1>3, SumTyped
<1>6. \A j \in Key : Owed(j)' = Owed(j) + (IF j = k THEN TotalOf(charge) ELSE 0)
  <2> TAKE j \in Key
  <2>1. CASE j = k
    <3>1. Owed(j)' = count[k] + (TotalOf(charged[k]) + TotalOf(charge)) + forgiven[k]
      BY <1>3, <1>5, <2>1 DEF Owed
    <3>2. Owed(j) = count[k] + TotalOf(charged[k]) + forgiven[k]
      BY <2>1 DEF Owed
    <3> QED
      BY <1>2, <2>1, <3>1, <3>2, OwedTyped
  <2>2. CASE j # k
    <3>1. charged'[j] = charged[j]
      BY <1>1, <1>3, <2>2
    <3> QED
      BY <1>3, <2>2, <3>1, OwedTyped DEF Owed
  <2> QED
    BY <2>1, <2>2
<1>7. NoFreeCalls'
  BY <1>2, <1>3, <1>6, OwedTyped DEF Metered, NoFreeCalls, Owed
<1>8. ChargedAhead'
  <2>1. used[k] <= Owed(k)
    BY <1>1 DEF Metered, NoFreeCalls, Owed
  <2>2. Owed(k)' = Owed(k) + TotalOf(charge)
    BY <1>1, <1>6
  <2>3. used[k] <= Owed(k)' - TotalOf(due)
    BY <1>1, <1>2, <2>1, <2>2, OwedTyped
  <2> QED
    BY <1>3, <1>4, <2>3 DEF ChargedAhead, Owed
<1> QED
  BY <1>7, <1>8 DEF Metered

(* DECRBY, once, not at all or twice. *)
LEMMA DecrMetered ==
  ASSUME TypeOK, Metered, DecrCount \/ DecrRepeated
  PROVE  Metered'
<1>1. PICK k \in Key, n \in Int : k = pass.key /\ n = TotalOf(pass.due)
  BY Types, ChargeCoversDue DEF Pass
<1>2. /\ pass.at = "decr"
      /\ pass' = [pass EXCEPT !.at = "next"]
      /\ UNCHANGED <<used, charged>>
  BY DEF DecrCount, DecrRepeated, history
<1>3. pass'.at = "next"
  BY <1>2, Types DEF Pass
<1>4. used[k] <= Owed(k) - n
  BY <1>1, <1>2 DEF Metered, ChargedAhead
<1>5. \A j \in Key \ {k} : count'[j] = count[j] /\ forgiven'[j] = forgiven[j]
  BY <1>1, Types DEF DecrCount, DecrRepeated, history
<1>6. \/ count'[k] = count[k] - n /\ forgiven'[k] = forgiven[k]
      \/ count'[k] = count[k] - 2 * n /\ forgiven'[k] = forgiven[k] + Positive(n)
  BY <1>1, Types DEF DecrCount, DecrRepeated, history
<1>7. used[k] <= Owed(k)'
  BY <1>1, <1>2, <1>4, <1>6, OwedTyped DEF Owed, Positive
<1>8. NoFreeCalls'
  <2>1. \A j \in Key \ {k} : Owed(j)' = Owed(j)
    BY <1>2, <1>5 DEF Owed
  <2> QED
    BY <1>2, <1>7, <2>1 DEF Metered, NoFreeCalls, Owed
<1> QED
  BY <1>3, <1>8 DEF Metered, ChargedAhead

(* Every step keeps all calls metered. *)
LEMMA NextMetered ==
  ASSUME TypeOK, Metered, [Next]_vars
  PROVE  Metered'
<1>1. pass \in Pass
  BY Types
<1>2. CASE SettleStep \/ DecrRepeated
  <2>1. CASE BeginPass
    <3>1. pass'.at = "next"
      BY <2>1, IdleTyped DEF BeginPass, Pass
    <3> QED
      BY <2>1, <3>1, MeteredFrame DEF BeginPass, history
  <2>2. CASE \E k \in Key : PickKey(k)
    <3>1. pass'.at # "decr"
      BY <1>1, <2>2 DEF PickKey, Pass
    <3> QED
      BY <2>2, <3>1, MeteredFrame DEF PickKey, history
  <2>3. CASE PayKey
    BY <2>3, PayKeyMetered
  <2>4. CASE DecrCount \/ DecrRepeated
    BY <2>4, DecrMetered
  <2>5. CASE EndPass
    <3>1. pass'.at = "idle"
      BY <2>5 DEF EndPass, NoPass
    <3> QED
      BY <2>5, <3>1, MeteredFrame DEF EndPass, history
  <2> QED
    BY <1>2, <2>1, <2>2, <2>3, <2>4, <2>5 DEF SettleStep
<1>3. CASE RefundStep
  BY <1>3, MeteredFrame DEF RefundStep, RefundItem, RefundSave, history
<1>4. CASE Others
  <2>1. CASE \E k \in Key : \E n \in CallSizes : ApiCall(k, n)
    BY <2>1, ApiCallMetered
  <2>2. CASE ~(\E k \in Key : \E n \in CallSizes : ApiCall(k, n))
    <3>1. UNCHANGED <<count, used, charged, forgiven, pass>>
      BY <1>4, <2>2 DEF Others, DepositRollover, RefundBegin, MoveBalance,
         ResetQuotaByPlan, ResetQuotaOnPlanUpdated, ResetFind, ResetSave, history
    <3> QED
      BY <3>1, MeteredFrame
  <2> QED
    BY <2>1, <2>2
<1>5. CASE Faults /\ ~DecrRepeated
  <2>1. UNCHANGED <<count, used, charged, forgiven>>
    BY <1>5 DEF Faults, SkipKey, PayFails, DecrFails, RefundFails, Crash, history
  <2>2. pass' = pass \/ pass'.at # "decr"
    <3>1. CASE \E k \in Key : SkipKey(k)
      <4>1. PICK k \in Key : SkipKey(k)
        BY <3>1
      <4>2. PICK rows \in {pass, Loaded(k[1])} : pass' = [rows EXCEPT !.todo = rows.todo \ {k}]
        BY <4>1 DEF SkipKey
      <4>3. Loaded(k[1]) \in Pass /\ Loaded(k[1]).at = pass.at
        BY LoadedTyped DEF Key
      <4>4. pass.at = "next"
        BY <4>1 DEF SkipKey
      <4> QED
        BY <1>1, <4>2, <4>3, <4>4 DEF Pass
    <3>2. CASE ~(\E k \in Key : SkipKey(k))
      BY <1>1, <1>5, <3>2 DEF Faults, PayFails, DecrFails, RefundFails, Crash, NoPass, Pass
    <3> QED
      BY <3>1, <3>2
  <2> QED
    BY <2>1, <2>2, MeteredFrame
<1>6. CASE UNCHANGED vars
  BY <1>6, MeteredFrame DEF vars, history
<1> QED
  BY <1>2, <1>3, <1>4, <1>5, <1>6 DEF Next, Rest, Faults

(* No call goes free, for every price, quota, plan and balance, and through any
   number of crashes, failed transactions, lost and repeated DECRBYs: only what
   a repeated DECRBY takes off is neither charged nor still counted. *)
THEOREM NoCallGoesFree == Spec => []NoFreeCalls
<1>1. Init => Metered
  BY DEF Init, Metered, NoFreeCalls, ChargedAhead, Owed, NoPass, Nothing, TotalOf, InQuota,
     SettleType
<1>2. TypeOK /\ Metered /\ [Next]_vars => Metered'
  BY NextMetered
<1>3. Metered => NoFreeCalls
  BY DEF Metered
<1> QED
  BY <1>1, <1>2, <1>3, SettleTypeCorrect, PTL DEF Spec
-----------------------------------------------------------------------------
(***************************************************************************)
(* The loop never overdraws.  A pass pays unchecked from the balances and  *)
(* quotas it has read: what it has in memory is never more than what       *)
(* there is in MySQL, but for the fraction of a fen that has not been      *)
(* posted yet; and since balances are whole fen, the fraction never makes  *)
(* one negative.                                                           *)
(***************************************************************************)
(* What is carried is less than one fen, owed by the user for fees and to the
   user for refunds; what is stored is whole. *)
LeftoversSmall ==
  \A u \in User :
    /\ -Fen < leftover[u].fee /\ leftover[u].fee <= 0
    /\ 0 <= leftover[u].refund /\ leftover[u].refund < Fen
    /\ WholeFen(balance[u])

TodoCounted == \A k \in pass.todo : pass.seen[k] > 0

UserFunded(u) ==
  Funded(u) =>
    /\ balance[u] + Arrears[u] >= 0
    /\ u \in pass.loaded =>
         /\ pass.balance[u] + Arrears[u] >= 0
         /\ pass.balance[u] - Fen < balance[u] + leftover[u].fee
PayFunded ==
  pass.at = "pay" =>
    /\ pass.key[1] \in pass.loaded
    /\ Funded(pass.key[1]) =>
         /\ pass.due["balance"] >= 0
         /\ Price[pass.key] * pass.due["balance"]
              <= pass.balance[pass.key[1]] + Arrears[pass.key[1]]
FundsKept == (\A u \in User : UserFunded(u)) /\ PayFunded

(* The types of what a user's money is made of. *)
LEMMA MoneyTyped ==
  ASSUME TypeOK, NEW u \in User
  PROVE  /\ balance[u] \in Int /\ pass.balance[u] \in Int /\ Arrears[u] \in Int
         /\ leftover[u] \in [fee : Int, refund : Int]
         /\ leftover[u].fee \in Int /\ leftover[u].refund \in Int
         /\ Fen \in Nat /\ Fen > 0
<1>1. leftover[u] \in [fee : Int, refund : Int]
  BY DEF TypeOK
<1>2. balance[u] \in Int /\ pass.balance[u] \in Int
  BY Types DEF Pass
<1> QED
  BY <1>1, <1>2, SettleAssumption, FenAssumption

(* What a posting does to the remainders, be it logged only or also stored. *)
LEMMA LogSmall ==
  ASSUME TypeOK, LeftoversSmall, NEW u \in User, NEW kind \in {"fee", "refund"},
         NEW amount \in Int, kind = "fee" => amount <= 0, kind = "refund" => amount >= 0,
         LogFee(u, kind, amount)
  PROVE  LET s == CalcLeftover(amount + leftover[u][kind]) IN
         /\ s.amount \in Int /\ s.leftover \in Int
         /\ s.amount + s.leftover = amount + leftover[u][kind]
         /\ WholeFen(s.amount)
         /\ kind = "fee" => -Fen < s.leftover /\ s.leftover <= 0
         /\ kind = "refund" => 0 <= s.leftover /\ s.leftover < Fen /\ s.amount >= 0
         /\ \A v \in User : leftover'[v] = IF v = u THEN [leftover[u] EXCEPT ![kind] = s.leftover]
                                                    ELSE leftover[v]
<1> DEFINE raw == amount + leftover[u][kind]
           s == CalcLeftover(raw)
<1>1. leftover \in [User -> [fee : Int, refund : Int]]
  BY DEF TypeOK
<1>2. leftover[u][kind] \in Int /\ raw \in Int
  BY MoneyTyped
<1>3. (kind = "fee" => raw <= 0) /\ (kind = "refund" => raw >= 0)
  <2>1. leftover[u].fee <= 0 /\ leftover[u].refund >= 0
    BY DEF LeftoversSmall
  <2> QED
    BY <1>2, <2>1, MoneyTyped
<1>4. leftover' = [leftover EXCEPT ![u] = [leftover[u] EXCEPT ![kind] = s.leftover]]
  BY DEF LogFee
<1> HIDE DEF raw
<1>5. /\ s \in [amount : Int, leftover : Int]
      /\ s.amount + s.leftover = raw /\ WholeFen(s.amount)
      /\ -Fen < s.leftover /\ s.leftover < Fen
  BY <1>2, CalcLeftoverSplits
<1>6. /\ kind = "fee" => s.leftover <= 0
      /\ kind = "refund" => s.leftover >= 0 /\ s.amount >= 0
  BY <1>2, <1>3, SplitKeepsSign
<1> HIDE DEF s
<1>7. \A v \in User : leftover'[v] = IF v = u THEN [leftover[u] EXCEPT ![kind] = s.leftover]
                                              ELSE leftover[v]
  BY <1>1, <1>4
<1> QED
  BY <1>5, <1>6, <1>7 DEF s, raw

(* A log row alone keeps the remainders small. *)
LEMMA LogKeepsSmall ==
  ASSUME TypeOK, LeftoversSmall, NEW u \in User, NEW kind \in {"fee", "refund"},
         NEW amount \in Int, kind = "fee" => amount <= 0, kind = "refund" => amount >= 0,
         LogFee(u, kind, amount),
         \A v \in User : WholeFen(balance'[v])
  PROVE  LeftoversSmall'
<1> DEFINE s == CalcLeftover(amount + leftover[u][kind])
<1>1. /\ s.leftover \in Int
      /\ kind = "fee" => -Fen < s.leftover /\ s.leftover <= 0
      /\ kind = "refund" => 0 <= s.leftover /\ s.leftover < Fen
      /\ \A v \in User : leftover'[v] = IF v = u THEN [leftover[u] EXCEPT ![kind] = s.leftover]
                                                 ELSE leftover[v]
  BY LogSmall
<1> HIDE DEF s
<1>2. leftover[u] \in [fee : Int, refund : Int]
  BY MoneyTyped
<1>3. /\ -Fen < leftover[u].fee /\ leftover[u].fee <= 0
      /\ 0 <= leftover[u].refund /\ leftover[u].refund < Fen
  BY DEF LeftoversSmall
<1>4. CASE kind = "fee"
  <2>1. leftover'[u].fee = s.leftover /\ leftover'[u].refund = leftover[u].refund
    BY <1>1, <1>2, <1>4
  <2> QED
    BY <1>1, <1>3, <1>4, <2>1 DEF LeftoversSmall
<1>5. CASE kind = "refund"
  <2>1. leftover'[u].refund = s.leftover /\ leftover'[u].fee = leftover[u].fee
    BY <1>1, <1>2, <1>5
  <2> QED
    BY <1>1, <1>3, <1>5, <2>1 DEF LeftoversSmall
<1> QED
  BY <1>4, <1>5

(* A whole posting keeps the remainders small, and moves balance and remainder
   together by the amount. *)
LEMMA PostSmall ==
  ASSUME TypeOK, LeftoversSmall, NEW u \in User, NEW kind \in {"fee", "refund"},
         NEW amount \in Int, kind = "fee" => amount <= 0, kind = "refund" => amount >= 0,
         PostFee(u, kind, amount)
  PROVE  /\ LeftoversSmall'
         /\ \A v \in User \ {u} : balance'[v] = balance[v] /\ leftover'[v] = leftover[v]
         /\ kind = "fee" => /\ balance'[u] \in Int /\ leftover'[u].fee \in Int
                            /\ balance'[u] + leftover'[u].fee
                                 = balance[u] + leftover[u].fee + amount
         /\ kind = "refund" => /\ leftover'[u].fee = leftover[u].fee
                               /\ balance'[u] \in Int /\ balance'[u] >= balance[u]
<1> DEFINE s == CalcLeftover(amount + leftover[u][kind])
<1>1. LogFee(u, kind, amount) /\ balance' = [balance EXCEPT ![u] = balance[u] + s.amount]
  BY DEF PostFee
<1>2. /\ s.amount \in Int /\ s.leftover \in Int
      /\ s.amount + s.leftover = amount + leftover[u][kind]
      /\ WholeFen(s.amount)
      /\ kind = "refund" => s.amount >= 0
      /\ \A v \in User : leftover'[v] = IF v = u THEN [leftover[u] EXCEPT ![kind] = s.leftover]
                                                 ELSE leftover[v]
  BY <1>1, LogSmall
<1> HIDE DEF s
<1>3. \A v \in User : balance'[v] = IF v = u THEN balance[u] + s.amount ELSE balance[v]
  BY <1>1, Types
<1>4. \A v \in User : WholeFen(balance'[v])
  <2>1. \A v \in User : WholeFen(balance[v])
    BY DEF LeftoversSmall
  <2>2. WholeFen(balance[u] + s.amount)
    BY <1>2, <2>1, MoneyTyped, WholeSum
  <2> QED
    BY <1>3, <2>1, <2>2
<1>5. LeftoversSmall'
  BY <1>1, <1>4, LogKeepsSmall
<1>6. leftover[u] \in [fee : Int, refund : Int] /\ balance[u] \in Int
  BY MoneyTyped
<1>7. CASE kind = "fee"
  <2>1. leftover'[u].fee = s.leftover
    BY <1>2, <1>6, <1>7
  <2> QED
    BY <1>2, <1>3, <1>5, <1>6, <1>7, <2>1
<1>8. CASE kind = "refund"
  <2>1. leftover'[u].fee = leftover[u].fee
    BY <1>2, <1>6, <1>8
  <2> QED
    BY <1>2, <1>3, <1>5, <1>6, <1>8, <2>1
<1> QED
  BY <1>7, <1>8

(* The fee of what is charged, and what it is charged for. *)
LEMMA FeeTyped ==
  ASSUME TypeOK
  PROVE  LET fee == -(Price[pass.key] * ChargeOf(pass.due)["balance"]) IN
         /\ pass.key \in Key /\ pass.key[1] \in User /\ pass.due \in Due
         /\ fee \in Int /\ fee <= 0
         /\ pass.due["balance"] \in Int
         /\ pass.due["balance"] >= 0 => fee = -(Price[pass.key] * pass.due["balance"])
<1>1. PICK k \in Key, due \in Due : k = pass.key /\ due = pass.due
  BY Types DEF Pass
<1>2. k[1] \in User /\ Price[k] \in Nat /\ due["balance"] \in Int
  BY SettleAssumption DEF Key, Due, SettleType
<1>3. ChargeOf(due)["balance"] = Positive(due["balance"])
  BY DEF ChargeOf, SettleType
<1>4. PICK n \in Nat : n = ChargeOf(due)["balance"] /\ (due["balance"] >= 0 => n = due["balance"])
  BY <1>2, <1>3 DEF Positive
<1>5. -(Price[k] * n) \in Int /\ -(Price[k] * n) <= 0
  BY <1>2, <1>4
<1> QED
  BY <1>1, <1>2, <1>4, <1>5

(* What a refund pays back of the balance. *)
LEMMA RefundFeeTyped ==
  ASSUME TypeOK, Popping
  PROVE  /\ refund.key \in Key /\ refund.key[1] \in User
         /\ Price[refund.key] * MatchCount \in Int /\ Price[refund.key] * MatchCount >= 0
<1>1. PICK k \in Key, n \in Nat, p \in Nat :
        k = refund.key /\ n = MatchCount /\ p = Price[refund.key]
  BY TopTyped, SettleAssumption
<1>2. p * n \in Int /\ p * n >= 0
  BY <1>1
<1> QED
  BY <1>1, <1>2 DEF Key

(* Every step keeps the remainders small and the balances whole. *)
LEMMA NextSmall ==
  ASSUME TypeOK, LeftoversSmall, [Next]_vars
  PROVE  LeftoversSmall'
<1>1. CASE UNCHANGED <<balance, leftover>>
  BY <1>1 DEF LeftoversSmall
<1>2. CASE PayKey
  <2>1. PostFee(pass.key[1], "fee", -(Price[pass.key] * ChargeOf(pass.due)["balance"]))
    BY <1>2 DEF PayKey
  <2> QED
    BY <2>1, FeeTyped, PostSmall
<1>3. CASE RefundItem
  <2>1. CASE Top.type = "balance"
    <3>1. Popping /\ PostFee(refund.key[1], "refund", Price[refund.key] * MatchCount)
      BY <1>3, <2>1 DEF RefundItem, Repay, RepayFee
    <3> QED
      BY <3>1, RefundFeeTyped, PostSmall
  <2>2. CASE Top.type # "balance"
    BY <1>1, <1>3, <2>2 DEF RefundItem, Repay, RepayQuota
  <2> QED
    BY <2>1, <2>2
<1>4. CASE RefundFails
  <2>1. CASE /\ Popping
             /\ LogFee(refund.key[1], "refund", Price[refund.key] * MatchCount)
             /\ UNCHANGED <<quota, balance, refunded>>
    <3>1. \A v \in User : WholeFen(balance'[v])
      BY <2>1 DEF LeftoversSmall
    <3> QED
      BY <2>1, <3>1, RefundFeeTyped, LogKeepsSmall
  <2>2. CASE UNCHANGED <<balance, leftover>>
    BY <1>1, <2>2
  <2> QED
    BY <1>4, <2>1, <2>2 DEF RefundFails, RepayQuota
<1>5. ASSUME NEW u \in User, NEW a \in Int, WholeFen(a), MoveBalance(u, a)
      PROVE  LeftoversSmall'
  <2>1. \A v \in User : balance'[v] = IF v = u THEN balance[u] + a ELSE balance[v]
    BY <1>5, Types DEF MoveBalance
  <2>2. \A v \in User : WholeFen(balance'[v])
    BY <1>5, <2>1, MoneyTyped, WholeSum DEF LeftoversSmall
  <2>3. leftover' = leftover
    BY <1>5 DEF MoveBalance
  <2> QED
    BY <2>2, <2>3 DEF LeftoversSmall
<1>6. CASE \E u \in User : \/ \E a \in DepositAmounts : MoveBalance(u, a)
                         \/ \E a \in WithdrawAmounts : MoveBalance(u, -a)
  <2>1. CASE \E u \in User, a \in DepositAmounts : MoveBalance(u, a)
    BY <1>5, <2>1, SettleAssumption, WholeFenAssumption
  <2>2. CASE \E u \in User, a \in WithdrawAmounts : MoveBalance(u, -a)
    <3>1. PICK u \in User, a \in WithdrawAmounts : MoveBalance(u, -a)
      BY <2>2
    <3>2. a \in Int /\ WholeFen(a)
      BY SettleAssumption, WholeFenAssumption
    <3>3. PICK q \in Int : a = Fen * q
      BY <3>2, WholeIsMultiple
    <3>4. -a \in Int /\ WholeFen(-a)
      BY <3>2, <3>3, MultipleIsWhole DEF WholeFen
    <3> QED
      BY <1>5, <3>1, <3>4
  <2> QED
    BY <1>6, <2>1, <2>2
<1>7. CASE SettleStep /\ ~PayKey
  BY <1>1, <1>7 DEF SettleStep, BeginPass, PickKey, DecrCount, EndPass, store
<1>8. CASE RefundSave \/ (Faults /\ ~RefundFails)
  BY <1>1, <1>8 DEF RefundSave, Faults, SkipKey, PayFails, DecrFails, DecrRepeated, Crash, store
<1>9. CASE Others /\ ~(\E u \in User : \/ \E a \in DepositAmounts : MoveBalance(u, a)
                                      \/ \E a \in WithdrawAmounts : MoveBalance(u, -a))
  BY <1>1, <1>9 DEF Others, ApiCall, DepositRollover, RefundBegin, ResetQuotaByPlan,
     ResetQuotaOnPlanUpdated, ResetFind, ResetSave, store
<1>10. CASE UNCHANGED vars
  BY <1>1, <1>10 DEF vars, store
<1> QED
  BY <1>2, <1>3, <1>4, <1>6, <1>7, <1>8, <1>9, <1>10 DEF Next, Rest, RefundStep

(* The rows that a pass has after looking at those of a user. *)
LEMMA LoadedFields ==
  ASSUME TypeOK, NEW u \in User
  PROVE  LET rows == Loaded(u) IN
         /\ rows \in Pass
         /\ rows.at = pass.at /\ rows.todo = pass.todo /\ rows.seen = pass.seen
         /\ rows.loaded = pass.loaded \cup {u}
         /\ \A v \in User : rows.balance[v] =
              IF v = u /\ u \notin pass.loaded THEN balance[u] ELSE pass.balance[v]
         /\ \A j \in Key : rows.quota[j] =
              IF j[1] = u /\ u \notin pass.loaded THEN quota[j] ELSE pass.quota[j]
<1>1. pass \in Pass /\ Loaded(u) \in Pass
  BY Types, LoadedTyped
<1>2. CASE u \in pass.loaded
  <2>1. Loaded(u) = pass
    BY <1>2 DEF Loaded
  <2> QED
    BY <1>1, <1>2, <2>1 DEF Pass
<1>3. CASE u \notin pass.loaded
  <2> DEFINE all == pass.loaded \cup {u}
             bal == [pass.balance EXCEPT ![u] = balance[u]]
             quo == [j \in Key |-> IF j[1] = u THEN quota[j] ELSE pass.quota[j]]
  <2>1. Loaded(u) = [pass EXCEPT !.loaded = all, !.balance = bal, !.quota = quo]
    BY <1>3 DEF Loaded
  <2>2. /\ \A v \in User : bal[v] = IF v = u THEN balance[u] ELSE pass.balance[v]
        /\ \A j \in Key : quo[j] = IF j[1] = u THEN quota[j] ELSE pass.quota[j]
    BY <1>1 DEF Pass
  <2> HIDE DEF bal, quo, all
  <2>3. /\ Loaded(u).at = pass.at /\ Loaded(u).todo = pass.todo
        /\ Loaded(u).seen = pass.seen /\ Loaded(u).loaded = all
        /\ Loaded(u).balance = bal /\ Loaded(u).quota = quo
    BY <1>1, <2>1 DEF Pass
  <2> QED
    BY <1>1, <1>3, <2>2, <2>3 DEF all
<1> QED
  BY <1>2, <1>3

(* The pass that goes on with a key. *)
LEMMA PickKeyFields ==
  ASSUME TypeOK, NEW k \in Key, PickKey(k)
  PROVE  LET rows == Loaded(k[1])
             due == DueOf(k, pass.seen[k], rows.quota[k], rows.balance[k[1]] + Arrears[k[1]])
         IN
         /\ k[1] \in User /\ k \in pass.todo /\ pass.at = "next"
         /\ pass'.at = IF InQuota(due) = 0 /\ due["balance"] = 0 THEN "next" ELSE "pay"
         /\ pass'.key = k /\ pass'.due = due
         /\ pass'.todo = pass.todo \ {k} /\ pass'.seen = pass.seen
         /\ pass'.loaded = pass.loaded \cup {k[1]}
         /\ pass'.balance = rows.balance /\ pass'.quota = rows.quota
         /\ due \in Due
<1> DEFINE due == DueOf(k, pass.seen[k], Loaded(k[1]).quota[k],
                        Loaded(k[1]).balance[k[1]] + Arrears[k[1]])
           at == IF InQuota(due) = 0 /\ due["balance"] = 0 THEN "next" ELSE "pay"
<1>1. k[1] \in User
  BY DEF Key
<1>2. PICK rows \in Pass : rows = Loaded(k[1])
  BY <1>1, LoadedTyped
<1>3. due \in Due
  <2>1. pass.seen[k] \in Int /\ rows.quota[k] \in Quota
    BY <1>2, Types DEF Pass
  <2>2. rows.balance[k[1]] + Arrears[k[1]] \in Int
    BY <1>1, <1>2, SettleAssumption DEF Pass
  <2> QED
    BY <1>2, <2>1, <2>2, DueTyped
<1>4. /\ pass.at = "next" /\ k \in pass.todo
      /\ pass' = [rows EXCEPT !.todo = rows.todo \ {k}, !.key = k, !.due = due, !.at = at]
  BY <1>2 DEF PickKey
<1>5. rows.todo = pass.todo /\ rows.seen = pass.seen /\ rows.loaded = pass.loaded \cup {k[1]}
  BY <1>1, <1>2, LoadedFields
<1> HIDE DEF due, at
<1>6. /\ pass'.at = at /\ pass'.key = k /\ pass'.due = due
      /\ pass'.todo = rows.todo \ {k} /\ pass'.seen = rows.seen
      /\ pass'.loaded = rows.loaded
      /\ pass'.balance = rows.balance /\ pass'.quota = rows.quota
  BY <1>2, <1>4 DEF Pass
<1> QED
  BY <1>1, <1>2, <1>3, <1>4, <1>5, <1>6 DEF due, at

(* The pass that has paid a key. *)
LEMMA RememberFields ==
  ASSUME TypeOK, NEW k \in Key, NEW due \in Due
  PROVE  LET r == Remember(k, due) IN
         /\ r.at = "decr" /\ r.key = pass.key /\ r.due = pass.due
         /\ r.todo = pass.todo /\ r.seen = pass.seen /\ r.loaded = pass.loaded
         /\ \A u \in User : r.balance[u] =
              IF u = k[1] THEN pass.balance[u] - Price[k] * due["balance"]
                          ELSE pass.balance[u]
         /\ \A j \in Key : r.quota[j] = IF j = k THEN Lowered(k, due) ELSE pass.quota[j]
<1> DEFINE bal == [pass.balance EXCEPT ![k[1]] =
                     pass.balance[k[1]] - Price[k] * due["balance"]]
           quo == [pass.quota EXCEPT ![k] = Lowered(k, due)]
<1>1. pass \in Pass /\ k[1] \in User
  BY Types DEF Key
<1>2. Remember(k, due) = [pass EXCEPT !.at = "decr", !.quota = quo, !.balance = bal]
  BY DEF Remember
<1>3. /\ \A u \in User : bal[u] = IF u = k[1] THEN pass.balance[u] - Price[k] * due["balance"]
                                             ELSE pass.balance[u]
      /\ \A j \in Key : quo[j] = IF j = k THEN Lowered(k, due) ELSE pass.quota[j]
  BY <1>1 DEF Pass
<1> HIDE DEF bal, quo
<1>4. LET r == Remember(k, due) IN
      /\ r.at = "decr" /\ r.key = pass.key /\ r.due = pass.due
      /\ r.todo = pass.todo /\ r.seen = pass.seen /\ r.loaded = pass.loaded
      /\ r.balance = bal /\ r.quota = quo
  BY <1>1, <1>2 DEF Pass
<1> QED
  BY <1>3, <1>4

(* A count that is no more than what can be afforded. *)
LEMMA AffordableBound ==
  ASSUME NEW a \in Nat, NEW p \in Nat, p > 0, NEW n \in Int, n <= a \div p
  PROVE  p * n <= a
<1>1. PICK d \in Nat : d = a \div p
  OBVIOUS
<1>2. p * d <= a
  BY <1>1
<1>3. PICK e \in Nat : e = d - n
  BY <1>1
<1>4. p * e >= 0
  OBVIOUS
<1>5. p * d = p * n + p * e
  BY <1>3
<1>6. p * n \in Int /\ p * d \in Int /\ p * e \in Int
  BY <1>1, <1>3
<1> QED
  BY <1>2, <1>4, <1>5, <1>6

(* What is due from the balance is not negative, and is there, if there is a balance
   and some calls are to be paid. *)
LEMMA DueAffordable ==
  ASSUME NEW k \in Key, NEW n \in Int, n > 0, NEW q \in Quota, NEW a \in Nat
  PROVE  /\ DueOf(k, n, q, a)["balance"] \in Nat
         /\ Price[k] * DueOf(k, n, q, a)["balance"] <= a
<1>1. PICK p \in Nat : p = Price[k]
  BY SettleAssumption
<1>2. q.reset + q.rollover \in Int
  BY DEF Quota
<1> DEFINE rest == n - Lesser(n, q.reset + q.rollover)
<1>3. rest \in Nat
  BY <1>2 DEF Lesser
<1>4. DueOf(k, n, q, a)["balance"] = IF p > 0 THEN Lesser(rest, TruncDiv(a, p)) ELSE rest
  BY <1>1 DEF DueOf, SettleType
<1> HIDE DEF rest
<1>5. CASE p > 0
  <2>1. PICK d \in Nat : d = a \div p
    BY <1>5
  <2>2. TruncDiv(a, p) = d
    BY <2>1 DEF TruncDiv
  <2>3. PICK m \in Nat : m = Lesser(rest, d)
    BY <1>3 DEF Lesser
  <2>4. m <= a \div p
    BY <1>3, <2>1, <2>3 DEF Lesser
  <2>5. p * m <= a
    BY <1>5, <2>4, AffordableBound
  <2> QED
    BY <1>1, <1>4, <1>5, <2>2, <2>3, <2>5
<1>6. CASE p = 0
  BY <1>1, <1>3, <1>4, <1>6
<1> QED
  BY <1>1, <1>5, <1>6

(* Reading balances in a pass keeps the users funded. *)
LEMMA ReadingKeepsFunds ==
  ASSUME TypeOK, LeftoversSmall, \A u \in User : UserFunded(u),
         UNCHANGED <<balance, leftover>>,
         \A u \in pass'.loaded : \/ u \in pass.loaded /\ pass'.balance[u] = pass.balance[u]
                                \/ pass'.balance[u] = balance[u]
  PROVE  \A u \in User : UserFunded(u)'
<1> TAKE u \in User
<1>1. CASE u \in pass'.loaded /\ pass'.balance[u] = balance[u]
  <2>1. balance[u] - Fen < balance[u] + leftover[u].fee
    BY MoneyTyped DEF LeftoversSmall
  <2> QED
    BY <1>1, <2>1 DEF UserFunded, Funded
<1>2. CASE ~(u \in pass'.loaded /\ pass'.balance[u] = balance[u])
  BY <1>2 DEF UserFunded, Funded
<1> QED
  BY <1>1, <1>2

(* Money that comes keeps them funded. *)
LEMMA IncomeKeepsFunds ==
  ASSUME TypeOK, FundsKept, pass' = pass,
         \A u \in User : /\ balance'[u] \in Int /\ balance'[u] >= balance[u]
                         /\ leftover'[u].fee = leftover[u].fee
  PROVE  FundsKept'
<1>1. \A u \in User : UserFunded(u)'
  BY MoneyTyped DEF FundsKept, UserFunded, Funded
<1> QED
  BY <1>1 DEF FundsKept, PayFunded, Funded

(* What a pass takes from a balance it can pay. *)
LEMMA PickKeyFunds ==
  ASSUME TypeOK, LeftoversSmall, TodoCounted, FundsKept, NEW k \in Key, PickKey(k)
  PROVE  FundsKept'
<1>1. PICK rows \in Pass : rows = Loaded(k[1])
  BY LoadedTyped DEF Key
<1> DEFINE due == DueOf(k, pass.seen[k], rows.quota[k], rows.balance[k[1]] + Arrears[k[1]])
<1>2. /\ k[1] \in User /\ k \in pass.todo
      /\ pass'.key = k /\ pass'.due = due
      /\ pass'.loaded = pass.loaded \cup {k[1]} /\ pass'.balance = rows.balance
  BY <1>1, PickKeyFields
<1>3. \A u \in User : rows.balance[u] =
         IF u = k[1] /\ u \notin pass.loaded THEN balance[u] ELSE pass.balance[u]
  BY <1>1, <1>2, LoadedFields
<1>4. UNCHANGED <<balance, leftover>>
  BY DEF PickKey, store
<1>5. \A u \in User : UserFunded(u)'
  <2>1. pass.loaded \subseteq User
    BY Types DEF Pass
  <2> QED
    BY <1>2, <1>3, <1>4, <2>1, ReadingKeepsFunds DEF FundsKept
<1>6. ASSUME Funded(k[1])
      PROVE  due["balance"] >= 0
             /\ Price[k] * due["balance"] <= rows.balance[k[1]] + Arrears[k[1]]
  <2>1. UserFunded(k[1])'
    BY <1>2, <1>5
  <2>2. rows.balance[k[1]] + Arrears[k[1]] >= 0
    BY <1>2, <1>6, <2>1 DEF UserFunded, Funded
  <2>3. rows.balance[k[1]] + Arrears[k[1]] \in Nat
    BY <1>1, <1>2, <2>2, SettleAssumption DEF Pass
  <2>4. pass.seen[k] \in Int /\ pass.seen[k] > 0
    BY <1>2, Types DEF Pass, TodoCounted
  <2>5. rows.quota[k] \in Quota
    BY <1>1 DEF Pass
  <2> QED
    BY <2>3, <2>4, <2>5, DueAffordable
<1> HIDE DEF due
<1>7. PayFunded'
  BY <1>2, <1>6 DEF PayFunded, Funded
<1> QED
  BY <1>5, <1>7 DEF FundsKept

(* A payment takes from memory and from MySQL alike, but for the fraction. *)
LEMMA PayKeyFunds ==
  ASSUME TypeOK, LeftoversSmall, FundsKept, PayKey
  PROVE  FundsKept'
<1>1. PICK k \in Key, due \in Due : k = pass.key /\ due = pass.due
  BY Types DEF Pass
<1> DEFINE fee == -(Price[k] * ChargeOf(due)["balance"])
           w == k[1]
<1>2. /\ w \in User /\ fee \in Int /\ fee <= 0
      /\ due["balance"] >= 0 => fee = -(Price[k] * due["balance"])
  BY <1>1, FeeTyped
<1>3. PostFee(w, "fee", fee) /\ pass' = Remember(k, due) /\ pass.at = "pay"
  BY <1>1 DEF PayKey
<1>4. Price[k] * due["balance"] \in Int
  BY SettleAssumption DEF Due, SettleType
<1>5. /\ pass'.at = "decr" /\ pass'.loaded = pass.loaded
      /\ \A u \in User : pass'.balance[u] =
           IF u = w THEN pass.balance[u] - Price[k] * due["balance"] ELSE pass.balance[u]
  BY <1>3, RememberFields
<1> HIDE DEF fee
<1>6. /\ LeftoversSmall'
      /\ \A v \in User \ {w} : balance'[v] = balance[v] /\ leftover'[v] = leftover[v]
      /\ balance'[w] \in Int /\ leftover'[w].fee \in Int
      /\ balance'[w] + leftover'[w].fee = balance[w] + leftover[w].fee + fee
  BY <1>2, <1>3, PostSmall
<1>7. \A u \in User \ {w} : UserFunded(u)'
  BY <1>5, <1>6 DEF FundsKept, UserFunded, Funded
<1>8. UserFunded(w)'
  <2> SUFFICES ASSUME Funded(w)
               PROVE  /\ balance'[w] + Arrears[w] >= 0
                      /\ pass'.balance[w] + Arrears[w] >= 0
                      /\ pass'.balance[w] - Fen < balance'[w] + leftover'[w].fee
    BY DEF UserFunded, Funded
  <2>1. /\ w \in pass.loaded /\ due["balance"] >= 0
        /\ Price[k] * due["balance"] <= pass.balance[w] + Arrears[w]
        /\ pass.balance[w] - Fen < balance[w] + leftover[w].fee
    BY <1>1, <1>2, <1>3 DEF FundsKept, PayFunded, UserFunded
  <2>2. pass'.balance[w] = pass.balance[w] + fee /\ pass'.balance[w] + Arrears[w] >= 0
    BY <1>2, <1>4, <1>5, <2>1, MoneyTyped
  <2>3. pass'.balance[w] - Fen < balance'[w] + leftover'[w].fee
    BY <1>2, <1>6, <2>1, <2>2, MoneyTyped
  <2>4. balance'[w] + Arrears[w] > -Fen
    <3>1. leftover'[w].fee <= 0
      BY <1>2, <1>6 DEF LeftoversSmall
    <3>2. pass'.balance[w] \in Int
      BY <1>2, <2>2, MoneyTyped
    <3> QED
      BY <1>2, <1>6, <2>2, <2>3, <3>1, <3>2, MoneyTyped
  <2>5. WholeFen(balance'[w] + Arrears[w])
    BY <1>2, <1>6, MoneyTyped, WholeFenAssumption, WholeSum DEF LeftoversSmall
  <2>6. balance'[w] + Arrears[w] >= 0
    BY <1>2, <1>6, <2>4, <2>5, MoneyTyped, WholeNotBelow
  <2> QED
    BY <2>2, <2>3, <2>6
<1> QED
  BY <1>5, <1>7, <1>8 DEF FundsKept, PayFunded

(* A step of the loop that pays nothing: it keeps the rows it has read, drops them,
   or reads those of another user. *)
QuietPass ==
  /\ UNCHANGED store
  /\ plan' = plan \/ plan'.at = "idle"
  /\ pass'.at \in {"idle", "next"}
  /\ pass'.loaded \subseteq User
  /\ \A u \in pass'.loaded :
       \/ /\ u \in pass.loaded /\ pass'.balance[u] = pass.balance[u]
          /\ \A j \in Key : j[1] = u => pass'.quota[j] = pass.quota[j]
       \/ /\ pass'.balance[u] = balance[u]
          /\ \A j \in Key : j[1] = u => pass'.quota[j] = quota[j]
  /\ \A k \in pass'.todo :
       \/ k \in pass.todo /\ pass'.seen[k] = pass.seen[k]
       \/ pass'.seen[k] > 0

(* The steps of the loop that do. *)
LEMMA StepsQuiet ==
  ASSUME TypeOK,
         \/ BeginPass \/ DecrCount \/ EndPass
         \/ \E k \in Key : SkipKey(k)
         \/ PayFails \/ DecrFails \/ DecrRepeated \/ Crash
  PROVE  QuietPass
<1>1. pass \in Pass
  BY Types
<1>2. CASE BeginPass
  <2>1. pass' = [NoPass EXCEPT !.at = "next", !.todo = UserCounts, !.seen = count]
        /\ UNCHANGED store /\ plan' = plan
    BY <1>2 DEF BeginPass
  <2>2. pass'.at = "next" /\ pass'.todo = UserCounts /\ pass'.seen = count /\ pass'.loaded = {}
    BY <2>1 DEF NoPass
  <2> QED
    BY <2>1, <2>2 DEF UserCounts, QuietPass
<1>3. CASE EndPass \/ Crash
  <2>1. pass' = NoPass /\ UNCHANGED store /\ (plan' = plan \/ plan'.at = "idle")
    BY <1>3 DEF EndPass, Crash, NoPlan
  <2>2. pass'.at = "idle" /\ pass'.todo = {} /\ pass'.loaded = {}
    BY <2>1 DEF NoPass
  <2> QED
    BY <2>1, <2>2 DEF QuietPass
<1>4. CASE DecrCount \/ PayFails \/ DecrFails \/ DecrRepeated
  <2>1. pass' = [pass EXCEPT !.at = "next"] /\ UNCHANGED store /\ plan' = plan
    BY <1>4 DEF DecrCount, PayFails, DecrFails, DecrRepeated
  <2>2. /\ pass'.at = "next" /\ pass'.todo = pass.todo /\ pass'.seen = pass.seen
        /\ pass'.loaded = pass.loaded /\ pass'.balance = pass.balance
        /\ pass'.quota = pass.quota /\ pass.loaded \subseteq User
    BY <1>1, <2>1 DEF Pass
  <2> QED
    BY <2>1, <2>2 DEF QuietPass
<1>5. ASSUME NEW k \in Key, SkipKey(k) PROVE QuietPass
  <2>1. PICK rows \in {pass, Loaded(k[1])} : pass' = [rows EXCEPT !.todo = rows.todo \ {k}]
    BY <1>5 DEF SkipKey
  <2>2. k[1] \in User /\ pass.at = "next" /\ UNCHANGED store /\ plan' = plan
    BY <1>5 DEF SkipKey, Key
  <2>3. CASE rows = pass
    <3>1. /\ pass'.at = "next" /\ pass'.todo = pass.todo \ {k} /\ pass'.seen = pass.seen
          /\ pass'.loaded = pass.loaded /\ pass'.balance = pass.balance
          /\ pass'.quota = pass.quota /\ pass.loaded \subseteq User
      BY <1>1, <2>1, <2>2, <2>3 DEF Pass
    <3> QED
      BY <2>2, <3>1 DEF QuietPass
  <2>4. CASE rows = Loaded(k[1])
    <3>1. /\ rows \in Pass
          /\ rows.at = "next" /\ rows.todo = pass.todo /\ rows.seen = pass.seen
          /\ rows.loaded = pass.loaded \cup {k[1]}
          /\ \A v \in User : rows.balance[v] =
               IF v = k[1] /\ k[1] \notin pass.loaded THEN balance[k[1]] ELSE pass.balance[v]
          /\ \A j \in Key : rows.quota[j] =
               IF j[1] = k[1] /\ k[1] \notin pass.loaded THEN quota[j] ELSE pass.quota[j]
      BY <2>2, <2>4, LoadedFields
    <3>2. /\ pass'.at = "next" /\ pass'.todo = rows.todo \ {k} /\ pass'.seen = rows.seen
          /\ pass'.loaded = rows.loaded /\ pass'.balance = rows.balance
          /\ pass'.quota = rows.quota /\ rows.loaded \subseteq User
      BY <2>1, <3>1 DEF Pass
    <3> QED
      BY <2>2, <3>1, <3>2 DEF QuietPass
  <2> QED
    BY <2>1, <2>3, <2>4
<1> QED
  BY <1>2, <1>3, <1>4, <1>5

(* The loop but for a payment and what comes before. *)
LEMMA PassSteps ==
  ASSUME TypeOK, [Next]_vars
  PROVE  \/ QuietPass
         \/ \E k \in Key : PickKey(k)
         \/ PayKey
         \/ RefundItem \/ RefundFails
         \/ \E u \in User : \/ \E a \in DepositAmounts : MoveBalance(u, a)
                            \/ \E a \in WithdrawAmounts : MoveBalance(u, -a)
         \/ \E k \in Key, n \in RolloverCounts : DepositRollover(k, n)
         \/ \E u \in User, q \in PlanQuotas :
              ResetQuotaByPlan(u, q) \/ ResetQuotaOnPlanUpdated(u, q)
         \/ ResetFind \/ ResetSave
         \/ UNCHANGED <<quota, balance, leftover, pass, plan>>
<1>1. CASE SettleStep
  BY <1>1, StepsQuiet DEF SettleStep
<1>2. CASE RefundStep
  BY <1>2 DEF RefundStep, RefundSave
<1>3. CASE Others
  BY <1>3 DEF Others, ApiCall, RefundBegin, store
<1>4. CASE Faults
  BY <1>4, StepsQuiet DEF Faults
<1>5. CASE UNCHANGED vars
  BY <1>5 DEF vars, store
<1> QED
  BY <1>1, <1>2, <1>3, <1>4, <1>5 DEF Next, Rest

(* Every key that a pass has still to do had calls when it began. *)
LEMMA NextTodoCounted ==
  ASSUME TypeOK, TodoCounted, [Next]_vars
  PROVE  TodoCounted'
<1>1. CASE QuietPass
  BY <1>1 DEF QuietPass, TodoCounted
<1>2. CASE \E k \in Key : PickKey(k)
  <2>1. PICK k \in Key : PickKey(k)
    BY <1>2
  <2>2. pass'.todo = pass.todo \ {k} /\ pass'.seen = pass.seen
    BY <2>1, PickKeyFields
  <2> QED
    BY <2>2 DEF TodoCounted
<1>3. CASE PayKey
  <2>1. PICK k \in Key, due \in Due : k = pass.key /\ due = pass.due
    BY Types DEF Pass
  <2>2. pass'.todo = pass.todo /\ pass'.seen = pass.seen
    BY <1>3, <2>1, RememberFields DEF PayKey
  <2> QED
    BY <2>2 DEF TodoCounted
<1>4. CASE pass' = pass
  BY <1>4 DEF TodoCounted
<1> QED
  BY <1>1, <1>2, <1>3, <1>4, PassSteps
     DEF RefundItem, RefundFails, MoveBalance, DepositRollover, ResetQuotaByPlan,
         ResetQuotaOnPlanUpdated, ResetFind, ResetSave

(* No step overdraws a balance, if nobody withdraws. *)
LEMMA NextFunds ==
  ASSUME TypeOK, LeftoversSmall, TodoCounted, FundsKept, WithdrawAmounts = {}, [Next]_vars
  PROVE  FundsKept'
<1>1. CASE QuietPass
  <2>1. \A u \in User : UserFunded(u)'
    BY <1>1, ReadingKeepsFunds DEF QuietPass, FundsKept, store
  <2> QED
    BY <1>1, <2>1 DEF QuietPass, FundsKept, PayFunded
<1>2. CASE \E k \in Key : PickKey(k)
  BY <1>2, PickKeyFunds
<1>3. CASE PayKey
  BY <1>3, PayKeyFunds
<1>4. CASE UNCHANGED <<balance, pass>> /\ \A u \in User : leftover'[u].fee = leftover[u].fee
  BY <1>4, MoneyTyped, IncomeKeepsFunds
<1>5. CASE RefundItem
  <2>1. CASE Top.type = "balance"
    <3>1. Popping /\ PostFee(refund.key[1], "refund", Price[refund.key] * MatchCount)
          /\ pass' = pass
      BY <1>5, <2>1 DEF RefundItem, Repay, RepayFee
    <3>2. \A u \in User : /\ balance'[u] \in Int /\ balance'[u] >= balance[u]
                          /\ leftover'[u].fee = leftover[u].fee
      BY <3>1, MoneyTyped, RefundFeeTyped, PostSmall
    <3> QED
      BY <3>1, <3>2, IncomeKeepsFunds
  <2>2. CASE Top.type # "balance"
    BY <1>4, <1>5, <2>2 DEF RefundItem, Repay, RepayQuota
  <2> QED
    BY <2>1, <2>2
<1>6. CASE RefundFails
  <2>1. UNCHANGED <<balance, pass>>
    BY <1>6 DEF RefundFails, RepayQuota
  <2>2. CASE Popping /\ LogFee(refund.key[1], "refund", Price[refund.key] * MatchCount)
    <3> DEFINE w == refund.key[1]
               amount == Price[refund.key] * MatchCount
               rest == CalcLeftover(amount + leftover[w]["refund"]).leftover
    <3>1. w \in User /\ amount \in Int /\ amount >= 0 /\ LogFee(w, "refund", amount)
      BY <2>2, RefundFeeTyped
    <3> HIDE DEF w, amount
    <3>a. \A u \in User : leftover'[u] =
            IF u = w THEN [leftover[w] EXCEPT !["refund"] = rest] ELSE leftover[u]
      BY <3>1, LogSmall
    <3> HIDE DEF rest
    <3>2. \A u \in User : leftover'[u].fee = leftover[u].fee
      BY <3>1, <3>a, MoneyTyped
    <3> QED
      BY <1>4, <2>1, <3>2
  <2>3. CASE leftover' = leftover
    BY <1>4, <2>1, <2>3
  <2> QED
    BY <1>6, <2>2, <2>3 DEF RefundFails, RepayQuota
<1>7. CASE \E u \in User : \E a \in DepositAmounts : MoveBalance(u, a)
  <2>1. PICK u \in User, a \in DepositAmounts : MoveBalance(u, a)
    BY <1>7
  <2>2. a \in Nat
    BY SettleAssumption
  <2>3. /\ pass' = pass /\ leftover' = leftover
        /\ \A v \in User : balance'[v] = IF v = u THEN balance[u] + a ELSE balance[v]
    BY <2>1, Types DEF MoveBalance
  <2>4. \A v \in User : balance'[v] \in Int /\ balance'[v] >= balance[v]
    BY <2>2, <2>3, MoneyTyped
  <2> QED
    BY <2>3, <2>4, IncomeKeepsFunds
<1>8. CASE UNCHANGED <<balance, leftover, pass>>
  BY <1>4, <1>8
<1> QED
  BY <1>1, <1>2, <1>3, <1>5, <1>6, <1>7, <1>8, PassSteps
     DEF DepositRollover, ResetQuotaByPlan, ResetQuotaOnPlanUpdated, ResetFind, ResetSave, store

Within(q, r) == q.reset <= r.reset /\ q.rollover <= r.rollover
KeyCovered(k) ==
  InCredit(InitialQuota[k]) =>
    /\ InCredit(quota[k])
    /\ k[1] \in pass.loaded => InCredit(pass.quota[k]) /\ Within(pass.quota[k], quota[k])
PayCovered ==
  pass.at = "pay" =>
    /\ pass.key[1] \in pass.loaded
    /\ InCredit(InitialQuota[pass.key]) =>
         /\ 0 <= pass.due["reset"] /\ pass.due["reset"] <= pass.quota[pass.key].reset
         /\ 0 <= pass.due["rollover"]
         /\ pass.due["rollover"] <= pass.quota[pass.key].rollover
QuotasKept == plan.at = "idle" /\ (\A k \in Key : KeyCovered(k)) /\ PayCovered

(* Quota rows in MySQL and in memory. *)
LEMMA QuotaTyped ==
  ASSUME TypeOK, NEW k \in Key
  PROVE  /\ quota[k] \in Quota /\ quota[k].reset \in Int /\ quota[k].rollover \in Int
         /\ pass.quota[k] \in Quota
         /\ pass.quota[k].reset \in Int /\ pass.quota[k].rollover \in Int
<1>1. quota[k] \in Quota /\ pass.quota[k] \in Quota
  BY Types DEF Pass
<1> QED
  BY <1>1 DEF Quota

(* What is due from a quota row is not negative, and is there. *)
LEMMA DueWithin ==
  ASSUME NEW k \in Key, NEW n \in Int, n > 0, NEW q \in Quota, InCredit(q), NEW a \in Int
  PROVE  LET due == DueOf(k, n, q, a) IN
         /\ 0 <= due["reset"] /\ due["reset"] <= q.reset
         /\ 0 <= due["rollover"] /\ due["rollover"] <= q.rollover
<1>1. PICK r \in Nat, o \in Nat : r = q.reset /\ o = q.rollover
  BY DEF Quota, InCredit
<1>2. /\ DueOf(k, n, q, a)["reset"] = Lesser(Lesser(n, r + o), r)
      /\ DueOf(k, n, q, a)["rollover"] = Lesser(n, r + o) - Lesser(Lesser(n, r + o), r)
  BY <1>1 DEF DueOf, SettleType
<1> QED
  BY <1>1, <1>2 DEF Lesser

(* Rows that stay, or grow, cover what they covered. *)
LEMMA IncomeKeepsQuotas ==
  ASSUME TypeOK, QuotasKept, pass' = pass, plan' = plan,
         \A k \in Key : quota'[k] \in Quota /\ Within(quota[k], quota'[k])
  PROVE  QuotasKept'
<1>1. ASSUME NEW k \in Key PROVE KeyCovered(k)'
  <2>1. KeyCovered(k) /\ Within(quota[k], quota'[k])
    BY DEF QuotasKept
  <2>2. quota'[k].reset \in Int /\ quota'[k].rollover \in Int
    BY DEF Quota
  <2> QED
    BY <2>1, <2>2, QuotaTyped DEF KeyCovered, InCredit, Within
<1> QED
  BY <1>1 DEF QuotasKept, PayCovered, InCredit

(* So do rows that a pass reads. *)
LEMMA ReadingKeepsQuotas ==
  ASSUME TypeOK, \A k \in Key : KeyCovered(k), quota' = quota,
         \A k \in Key : k[1] \in pass'.loaded =>
            \/ k[1] \in pass.loaded /\ pass'.quota[k] = pass.quota[k]
            \/ pass'.quota[k] = quota[k]
  PROVE  \A k \in Key : KeyCovered(k)'
<1> TAKE k \in Key
<1>1. Within(quota[k], quota[k])
  BY QuotaTyped DEF Within
<1> QED
  BY <1>1 DEF KeyCovered, InCredit

(* What a pass takes from a quota is there. *)
LEMMA PickKeyQuotas ==
  ASSUME TypeOK, TodoCounted, QuotasKept, NEW k \in Key, PickKey(k)
  PROVE  QuotasKept'
<1>1. PICK rows \in Pass : rows = Loaded(k[1])
  BY LoadedTyped DEF Key
<1> DEFINE due == DueOf(k, pass.seen[k], rows.quota[k], rows.balance[k[1]] + Arrears[k[1]])
<1>2. /\ k[1] \in User /\ k \in pass.todo
      /\ pass'.key = k /\ pass'.due = due
      /\ pass'.loaded = pass.loaded \cup {k[1]} /\ pass'.quota = rows.quota
  BY <1>1, PickKeyFields
<1>3. \A j \in Key : rows.quota[j] =
         IF j[1] = k[1] /\ k[1] \notin pass.loaded THEN quota[j] ELSE pass.quota[j]
  BY <1>1, <1>2, LoadedFields
<1>4. UNCHANGED <<quota, plan>>
  BY DEF PickKey, store
<1>5. \A j \in Key : KeyCovered(j)'
  BY <1>2, <1>3, <1>4, ReadingKeepsQuotas DEF QuotasKept
<1>6. ASSUME InCredit(InitialQuota[k])
      PROVE  /\ 0 <= due["reset"] /\ due["reset"] <= rows.quota[k].reset
             /\ 0 <= due["rollover"] /\ due["rollover"] <= rows.quota[k].rollover
  <2>1. InCredit(rows.quota[k])
    BY <1>2, <1>5, <1>6 DEF KeyCovered, InCredit
  <2>2. pass.seen[k] \in Int /\ pass.seen[k] > 0
    BY <1>2, Types DEF Pass, TodoCounted
  <2>3. rows.quota[k] \in Quota /\ rows.balance[k[1]] + Arrears[k[1]] \in Int
    BY <1>1, <1>2, SettleAssumption DEF Pass
  <2> QED
    BY <2>1, <2>2, <2>3, DueWithin
<1> HIDE DEF due
<1>7. PayCovered'
  BY <1>2, <1>6 DEF PayCovered, InCredit
<1> QED
  BY <1>4, <1>5, <1>7 DEF QuotasKept

(* What is due of a covered quota is charged as it is. *)
LEMMA DueIsCharged ==
  ASSUME NEW due \in Due, due["reset"] >= 0, due["rollover"] >= 0
  PROVE  /\ ChargeOf(due)["reset"] = due["reset"]
         /\ ChargeOf(due)["rollover"] = due["rollover"]
<1>1. due["reset"] \in Int /\ due["rollover"] \in Int
  BY DEF Due, SettleType
<1> QED
  BY <1>1 DEF ChargeOf, SettleType, InQuota

(* A payment takes from memory and from MySQL alike. *)
LEMMA PayKeyQuotas ==
  ASSUME TypeOK, QuotasKept, PayKey
  PROVE  QuotasKept'
<1>1. PICK k \in Key, due \in Due : k = pass.key /\ due = pass.due
  BY Types DEF Pass
<1> DEFINE charge == ChargeOf(due)
           row == [reset |-> quota[k].reset - charge["reset"],
                   rollover |-> quota[k].rollover - charge["rollover"]]
<1>2. /\ pass.at = "pay" /\ pass' = Remember(k, due) /\ plan' = plan
      /\ quota' = [quota EXCEPT ![k] = row]
  BY <1>1 DEF PayKey
<1>3. /\ pass'.at = "decr" /\ pass'.loaded = pass.loaded
      /\ \A j \in Key : pass'.quota[j] = IF j = k THEN Lowered(k, due) ELSE pass.quota[j]
  BY <1>2, RememberFields
<1>4. \A j \in Key : quota'[j] = IF j = k THEN row ELSE quota[j]
  BY <1>2, Types
<1>5. \A j \in Key \ {k} : KeyCovered(j)'
  BY <1>3, <1>4 DEF QuotasKept, KeyCovered, InCredit, Within
<1>6. KeyCovered(k)'
  <2> SUFFICES ASSUME InCredit(InitialQuota[k])
               PROVE  InCredit(row) /\ InCredit(Lowered(k, due)) /\ Within(Lowered(k, due), row)
    BY <1>1, <1>3, <1>4 DEF KeyCovered, InCredit, Within
  <2>1. /\ 0 <= due["reset"] /\ due["reset"] <= pass.quota[k].reset
        /\ 0 <= due["rollover"] /\ due["rollover"] <= pass.quota[k].rollover
        /\ InCredit(pass.quota[k]) /\ Within(pass.quota[k], quota[k])
    BY <1>1, <1>2 DEF QuotasKept, PayCovered, KeyCovered
  <2>2. charge["reset"] = due["reset"] /\ charge["rollover"] = due["rollover"]
    BY <1>1, <2>1, DueIsCharged
  <2>3. due["reset"] \in Int /\ due["rollover"] \in Int
    BY DEF Due, SettleType
  <2> QED
    BY <2>1, <2>2, <2>3, QuotaTyped DEF InCredit, Within, Lowered
<1> QED
  BY <1>2, <1>3, <1>5, <1>6 DEF QuotasKept, PayCovered

(* What a refund pays back to a quota. *)
LEMMA RepayGrows ==
  ASSUME TypeOK, Popping, RepayQuota
  PROVE  \A k \in Key : quota'[k] \in Quota /\ Within(quota[k], quota'[k])
<1>1. PICK w \in Key, m \in Nat : w = refund.key /\ m = MatchCount
  BY TopTyped
<1> DEFINE row == [reset |-> quota[w].reset + Returned["reset"],
                   rollover |-> quota[w].rollover + Returned["rollover"]]
<1>2. Returned["reset"] \in Nat /\ Returned["rollover"] \in Nat
  BY <1>1 DEF Returned, SettleType
<1>3. quota' = [quota EXCEPT ![w] = row]
  BY <1>1 DEF RepayQuota
<1>4. row \in Quota /\ Within(quota[w], row)
  BY <1>2, QuotaTyped DEF Quota, Within
<1> HIDE DEF row
<1>5. \A k \in Key : quota'[k] = IF k = w THEN row ELSE quota[k]
  BY <1>3, Types
<1>6. \A k \in Key : quota[k] \in Quota /\ Within(quota[k], quota[k])
  BY QuotaTyped DEF Within
<1> QED
  BY <1>4, <1>5, <1>6

(* No step takes more of a quota than there is, if no plan resets it. *)
LEMMA NextQuotas ==
  ASSUME TypeOK, TodoCounted, QuotasKept, PlanQuotas = {}, [Next]_vars
  PROVE  QuotasKept'
<1>1. CASE QuietPass
  <2>1. UNCHANGED quota /\ pass'.at # "pay"
    BY <1>1 DEF QuietPass, store
  <2>2. \A k \in Key : KeyCovered(k)'
    BY <1>1, <2>1, ReadingKeepsQuotas DEF QuietPass, QuotasKept
  <2>3. plan'.at = "idle"
    BY <1>1 DEF QuotasKept, QuietPass
  <2> QED
    BY <1>1, <2>1, <2>2, <2>3 DEF QuotasKept, PayCovered
<1>2. CASE \E k \in Key : PickKey(k)
  BY <1>2, PickKeyQuotas
<1>3. CASE PayKey
  BY <1>3, PayKeyQuotas
<1>4. CASE UNCHANGED <<quota, pass, plan>>
  <2>1. \A k \in Key : quota[k] \in Quota /\ Within(quota[k], quota[k])
    BY QuotaTyped DEF Within
  <2> QED
    BY <1>4, <2>1, IncomeKeepsQuotas
<1>5. CASE RefundItem \/ RefundFails
  <2>1. UNCHANGED <<pass, plan>>
    BY <1>5 DEF RefundItem, RefundFails
  <2>2. CASE Popping /\ RepayQuota
    BY <2>1, <2>2, RepayGrows, IncomeKeepsQuotas
  <2> QED
    BY <1>4, <1>5, <2>1, <2>2 DEF RefundItem, RefundFails, Repay, RepayFee
<1>6. CASE \E k \in Key, n \in RolloverCounts : DepositRollover(k, n)
  <2>1. PICK k \in Key, n \in RolloverCounts : DepositRollover(k, n)
    BY <1>6
  <2> DEFINE row == [reset |-> quota[k].reset, rollover |-> quota[k].rollover + n]
  <2>2. n \in Nat
    BY SettleAssumption
  <2>3. UNCHANGED <<pass, plan>> /\ quota' = [quota EXCEPT ![k] = row]
    BY <2>1 DEF DepositRollover
  <2>4. row \in Quota /\ Within(quota[k], row)
    BY <2>2, QuotaTyped DEF Quota, Within
  <2> HIDE DEF row
  <2>5. \A j \in Key : quota'[j] = IF j = k THEN row ELSE quota[j]
    BY <2>3, Types
  <2>6. \A j \in Key : quota[j] \in Quota /\ Within(quota[j], quota[j])
    BY QuotaTyped DEF Within
  <2> QED
    BY <2>3, <2>4, <2>5, <2>6, IncomeKeepsQuotas
<1>7. ~ResetFind /\ ~ResetSave
  BY DEF QuotasKept, ResetFind, ResetSave
<1> QED
  BY <1>1, <1>2, <1>3, <1>4, <1>5, <1>6, <1>7, PassSteps DEF MoveBalance
-----------------------------------------------------------------------------
FundsInv == LeftoversSmall /\ TodoCounted /\ (WithdrawAmounts = {} => FundsKept)
            /\ (PlanQuotas = {} => QuotasKept)

(* It holds at first. *)
LEMMA InitFunds == Init => FundsInv
<1> SUFFICES ASSUME Init PROVE FundsInv
  OBVIOUS
<1>1. NoPass.at = "idle" /\ NoPass.todo = {} /\ NoPass.loaded = {}
  BY DEF NoPass
<1>2. LeftoversSmall
  <2>1. \A u \in User : leftover[u].fee = 0 /\ leftover[u].refund = 0
    BY DEF Init
  <2> QED
    BY <2>1, WholeFenAssumption, FenAssumption DEF LeftoversSmall, Init
<1>3. TodoCounted
  BY <1>1 DEF TodoCounted, Init
<1>4. FundsKept
  BY <1>1 DEF FundsKept, UserFunded, PayFunded, Funded, Init
<1>5. QuotasKept
  BY <1>1 DEF QuotasKept, KeyCovered, PayCovered, InCredit, Init, NoPlan
<1> QED
  BY <1>2, <1>3, <1>4, <1>5 DEF FundsInv

(* The settle loop never overdraws: a balance stays above the arrears quota if it began
   there and nobody withdraws, and a quota that began in credit stays so if no plan
   resets it, whatever fails, for every price and however many keys a pass pays from
   one balance. *)
THEOREM LoopNeverOverdraws == Spec => []NeverOverdraws
<1>1. TypeOK /\ FundsInv /\ [Next]_vars => FundsInv'
  BY NextSmall, NextTodoCounted, NextFunds, NextQuotas DEF FundsInv
<1>2. FundsInv => NeverOverdraws
  BY DEF FundsInv, FundsKept, UserFunded, QuotasKept, KeyCovered, NeverOverdraws
<1> QED
  BY InitFunds, <1>1, <1>2, SettleTypeCorrect, PTL DEF Spec
-----------------------------------------------------------------------------
(***************************************************************************)
(* What can be paid back was taken.  A payment pushes no more on the stack *)
(* than it charges, and a refund takes off the stack what it pays back; so *)
(* it is as long as no refund is broken off, which leaves a stack that has *)
(* been paid back in part.                                                 *)
(***************************************************************************)
Front(items) == SubSeq(items, 1, Len(items) - 1)

(* What an item counts for a type. *)
LEMMA PartTyped == ASSUME NEW item \in Item, NEW t PROVE PartOf(item, t) \in Int
<1>1. item.count \in Int
  BY DEF Item
<1> QED
  BY <1>1 DEF PartOf

(* The items of a stack, and what they count for a type. *)
LEMMA ItemsCount ==
  ASSUME NEW items \in Seq(Item), NEW t
  PROVE  /\ Len(items) \in Nat /\ DOMAIN items = 1 .. Len(items)
         /\ IsFiniteSet(1 .. Len(items))
         /\ \A i \in 1 .. Len(items) : items[i] \in Item /\ PartOf(items[i], t) \in Int
<1>1. Len(items) \in Nat /\ DOMAIN items = 1 .. Len(items)
  OBVIOUS
<1>2. IsFiniteSet(1 .. Len(items))
  <2> DEFINE n == Len(items)
  <2>1. n \in Int /\ 1 \in Int
    BY <1>1
  <2> HIDE DEF n
  <2>2. IsFiniteSet(1 .. n)
    BY <2>1, FS_Interval
  <2> QED
    BY <2>2 DEF n
<1>3. \A i \in 1 .. Len(items) : items[i] \in Item
  OBVIOUS
<1>4. \A item \in Item : PartOf(item, t) \in Int
  BY PartTyped
<1> QED
  BY <1>1, <1>2, <1>3, <1>4

(* What is on a stack is a sum over its places. *)
LEMMA StackTyped ==
  ASSUME NEW items \in Seq(Item), NEW t
  PROVE  /\ OnStack(items, t) \in Int
         /\ OnStack(items, t) =
              SumFunctionOnSet([i \in DOMAIN items |-> PartOf(items[i], t)], 1 .. Len(items))
<1> DEFINE f == [i \in DOMAIN items |-> PartOf(items[i], t)]
<1>1. \A i \in 1 .. Len(items) : f[i] \in Int
  BY ItemsCount
<1>2. DOMAIN f = 1 .. Len(items) /\ IsFiniteSet(1 .. Len(items))
  BY ItemsCount
<1>3. OnStack(items, t) = SumFunctionOnSet(f, DOMAIN f)
  BY DEF OnStack, SumFunction
<1> HIDE DEF f
<1>4. SumFunctionOnSet(f, 1 .. Len(items)) \in Int
  BY <1>1, <1>2, SumInt
<1> QED
  BY <1>2, <1>3, <1>4 DEF f

(* Two stacks that agree below the last item of one. *)
LEMMA StackSplit ==
  ASSUME NEW items \in Seq(Item), NEW below \in Seq(Item),
         Len(items) = Len(below) + 1,
         \A i \in 1 .. Len(below) : items[i] = below[i], NEW t
  PROVE  OnStack(items, t) = PartOf(items[Len(items)], t) + OnStack(below, t)
<1> DEFINE n == Len(items)
           f == [i \in DOMAIN items |-> PartOf(items[i], t)]
           g == [i \in DOMAIN below |-> PartOf(below[i], t)]
<1>3. Len(below) = n - 1 /\ n \in Nat /\ n > 0 /\ n \in 1 .. n
  BY ItemsCount
<1>2. \A i \in 1 .. n : f[i] \in Int
  BY ItemsCount
<1>1. IsFiniteSet(1 .. n) /\ IsFiniteSet(1 .. (n - 1))
  <2>1. IsFiniteSet(1 .. Len(items)) /\ IsFiniteSet(1 .. Len(below))
    BY ItemsCount
  <2> QED
    BY <1>3, <2>1
<1>4. f[n] = PartOf(items[n], t)
  BY <1>1
<1>5. \A i \in 1 .. (n - 1) : f[i] = g[i] /\ f[i] \in Int
  BY <1>2, <1>3
<1>6. /\ OnStack(items, t) = SumFunctionOnSet(f, 1 .. n)
      /\ OnStack(below, t) = SumFunctionOnSet(g, 1 .. (n - 1))
  BY <1>3, StackTyped
<1> HIDE DEF f, g, n
<1>7. SumFunctionOnSet(f, 1 .. n) = f[n] + SumFunctionOnSet(f, 1 .. (n - 1))
  <2>1. (1 .. n) \ {n} = 1 .. (n - 1)
    BY <1>3
  <2>2. SumFunctionOnSet(f, 1 .. n) = f[n] + SumFunctionOnSet(f, (1 .. n) \ {n})
    BY <1>1, <1>2, <1>3, SumRemove
  <2> QED
    BY <2>1, <2>2
<1>8. SumFunctionOnSet(f, 1 .. (n - 1)) = SumFunctionOnSet(g, 1 .. (n - 1))
  BY <1>1, <1>5, SumSame
<1> QED
  BY <1>4, <1>6, <1>7, <1>8 DEF n

(* The three changes to a stack: an item is put on it, or the last one is taken
   off, or changed. *)
LEMMA StackAppend ==
  ASSUME NEW items \in Seq(Item), NEW item \in Item, NEW t
  PROVE  OnStack(Append(items, item), t) = OnStack(items, t) + PartOf(item, t)
<1> DEFINE more == Append(items, item)
<1>1. more \in Seq(Item) /\ Len(more) = Len(items) + 1 /\ more[Len(more)] = item
  OBVIOUS
<1>2. \A i \in 1 .. Len(items) : more[i] = items[i]
  OBVIOUS
<1>3. PartOf(item, t) \in Int
  BY PartTyped
<1>4. OnStack(items, t) \in Int
  BY StackTyped
<1> HIDE DEF more
<1>5. OnStack(more, t) = PartOf(more[Len(more)], t) + OnStack(items, t)
  BY <1>1, <1>2, StackSplit
<1> QED
  BY <1>1, <1>3, <1>4, <1>5 DEF more

(* What is on top of a stack counts for its type, and so does what takes its place. *)
LEMMA StackTop ==
  ASSUME NEW items \in Seq(Item), items # << >>, NEW t
  PROVE  /\ Front(items) \in Seq(Item)
         /\ OnStack(items, t) = OnStack(Front(items), t) + PartOf(items[Len(items)], t)
         /\ \A item \in Item :
              /\ [items EXCEPT ![Len(items)] = item] \in Seq(Item)
              /\ OnStack([items EXCEPT ![Len(items)] = item], t)
                   = OnStack(Front(items), t) + PartOf(item, t)
<1> DEFINE n == Len(items)
           front == Front(items)
<1>1. n \in Nat /\ n > 0 /\ n \in 1 .. n
  OBVIOUS
<1>2. front \in Seq(Item) /\ Len(front) = n - 1 /\ \A i \in 1 .. (n - 1) : front[i] = items[i]
  <2>1. \A i \in 1 .. n - 1 : items[i] \in Item
    BY <1>1
  <2>2. Front(items) \in Seq(Item)
    BY <1>1, <2>1, SubSeqProperties DEF Front
  <2>3. Len(Front(items)) = n - 1
    <3>1. Len(Front(items)) = IF 1 <= n - 1 THEN (n - 1) - 1 + 1 ELSE 0
      BY <1>1, <2>1, SubSeqProperties DEF Front
    <3> DEFINE m == Len(Front(items))
    <3> HIDE DEF n, m
    <3>2. m = n - 1
      BY <1>1, <3>1 DEF m
    <3> QED
      BY <3>2 DEF m
  <2>4. ASSUME NEW i \in 1 .. (n - 1) PROVE Front(items)[i] = items[i]
    <3>1. i \in 1 .. (n - 1) - 1 + 1 /\ 1 + i - 1 = i
      BY <1>1
    <3>2. Front(items)[i] = items[1 + i - 1]
      BY <1>1, <2>1, <3>1, SubSeqProperties DEF Front
    <3> QED
      BY <3>1, <3>2
  <2> QED
    BY <2>2, <2>3, <2>4
<1> HIDE DEF front
<1>3. OnStack(front, t) \in Int
  BY <1>2, StackTyped
<1>4. items[n] \in Item /\ \A item \in Item : PartOf(item, t) \in Int
  BY <1>1, PartTyped
<1>5. OnStack(items, t) = PartOf(items[n], t) + OnStack(front, t)
  BY <1>1, <1>2, StackSplit
<1>6. ASSUME NEW item \in Item
      PROVE  /\ [items EXCEPT ![n] = item] \in Seq(Item)
             /\ OnStack([items EXCEPT ![n] = item], t) = OnStack(front, t) + PartOf(item, t)
  <2> DEFINE other == [items EXCEPT ![n] = item]
  <2>1. other \in Seq(Item)
    BY <1>1, ExceptSeq
  <2>2. Len(other) = n /\ other[n] = item /\ \A i \in 1 .. (n - 1) : other[i] = items[i]
    BY <1>1
  <2> HIDE DEF other, n
  <2>a. Len(other) = Len(front) + 1 /\ \A i \in 1 .. Len(front) : other[i] = front[i]
    BY <1>1, <1>2, <2>2
  <2>3. OnStack(other, t) = PartOf(item, t) + OnStack(front, t)
    BY <1>2, <2>1, <2>2, <2>a, StackSplit
  <2> QED
    BY <1>3, <1>4, <2>1, <2>3 DEF other
<1> QED
  BY <1>2, <1>3, <1>4, <1>5, <1>6 DEF front

(* One push adds no more than its count, to its type alone; what it has as the old
   stack lags behind. *)
LEMMA PushOneBounded ==
  ASSUME NEW s \in [old : Seq(Item), data : Seq(Item)], NEW t \in SettleType, NEW n \in Int,
         NEW b \in Due,
         \A x \in SettleType : OnStack(s.old, x) <= b[x] /\ OnStack(s.data, x) <= b[x]
  PROVE  LET r == PushOne(s, t, n)
             more == [b EXCEPT ![t] = b[t] + Positive(n)]
         IN /\ r \in [old : Seq(Item), data : Seq(Item)]
            /\ more \in Due
            /\ \A x \in SettleType : OnStack(r.old, x) <= more[x] /\ OnStack(r.data, x) <= more[x]
<1> DEFINE r == PushOne(s, t, n)
           more == [b EXCEPT ![t] = b[t] + Positive(n)]
           last == Len(s.data)
<1>1. r \in [old : Seq(Item), data : Seq(Item)]
  BY PushOneTyped
<1>2. \A x \in SettleType : b[x] \in Int /\ more[x] = IF x = t THEN b[t] + Positive(n) ELSE b[x]
  BY DEF Due
<1>3. Positive(n) \in Nat /\ (n > 0 => Positive(n) = n)
  BY DEF Positive
<1>4. more \in Due
  BY <1>2, <1>3 DEF Due
<1> HIDE DEF more
<1>5. \A x \in SettleType : OnStack(s.old, x) \in Int /\ OnStack(s.data, x) \in Int
  BY StackTyped
<1>6. CASE n <= 0
  <2>1. r = s
    BY <1>6 DEF PushOne
  <2> QED
    BY <1>1, <1>2, <1>3, <1>4, <1>5, <2>1 DEF more
<1>7. CASE n > 0 /\ last > 0 /\ s.data[last].type = t
  <2> DEFINE item == [type |-> t, count |-> s.data[last].count + n]
             d == [s.data EXCEPT ![last] = item]
  <2>1. s.data[last] \in Item /\ s.data # << >>
    BY <1>7
  <2>2. item \in Item
    BY <1>7, <2>1 DEF Item
  <2>3. r = [old |-> d, data |-> d]
    BY <1>7 DEF PushOne
  <2>4. ASSUME NEW x \in SettleType PROVE OnStack(d, x) <= more[x]
    <3>1. /\ Front(s.data) \in Seq(Item)
          /\ OnStack(s.data, x) = OnStack(Front(s.data), x) + PartOf(s.data[last], x)
          /\ OnStack(d, x) = OnStack(Front(s.data), x) + PartOf(item, x)
      BY <2>1, <2>2, StackTop
    <3>2. OnStack(Front(s.data), x) \in Int
      BY <3>1, StackTyped
    <3>3. /\ PartOf(s.data[last], x) = IF x = t THEN s.data[last].count ELSE 0
          /\ PartOf(item, x) = IF x = t THEN s.data[last].count + n ELSE 0
      BY <1>7 DEF PartOf
    <3>4. s.data[last].count \in Nat
      BY <2>1 DEF Item
    <3>5. OnStack(d, x) = OnStack(s.data, x) + (IF x = t THEN n ELSE 0)
      <4> HIDE DEF d, item
      <4> QED
        BY <3>1, <3>2, <3>3, <3>4
    <3> HIDE DEF d, item
    <3> QED
      BY <1>2, <1>3, <1>5, <1>7, <3>5
  <2> HIDE DEF d
  <2> QED
    BY <1>1, <1>4, <2>3, <2>4 DEF more
<1>8. CASE n > 0 /\ ~(last > 0 /\ s.data[last].type = t)
  <2> DEFINE item == [type |-> t, count |-> n]
             d == Append(s.old, item)
  <2>1. item \in Item
    BY <1>8 DEF Item
  <2>2. r = [old |-> s.old, data |-> d]
    BY <1>8 DEF PushOne
  <2>3. ASSUME NEW x \in SettleType PROVE OnStack(d, x) <= more[x] /\ OnStack(s.old, x) <= more[x]
    <3>1. OnStack(d, x) = OnStack(s.old, x) + PartOf(item, x)
      BY <2>1, StackAppend
    <3>2. PartOf(item, x) = IF x = t THEN n ELSE 0
      BY DEF PartOf
    <3> HIDE DEF d, item
    <3> QED
      BY <1>2, <1>3, <1>5, <1>8, <3>1, <3>2
  <2> HIDE DEF d
  <2> QED
    BY <1>1, <1>4, <2>2, <2>3 DEF more
<1> QED
  BY <1>6, <1>7, <1>8

(* What a payment leaves on the stack. *)
LEMMA PushBounded ==
  ASSUME NEW data \in Seq(Item), NEW due \in Due
  PROVE  \A x \in SettleType :
           OnStack(Push(data, due), x) <= OnStack(data, x) + Positive(due[x])
<1> DEFINE b0 == [x \in SettleType |-> OnStack(data, x)]
           s0 == [old |-> data, data |-> data]
           s1 == PushOne(s0, "reset", due["reset"])
           b1 == [b0 EXCEPT !["reset"] = b0["reset"] + Positive(due["reset"])]
           s2 == PushOne(s1, "rollover", due["rollover"])
           b2 == [b1 EXCEPT !["rollover"] = b1["rollover"] + Positive(due["rollover"])]
           s3 == PushOne(s2, "balance", due["balance"])
           b3 == [b2 EXCEPT !["balance"] = b2["balance"] + Positive(due["balance"])]
           Bounded(s, b) ==
             \A x \in SettleType : OnStack(s.old, x) <= b[x] /\ OnStack(s.data, x) <= b[x]
           Stacks == [old : Seq(Item), data : Seq(Item)]
<1>1. due["reset"] \in Int /\ due["rollover"] \in Int /\ due["balance"] \in Int
  BY DEF Due, SettleType
<1>2. s0 \in Stacks /\ b0 \in Due /\ Bounded(s0, b0)
  <2>1. \A x \in SettleType : OnStack(data, x) \in Int
    BY StackTyped
  <2>2. s0.old = data /\ s0.data = data /\ \A x \in SettleType : b0[x] = OnStack(data, x)
    OBVIOUS
  <2>3. s0 \in Stacks /\ b0 \in Due
    BY <2>1 DEF Due
  <2> HIDE DEF s0, b0
  <2> QED
    BY <2>1, <2>2, <2>3
<1> HIDE DEF s0, b0
<1>3. s1 \in Stacks /\ b1 \in Due /\ Bounded(s1, b1)
  BY <1>1, <1>2, PushOneBounded DEF SettleType
<1> HIDE DEF s1, b1
<1>4. s2 \in Stacks /\ b2 \in Due /\ Bounded(s2, b2)
  BY <1>1, <1>3, PushOneBounded DEF SettleType
<1> HIDE DEF s2, b2
<1>5. Bounded(s3, b3)
  BY <1>1, <1>4, PushOneBounded DEF SettleType
<1>6. Push(data, due) = s3.data
  BY DEF Push, s2, s1, s0
<1> HIDE DEF s3
<1>7. \A x \in SettleType : b3[x] = b0[x] + Positive(due[x])
  BY <1>2, <1>3, <1>4 DEF b2, b1, Due, SettleType
<1> QED
  BY <1>5, <1>6, <1>7 DEF b0

(* A payment charges what it pushes. *)
LEMMA PayKeyCovered ==
  ASSUME TypeOK, QuotasKept, \A k \in Key : InCredit(InitialQuota[k]), RefundsCovered, PayKey
  PROVE  RefundsCovered'
<1>1. PICK k \in Key, due \in Due : k = pass.key /\ due = pass.due
  BY Types DEF Pass
<1> DEFINE charge == ChargeOf(due)
<1>2. /\ charged' = [charged EXCEPT ![k] = Sum3(charged[k], charge)]
      /\ stack' = [stack EXCEPT ![k] = Push(stack[k], due)]
      /\ UNCHANGED <<refund, refunded>>
      /\ pass.at = "pay"
  BY <1>1 DEF PayKey
<1>3. charge \in Due
  BY ChargeCoversDue
<1>4. \A x \in SettleType : charge[x] = Positive(due[x]) /\ Positive(due[x]) \in Nat
  <2>1. due["reset"] >= 0 /\ due["rollover"] >= 0
    BY <1>1, <1>2 DEF QuotasKept, PayCovered
  <2>2. charge["reset"] = due["reset"] /\ charge["rollover"] = due["rollover"]
    BY <2>1, DueIsCharged
  <2>3. charge["balance"] = Positive(due["balance"])
    BY DEF ChargeOf, SettleType
  <2>4. due["reset"] \in Int /\ due["rollover"] \in Int /\ due["balance"] \in Int
    BY DEF Due, SettleType
  <2> QED
    BY <2>1, <2>2, <2>3, <2>4 DEF SettleType, Positive
<1> HIDE DEF charge
<1>5. /\ charged \in [Key -> Due] /\ refunded \in [Key -> [SettleType -> Nat]]
      /\ stack \in [Key -> Seq(Item)] /\ refund.data \in Seq(Item)
  BY Types DEF Refund
<1>6. ASSUME NEW j \in Key, NEW x \in SettleType
      PROVE  refunded'[j][x] + OnStack(Refundable(j)', x) <= charged'[j][x]
  <2>1. refunded[j][x] + OnStack(Refundable(j), x) <= charged[j][x]
    BY DEF RefundsCovered
  <2>2. Refundable(j) \in Seq(Item) /\ refunded[j][x] \in Int /\ charged[j][x] \in Int
    BY <1>5 DEF Refundable, Due
  <2>3. OnStack(Refundable(j), x) \in Int
    BY <2>2, StackTyped
  <2>4. CASE j # k
    <3>1. Refundable(j)' = Refundable(j) /\ charged'[j] = charged[j]
      BY <1>2, <1>5, <2>4 DEF Refundable
    <3> QED
      BY <1>2, <2>1, <3>1
  <2>5. CASE j = k
    <3>1. charged'[k][x] = charged[k][x] + charge[x]
      BY <1>2, <1>5 DEF Sum3
    <3>2. CASE refund.at = "pop" /\ refund.key = k
      <4>1. Refundable(j)' = Refundable(j)
        BY <1>2, <2>5, <3>2 DEF Refundable
      <4> QED
        BY <1>2, <1>4, <2>1, <2>2, <2>3, <2>5, <3>1, <4>1
    <3>3. CASE ~(refund.at = "pop" /\ refund.key = k)
      <4>1. Refundable(k)' = Push(stack[k], due) /\ Refundable(k) = stack[k]
        BY <1>2, <1>5, <3>3 DEF Refundable
      <4>2. /\ Push(stack[k], due) \in Seq(Item)
            /\ OnStack(Push(stack[k], due), x) <= OnStack(stack[k], x) + Positive(due[x])
        BY <1>5, PushTyped, PushBounded
      <4>3. OnStack(Push(stack[k], due), x) \in Int
        BY <4>2, StackTyped
      <4> QED
        BY <1>2, <1>4, <2>1, <2>2, <2>3, <2>5, <3>1, <4>1, <4>2, <4>3
    <3> QED
      BY <3>2, <3>3
  <2> QED
    BY <2>4, <2>5
<1> QED
  BY <1>6 DEF RefundsCovered

(* The data that a refund has left when it has paid an item back. *)
RestOf ==
  IF MatchCount = Top.count THEN Front(refund.data)
  ELSE [refund.data EXCEPT ![Len(refund.data)] =
          [type |-> Top.type, count |-> Top.count - MatchCount]]

(* It is less by what was paid back. *)
LEMMA RestSmaller ==
  ASSUME TypeOK, Popping, NEW x \in SettleType
  PROVE  /\ RestOf \in Seq(Item)
         /\ OnStack(RestOf, x) = OnStack(refund.data, x) - Returned[x]
<1>1. refund.data \in Seq(Item) /\ refund.data # << >>
  BY Types DEF Refund, Popping
<1>2. Top \in Item /\ MatchCount \in Nat /\ MatchCount <= Top.count /\ Top.count \in Nat
  BY TopTyped DEF Item
<1> DEFINE front == Front(refund.data)
           less == [type |-> Top.type, count |-> Top.count - MatchCount]
           other == [refund.data EXCEPT ![Len(refund.data)] = less]
<1>3. less \in Item
  BY <1>2 DEF Item
<1>4. /\ front \in Seq(Item)
      /\ OnStack(refund.data, x) = OnStack(front, x) + PartOf(Top, x)
      /\ other \in Seq(Item)
      /\ OnStack(other, x) = OnStack(front, x) + PartOf(less, x)
  BY <1>1, <1>3, StackTop DEF Top
<1>5. OnStack(front, x) \in Int
  BY <1>4, StackTyped
<1>6. /\ PartOf(Top, x) = IF x = Top.type THEN Top.count ELSE 0
      /\ PartOf(less, x) = IF x = Top.type THEN Top.count - MatchCount ELSE 0
      /\ Returned[x] = IF x = Top.type THEN MatchCount ELSE 0
  BY DEF PartOf, Returned
<1>7. RestOf = IF MatchCount = Top.count THEN front ELSE other
  BY DEF RestOf
<1> HIDE DEF front, other, less
<1> QED
  BY <1>2, <1>4, <1>5, <1>6, <1>7

(* An item that is paid back moves from the stack to the refunds. *)
LEMMA RefundItemCovered ==
  ASSUME TypeOK, RefundsCovered, RefundItem
  PROVE  RefundsCovered'
<1>1. /\ Popping /\ NoteRefunded
      /\ refund' = [refund EXCEPT !.left = refund.left - MatchCount, !.data = RestOf]
      /\ UNCHANGED <<stack, charged>>
  BY DEF RefundItem, RestOf, Front
<1>2. /\ charged \in [Key -> Due] /\ refunded \in [Key -> [SettleType -> Nat]]
      /\ stack \in [Key -> Seq(Item)] /\ refund \in Refund
  BY Types
<1>3. refund'.at = "pop" /\ refund'.key = refund.key /\ refund'.data = RestOf
      /\ refund.at = "pop"
  BY <1>1, <1>2 DEF Refund, Popping
<1>4. PICK w \in Key : w = refund.key
  BY <1>2 DEF Refund
<1>5. refunded' = [refunded EXCEPT ![w] = Sum3(refunded[w], Returned)]
  BY <1>1, <1>4 DEF NoteRefunded
<1>6. ASSUME NEW j \in Key, NEW x \in SettleType
      PROVE  refunded'[j][x] + OnStack(Refundable(j)', x) <= charged'[j][x]
  <2>1. refunded[j][x] + OnStack(Refundable(j), x) <= charged[j][x]
    BY DEF RefundsCovered
  <2>2. CASE j # w
    <3>1. Refundable(j)' = Refundable(j) /\ refunded'[j] = refunded[j]
      BY <1>1, <1>2, <1>3, <1>4, <1>5, <2>2 DEF Refundable
    <3> QED
      BY <1>1, <2>1, <3>1
  <2>3. CASE j = w
    <3>1. Refundable(j)' = RestOf /\ Refundable(j) = refund.data
      BY <1>3, <1>4, <2>3 DEF Refundable
    <3>2. refunded'[j][x] = refunded[j][x] + Returned[x]
      BY <1>2, <1>5, <2>3 DEF Sum3
    <3>3. OnStack(RestOf, x) = OnStack(refund.data, x) - Returned[x]
      BY <1>1, RestSmaller
    <3>4. OnStack(refund.data, x) \in Int
      BY <1>2, StackTyped DEF Refund
    <3>5. Returned[x] \in Nat /\ refunded[j][x] \in Nat /\ charged[j][x] \in Int
      BY <1>1, <1>2, ReturnedTyped DEF Due
    <3> QED
      BY <1>1, <2>1, <3>1, <3>2, <3>3, <3>4, <3>5
  <2> QED
    BY <2>2, <2>3
<1> QED
  BY <1>6 DEF RefundsCovered

(* The refund that is broken off. *)
BrokenOff == refund.at = "pop" /\ (RefundFails \/ Crash)

(* A step that charges and refunds nothing. *)
LEMMA CoveredFrame ==
  ASSUME RefundsCovered, UNCHANGED <<refunded, charged>>,
         \A k \in Key : Refundable(k)' = Refundable(k)
  PROVE  RefundsCovered'
BY DEF RefundsCovered

(* Every other step keeps the refunds covered. *)
LEMMA NextCovered ==
  ASSUME TypeOK, QuotasKept, \A k \in Key : InCredit(InitialQuota[k]), RefundsCovered,
         [Next]_vars, ~BrokenOff
  PROVE  RefundsCovered'
<1>1. CASE UNCHANGED <<stack, refund, refunded, charged>>
  BY <1>1, CoveredFrame DEF Refundable
<1>2. CASE SettleStep
  <2>1. CASE PayKey
    BY <2>1, PayKeyCovered
  <2>2. CASE ~PayKey
    BY <1>1, <1>2, <2>2 DEF SettleStep, BeginPass, PickKey, DecrCount, EndPass, store, history
  <2> QED
    BY <2>1, <2>2
<1>3. CASE RefundStep
  <2>1. CASE RefundSave
    <3>1. UNCHANGED <<refunded, charged>> /\ refund'.at = "idle" /\ refund.at = "pop"
          /\ stack' = [stack EXCEPT ![refund.key] = refund.data]
      BY <2>1 DEF RefundSave, history, NoRefund
    <3>2. stack \in [Key -> Seq(Item)]
      BY Types
    <3>3. \A k \in Key : Refundable(k)' = Refundable(k)
      BY <3>1, <3>2 DEF Refundable
    <3> QED
      BY <3>1, <3>3, CoveredFrame
  <2> QED
    BY <1>3, <2>1, RefundItemCovered DEF RefundStep
<1>4. CASE \E k \in Key : \E n \in RefundCounts : RefundBegin(k, n)
  <2>1. PICK k \in Key, n \in RefundCounts : RefundBegin(k, n)
    BY <1>4
  <2>2. /\ UNCHANGED <<refunded, charged, stack>>
        /\ refund.at = "idle" /\ refund' = [at |-> "pop", key |-> k, left |-> n, data |-> stack[k]]
    BY <2>1 DEF RefundBegin, store, history
  <2>3. \A j \in Key : Refundable(j)' = Refundable(j)
    BY <2>2 DEF Refundable
  <2> QED
    BY <2>2, <2>3, CoveredFrame
<1>5. CASE Others /\ ~(\E k \in Key : \E n \in RefundCounts : RefundBegin(k, n))
  BY <1>1, <1>5 DEF Others, ApiCall, DepositRollover, MoveBalance, ResetQuotaByPlan,
     ResetQuotaOnPlanUpdated, ResetFind, ResetSave, store, history
<1>6. CASE Faults
  <2>1. CASE Crash
    <3>1. /\ UNCHANGED <<refunded, charged, stack>>
          /\ refund.at # "pop" /\ refund'.at # "pop"
      BY <2>1 DEF BrokenOff, Crash, store, history, NoRefund
    <3>2. \A j \in Key : Refundable(j)' = Refundable(j)
      BY <3>1 DEF Refundable
    <3> QED
      BY <3>1, <3>2, CoveredFrame
  <2>2. ~RefundFails
    BY DEF BrokenOff, RefundFails
  <2> QED
    BY <1>1, <1>6, <2>1, <2>2 DEF Faults, SkipKey, PayFails, DecrFails, DecrRepeated, store, history
<1>7. CASE UNCHANGED vars
  BY <1>1, <1>7 DEF vars, store, history
<1> QED
  BY <1>2, <1>3, <1>4, <1>5, <1>6, <1>7 DEF Next, Rest

(* Nothing is on the stacks at first. *)
LEMMA InitCovered ==
  ASSUME Init PROVE RefundsCovered
<1> SUFFICES ASSUME NEW k \in Key, NEW t \in SettleType
             PROVE  refunded[k][t] + OnStack(Refundable(k), t) <= charged[k][t]
  BY DEF RefundsCovered
<1>1. Refundable(k) = << >>
  BY DEF Init, Refundable, NoRefund
<1>2. OnStack(<< >>, t) = 0
  <2>1. << >> \in Seq(Item) /\ 1 .. Len(<< >>) = {}
    OBVIOUS
  <2> QED
    BY <2>1, StackTyped, SumEmpty
<1>3. refunded[k][t] = 0 /\ charged[k][t] = 0
  BY DEF Init, Nothing
<1> QED
  BY <1>1, <1>2, <1>3

(* What was refunded and what can be refunded never exceeds what was charged, for each
   key and kind, through any crash or failure that does not break off a refund, if
   quotas begin in credit and no plan resets them. *)
THEOREM RefundsStayCovered ==
  ASSUME PlanQuotas = {}, \A k \in Key : InCredit(InitialQuota[k])
  PROVE  Spec /\ [][~BrokenOff]_vars => []RefundsCovered
<1>1. TypeOK /\ FundsInv /\ RefundsCovered /\ [Next]_vars /\ [~BrokenOff]_vars => RefundsCovered'
  <2>1. ASSUME UNCHANGED vars, RefundsCovered PROVE RefundsCovered'
    BY <2>1, CoveredFrame DEF vars, store, history, Refundable
  <2> QED
    BY <2>1, NextCovered DEF FundsInv
<1>2. TypeOK /\ FundsInv /\ [Next]_vars => FundsInv'
  BY NextSmall, NextTodoCounted, NextFunds, NextQuotas DEF FundsInv
<1> QED
  BY InitFunds, InitCovered, <1>1, <1>2, SettleTypeCorrect, PTL DEF Spec
-----------------------------------------------------------------------------
(***************************************************************************)
(* The loop over redis and MySQL is a meter, as long as every DECRBY that  *)
(* follows a charge is applied once: nobody else lowers a counter, so that *)
(* a pass never charges more calls than there still are.                   *)
(***************************************************************************)
SeenCounted == \A k \in pass.todo : pass.seen[k] <= count[k]
DueCounted ==
  pass.at \in {"pay", "decr"} =>
    /\ pass.key \notin pass.todo
    /\ TotalOf(pass.due) > 0 /\ TotalOf(pass.due) <= count[pass.key]
    /\ pass.at = "pay" => \A t \in SettleType : pass.due[t] >= 0
CountersKept == SeenCounted /\ DueCounted

(* The DECRBY that does not take off what was charged. *)
DecrLost == pass.at = "decr" /\ (DecrFails \/ DecrRepeated \/ Crash)

(* No more is due than was seen. *)
LEMMA DueBounded ==
  ASSUME NEW k \in Key, NEW n \in Int, n > 0, NEW q \in Quota, InCredit(q), NEW a \in Nat
  PROVE  LET due == DueOf(k, n, q, a) IN
         /\ due \in Due /\ TotalOf(due) <= n /\ \A t \in SettleType : due[t] >= 0
         /\ ~(InQuota(due) = 0 /\ due["balance"] = 0) => TotalOf(due) > 0
<1> DEFINE due == DueOf(k, n, q, a)
           inQuota == Lesser(n, q.reset + q.rollover)
<1>1. due \in Due
  BY DueTyped
<1>2. /\ due["reset"] = Lesser(inQuota, q.reset)
      /\ due["rollover"] = inQuota - Lesser(inQuota, q.reset)
  BY DEF DueOf, SettleType
<1>3. due["balance"] <= n - inQuota
  <2>1. PICK p \in Nat : p = Price[k]
    BY SettleAssumption
  <2>2. due["balance"] = IF p > 0 THEN Lesser(n - inQuota, TruncDiv(a, p)) ELSE n - inQuota
    BY <2>1 DEF DueOf, SettleType
  <2>3. inQuota \in Int
    BY DEF Lesser, Quota
  <2>4. p > 0 => TruncDiv(a, p) \in Int
    BY <2>1 DEF TruncDiv
  <2> HIDE DEF inQuota, due
  <2> QED
    BY <2>1, <2>2, <2>3, <2>4 DEF Lesser
<1>4. due["balance"] \in Nat
  BY DueAffordable
<1>5. 0 <= due["reset"] /\ 0 <= due["rollover"]
  BY DueWithin
<1> HIDE DEF due
<1>6. due["reset"] \in Int /\ due["rollover"] \in Int
  BY <1>1 DEF Due, SettleType
<1>7. q.reset \in Int /\ q.rollover \in Int
  BY DEF Quota
<1>8. InQuota(due) = inQuota
  <2>1. inQuota \in Int
    BY <1>7 DEF Lesser
  <2>2. Lesser(inQuota, q.reset) \in Int
    BY <1>7, <2>1 DEF Lesser
  <2> HIDE DEF inQuota
  <2> QED
    BY <1>2, <2>1, <2>2 DEF InQuota
<1>9. InQuota(due) = due["reset"] + due["rollover"] /\ TotalOf(due) = InQuota(due) + due["balance"]
  BY DEF InQuota, TotalOf
<1>10. TotalOf(due) <= n /\ (~(InQuota(due) = 0 /\ due["balance"] = 0) => TotalOf(due) > 0)
  <2> HIDE DEF inQuota
  <2> QED
    BY <1>3, <1>4, <1>5, <1>6, <1>8, <1>9
<1>11. \A t \in SettleType : due[t] >= 0
  BY <1>4, <1>5, <1>6 DEF SettleType
<1> QED
  BY <1>1, <1>10, <1>11 DEF due

(* The counters do not get in the way of a pass that is not at a DECRBY. *)
LEMMA CountersFrame ==
  ASSUME TypeOK, CountersKept, \A k \in Key : count'[k] \in Int /\ count[k] <= count'[k],
         \/ pass' = pass
         \/ /\ pass'.at \notin {"pay", "decr"}
            /\ \A k \in pass'.todo :
                 \/ k \in pass.todo /\ pass'.seen[k] = pass.seen[k]
                 \/ k \in Key /\ pass'.seen[k] = count[k]
  PROVE  CountersKept'
<1>1. pass.todo \subseteq Key /\ pass.key \in Key /\ TotalOf(pass.due) \in Int
  BY Types, ChargeCoversDue DEF Pass
<1>2. \A k \in Key : count[k] \in Int /\ pass.seen[k] \in Int
  BY Types DEF Pass
<1>3. SeenCounted'
  BY <1>1, <1>2 DEF CountersKept, SeenCounted
<1>4. DueCounted'
  BY <1>1, <1>2 DEF CountersKept, DueCounted
<1> QED
  BY <1>3, <1>4 DEF CountersKept

(* No more is due for a key than its counter has. *)
LEMMA PickKeyCounters ==
  ASSUME TypeOK, LeftoversSmall, TodoCounted, FundsKept, QuotasKept, CountersKept,
         \A u \in User : Funded(u), \A k \in Key : InCredit(InitialQuota[k]),
         NEW k \in Key, PickKey(k)
  PROVE  CountersKept'
<1>1. PICK rows \in Pass : rows = Loaded(k[1])
  BY LoadedTyped DEF Key
<1> DEFINE due == DueOf(k, pass.seen[k], rows.quota[k], rows.balance[k[1]] + Arrears[k[1]])
<1>2. /\ k[1] \in User /\ k \in pass.todo
      /\ pass'.key = k /\ pass'.due = due
      /\ pass'.at = IF InQuota(due) = 0 /\ due["balance"] = 0 THEN "next" ELSE "pay"
      /\ pass'.todo = pass.todo \ {k} /\ pass'.seen = pass.seen
      /\ pass'.loaded = pass.loaded \cup {k[1]}
      /\ pass'.balance = rows.balance /\ pass'.quota = rows.quota
  BY <1>1, PickKeyFields
<1>3. count' = count
  BY DEF PickKey
<1>4. InCredit(rows.quota[k]) /\ rows.balance[k[1]] + Arrears[k[1]] >= 0
  <2>1. UserFunded(k[1])' /\ KeyCovered(k)'
    BY <1>2, PickKeyFunds, PickKeyQuotas DEF FundsKept, QuotasKept
  <2> QED
    BY <1>2, <2>1 DEF UserFunded, KeyCovered, Funded, InCredit
<1>5. /\ rows.quota[k] \in Quota /\ rows.balance[k[1]] + Arrears[k[1]] \in Nat
      /\ pass.seen[k] \in Int /\ pass.seen[k] > 0 /\ pass.seen[k] <= count[k]
      /\ count[k] \in Int
  <2>1. rows.quota[k] \in Quota /\ rows.balance[k[1]] \in Int /\ Arrears[k[1]] \in Int
    BY <1>1, <1>2, SettleAssumption DEF Pass
  <2>2. pass.seen[k] \in Int /\ count[k] \in Int
    BY Types DEF Pass
  <2>3. pass.seen[k] > 0 /\ pass.seen[k] <= count[k]
    BY <1>2 DEF TodoCounted, CountersKept, SeenCounted
  <2> QED
    BY <1>4, <2>1, <2>2, <2>3
<1>6. /\ due \in Due /\ TotalOf(due) <= pass.seen[k] /\ \A t \in SettleType : due[t] >= 0
      /\ ~(InQuota(due) = 0 /\ due["balance"] = 0) => TotalOf(due) > 0
  BY <1>4, <1>5, DueBounded
<1> HIDE DEF due
<1>7. TotalOf(due) \in Int
  BY <1>6, ChargeCoversDue
<1> QED
  BY <1>2, <1>3, <1>5, <1>6, <1>7 DEF CountersKept, SeenCounted, DueCounted

(* Paying and then taking off the counter. *)
LEMMA PayKeyCounters ==
  ASSUME TypeOK, CountersKept, PayKey
  PROVE  CountersKept'
<1>1. PICK k \in Key, due \in Due : k = pass.key /\ due = pass.due
  BY Types DEF Pass
<1>2. pass.at = "pay" /\ pass' = Remember(k, due) /\ count' = count
  BY <1>1 DEF PayKey
<1>3. /\ pass'.at = "decr" /\ pass'.key = pass.key /\ pass'.due = pass.due
      /\ pass'.todo = pass.todo /\ pass'.seen = pass.seen
  BY <1>2, RememberFields
<1> QED
  BY <1>2, <1>3 DEF CountersKept, SeenCounted, DueCounted

(* The DECRBY of one key leaves the counters of those still to do. *)
LEMMA DecrCountCounters ==
  ASSUME TypeOK, CountersKept, DecrCount
  PROVE  CountersKept'
<1>1. PICK k \in Key, n \in Int : k = pass.key /\ n = TotalOf(pass.due)
  BY Types, ChargeCoversDue DEF Pass
<1>2. /\ pass.at = "decr" /\ pass' = [pass EXCEPT !.at = "next"]
      /\ count' = [count EXCEPT ![k] = count[k] - n]
  BY <1>1 DEF DecrCount
<1>3. pass'.at = "next" /\ pass'.todo = pass.todo /\ pass'.seen = pass.seen
  BY <1>2, Types DEF Pass
<1>4. k \notin pass.todo /\ pass.todo \subseteq Key
  BY <1>1, <1>2, Types DEF CountersKept, DueCounted, Pass
<1>5. \A j \in pass.todo : count'[j] = count[j]
  BY <1>2, <1>4, Types
<1> QED
  BY <1>3, <1>5 DEF CountersKept, SeenCounted, DueCounted

(* Every step keeps the counters ahead of the pass. *)
LEMMA NextCounters ==
  ASSUME TypeOK, LeftoversSmall, TodoCounted, FundsKept, QuotasKept, CountersKept,
         \A u \in User : Funded(u), \A k \in Key : InCredit(InitialQuota[k]),
         [Next]_vars, ~DecrLost
  PROVE  CountersKept'
<1>1. ASSUME count' = count,
             \/ pass' = pass
             \/ /\ pass'.at \notin {"pay", "decr"}
                /\ \A k \in pass'.todo :
                     \/ k \in pass.todo /\ pass'.seen[k] = pass.seen[k]
                     \/ k \in Key /\ pass'.seen[k] = count[k]
      PROVE  CountersKept'
  <2>1. \A k \in Key : count'[k] \in Int /\ count[k] <= count'[k]
    BY <1>1, Types
  <2> QED
    BY <1>1, <2>1, CountersFrame
<1>2. pass \in Pass
  BY Types
<1>3. CASE SettleStep
  <2>1. CASE BeginPass
    <3>1. pass'.at = "next" /\ pass'.seen = count /\ pass'.todo = UserCounts /\ count' = count
      BY <2>1 DEF BeginPass, NoPass
    <3> QED
      BY <1>1, <3>1 DEF UserCounts
  <2>2. CASE EndPass
    <3>1. pass'.at = "idle" /\ pass'.todo = {} /\ count' = count
      BY <2>2 DEF EndPass, NoPass
    <3> QED
      BY <1>1, <3>1
  <2> QED
    BY <1>3, <2>1, <2>2, PickKeyCounters, PayKeyCounters, DecrCountCounters DEF SettleStep
<1>4. CASE \E k \in Key : \E n \in CallSizes : ApiCall(k, n)
  <2>1. PICK k \in Key, n \in CallSizes : ApiCall(k, n)
    BY <1>4
  <2>2. n \in Nat
    BY SettleAssumption
  <2>3. pass' = pass /\ \A j \in Key : count'[j] = IF j = k THEN count[k] + n ELSE count[j]
    BY <2>1, Types DEF ApiCall
  <2>a. \A j \in Key : count[j] \in Int
    BY Types
  <2>4. \A j \in Key : count'[j] \in Int /\ count[j] <= count'[j]
    BY <2>2, <2>3, <2>a
  <2> QED
    BY <2>3, <2>4, CountersFrame
<1>5. CASE RefundStep \/ (Others /\ ~(\E k \in Key : \E n \in CallSizes : ApiCall(k, n)))
  <2>1. count' = count /\ pass' = pass
    BY <1>5 DEF RefundStep, RefundItem, RefundSave, Others, DepositRollover, MoveBalance,
       RefundBegin, ResetQuotaByPlan, ResetQuotaOnPlanUpdated, ResetFind, ResetSave
  <2> QED
    BY <1>1, <2>1
<1>6. CASE Faults
  <2>1. CASE \E k \in Key : SkipKey(k)
    <3>1. PICK k \in Key : SkipKey(k)
      BY <2>1
    <3>2. PICK rows \in {pass, Loaded(k[1])} : pass' = [rows EXCEPT !.todo = rows.todo \ {k}]
      BY <3>1 DEF SkipKey
    <3>3. /\ rows \in Pass /\ rows.at = pass.at /\ rows.todo = pass.todo
          /\ rows.seen = pass.seen
      BY <1>2, LoadedFields DEF Key
    <3>4. pass'.at = "next" /\ pass'.todo \subseteq pass.todo /\ pass'.seen = pass.seen
          /\ count' = count
      BY <3>1, <3>2, <3>3 DEF SkipKey, Pass
    <3> QED
      BY <1>1, <3>4
  <2>2. CASE PayFails
    <3>1. pass'.at = "next" /\ pass'.todo = pass.todo /\ pass'.seen = pass.seen
          /\ count' = count
      BY <1>2, <2>2 DEF PayFails, Pass
    <3> QED
      BY <1>1, <3>1
  <2>3. CASE RefundFails
    BY <1>1, <2>3 DEF RefundFails
  <2>4. CASE Crash
    <3>1. pass'.at = "idle" /\ pass'.todo = {} /\ count' = count
      BY <2>4 DEF Crash, NoPass
    <3> QED
      BY <1>1, <3>1
  <2>5. ~DecrFails /\ ~DecrRepeated
    BY DEF DecrLost, DecrFails, DecrRepeated
  <2> QED
    BY <1>6, <2>1, <2>2, <2>3, <2>4, <2>5 DEF Faults
<1>7. CASE UNCHANGED vars
  BY <1>1, <1>7 DEF vars
<1> QED
  BY <1>3, <1>4, <1>5, <1>6, <1>7 DEF Next, Rest

OwedOf == [k \in Key |-> count[k] - InFlight(k)]
PaidOf == [k \in Key |-> TotalOf(charged[k])]

(* A call that is counted is owed. *)
LEMMA ApiCallUses ==
  ASSUME TypeOK, NEW k \in Key, NEW n \in CallSizes, ApiCall(k, n)
  PROVE  Meter!Use(k, n)
<1>1. n \in Nat /\ UNCHANGED <<pass, charged>>
  BY SettleAssumption DEF ApiCall
<1>2. \A j \in Key : count'[j] = IF j = k THEN count[k] + n ELSE count[j]
  BY Types DEF ApiCall
<1>3. \A j \in Key : InFlight(j)' = InFlight(j) /\ InFlight(j) \in Int /\ count[j] \in Int
  BY <1>1, Types, ChargeCoversDue DEF InFlight, Pass
<1>4. \A j \in Key : OwedOf'[j] = IF j = k THEN OwedOf[k] + n ELSE OwedOf[j]
  <2>1. \A j \in Key : OwedOf'[j] = count'[j] - InFlight(j)' /\ OwedOf[j] = count[j] - InFlight(j)
    BY DEF OwedOf
  <2> QED
    BY <1>1, <1>2, <1>3, <2>1
<1>5. OwedOf' = [OwedOf EXCEPT ![k] = OwedOf[k] + n]
  BY <1>4 DEF OwedOf
<1>6. PaidOf' = PaidOf
  BY <1>1 DEF PaidOf
<1> QED
  BY <1>5, <1>6 DEF Meter!Use, OwedOf, PaidOf

(* A payment charges calls that are owed. *)
LEMMA PayKeyCharges ==
  ASSUME TypeOK, CountersKept, PayKey
  PROVE  \E k \in Key : \E n \in 1 .. OwedOf[k] : Meter!Charge(k, n)
<1>1. PICK k \in Key, due \in Due : k = pass.key /\ due = pass.due
  BY Types DEF Pass
<1>2. PICK n \in Int : n = TotalOf(due)
  BY ChargeCoversDue
<1>3. /\ pass.at = "pay" /\ pass' = Remember(k, due) /\ count' = count
      /\ charged' = [charged EXCEPT ![k] = Sum3(charged[k], ChargeOf(due))]
  BY <1>1 DEF PayKey
<1>4. pass'.at = "decr" /\ pass'.key = k /\ pass'.due = due
  BY <1>1, <1>3, RememberFields
<1>5. n > 0 /\ n <= count[k] /\ \A t \in SettleType : due[t] >= 0
  BY <1>1, <1>2, <1>3 DEF CountersKept, DueCounted
<1>6. /\ \A j \in Key : InFlight(j) = 0 /\ InFlight(j)' = IF j = k THEN n ELSE 0
  BY <1>1, <1>2, <1>3, <1>4 DEF InFlight
<1>7. \A j \in Key : count[j] \in Int
  BY Types
<1>8. OwedOf' = [OwedOf EXCEPT ![k] = OwedOf[k] - n] /\ OwedOf[k] = count[k]
  <2>1. \A j \in Key : OwedOf'[j] = count[j] - InFlight(j)' /\ OwedOf[j] = count[j] - InFlight(j)
    BY <1>3 DEF OwedOf
  <2>2. \A j \in Key : OwedOf'[j] = IF j = k THEN OwedOf[k] - n ELSE OwedOf[j]
    BY <1>6, <1>7, <2>1
  <2>3. OwedOf[k] = count[k]
    BY <1>6, <1>7, <2>1
  <2>4. OwedOf' = [OwedOf EXCEPT ![k] = OwedOf[k] - n]
    BY <2>2 DEF OwedOf
  <2> QED
    BY <2>3, <2>4
<1>9. TotalOf(ChargeOf(due)) = n
  <2>1. /\ due["reset"] \in Int /\ due["rollover"] \in Int /\ due["balance"] \in Int
        /\ due["reset"] >= 0 /\ due["rollover"] >= 0 /\ due["balance"] >= 0
    BY <1>5 DEF Due, SettleType
  <2>2. ChargeOf(due)["reset"] = due["reset"] /\ ChargeOf(due)["rollover"] = due["rollover"]
    BY <2>1, DueIsCharged
  <2>3. ChargeOf(due)["balance"] = due["balance"]
    BY <2>1 DEF ChargeOf, SettleType, Positive
  <2> QED
    BY <1>2, <2>2, <2>3 DEF TotalOf, InQuota
<1>10. \A j \in Key :
         TotalOf(charged'[j]) = IF j = k THEN TotalOf(charged[k]) + n ELSE TotalOf(charged[j])
  <2>1. charged \in [Key -> Due] /\ ChargeOf(due) \in Due
    BY Types, ChargeCoversDue
  <2>2. TotalOf(Sum3(charged[k], ChargeOf(due))) = TotalOf(charged[k]) + n
    BY <1>9, <2>1, SumTyped
  <2> QED
    BY <1>3, <2>1, <2>2
<1>11. PaidOf' = [PaidOf EXCEPT ![k] = PaidOf[k] + n]
  BY <1>10 DEF PaidOf
<1>12. n \in 1 .. OwedOf[k]
  BY <1>5, <1>7, <1>8
<1>13. Meter!Charge(k, n)
  BY <1>8, <1>11 DEF Meter!Charge, OwedOf, PaidOf
<1> QED
  BY <1>12, <1>13

(* The DECRBY moves the charge from the pass to the counter. *)
LEMMA DecrCountStutters ==
  ASSUME TypeOK, DecrCount
  PROVE  UNCHANGED <<OwedOf, PaidOf>>
<1>1. PICK k \in Key, n \in Int : k = pass.key /\ n = TotalOf(pass.due)
  BY Types, ChargeCoversDue DEF Pass
<1>2. /\ pass.at = "decr" /\ pass' = [pass EXCEPT !.at = "next"]
      /\ count' = [count EXCEPT ![k] = count[k] - n] /\ charged' = charged
  BY <1>1 DEF DecrCount, history
<1>3. pass'.at = "next"
  BY <1>2, Types DEF Pass
<1>4. \A j \in Key : InFlight(j)' = 0 /\ InFlight(j) = IF j = k THEN n ELSE 0
  BY <1>1, <1>2, <1>3 DEF InFlight
<1>5. \A j \in Key : count[j] \in Int /\ count'[j] = IF j = k THEN count[k] - n ELSE count[j]
  BY <1>2, Types
<1>6. \A j \in Key : count'[j] - InFlight(j)' = count[j] - InFlight(j)
  BY <1>4, <1>5
<1> QED
  BY <1>2, <1>6 DEF OwedOf, PaidOf

(* A step that neither counts nor charges, and is not about a DECRBY. *)
LEMMA StutterFrame ==
  ASSUME UNCHANGED <<count, charged>>,
         pass' = pass \/ (pass.at # "decr" /\ pass'.at # "decr")
  PROVE  UNCHANGED <<OwedOf, PaidOf>>
<1>1. \A j \in Key : InFlight(j)' = InFlight(j)
  BY DEF InFlight
<1> QED
  BY <1>1 DEF OwedOf, PaidOf

(* Every step is one of the meter's, or none. *)
LEMMA StepMeters ==
  ASSUME TypeOK, CountersKept, [Next]_vars, ~DecrLost
  PROVE  [Meter!MeterNext]_<<OwedOf, PaidOf>>
<1>1. pass \in Pass
  BY Types
<1>2. CASE SettleStep
  <2>1. CASE BeginPass
    <3>1. UNCHANGED <<count, charged>> /\ pass.at = "idle" /\ pass'.at = "next"
      BY <2>1 DEF BeginPass, NoPass, history
    <3> QED
      BY <3>1, StutterFrame
  <2>2. CASE EndPass
    <3>1. UNCHANGED <<count, charged>> /\ pass.at = "next" /\ pass'.at = "idle"
      BY <2>2 DEF EndPass, NoPass, history
    <3> QED
      BY <3>1, StutterFrame
  <2>3. CASE \E k \in Key : PickKey(k)
    <3>1. PICK k \in Key : PickKey(k)
      BY <2>3
    <3>2. UNCHANGED <<count, charged>> /\ pass.at = "next"
      BY <3>1 DEF PickKey, history
    <3>3. pass'.at \in {"next", "pay"}
      BY <3>1, PickKeyFields
    <3> QED
      BY <3>2, <3>3, StutterFrame
  <2>4. CASE PayKey
    BY <2>4, PayKeyCharges DEF Meter!MeterNext, OwedOf
  <2> QED
    BY <1>2, <2>1, <2>2, <2>3, <2>4, DecrCountStutters DEF SettleStep
<1>3. CASE \E k \in Key : \E n \in CallSizes : ApiCall(k, n)
  BY <1>3, ApiCallUses DEF Meter!MeterNext
<1>4. CASE RefundStep \/ (Others /\ ~(\E k \in Key : \E n \in CallSizes : ApiCall(k, n)))
  <2>1. UNCHANGED <<count, charged, pass>>
    BY <1>4 DEF RefundStep, RefundItem, RefundSave, Others, DepositRollover, MoveBalance,
       RefundBegin, ResetQuotaByPlan, ResetQuotaOnPlanUpdated, ResetFind, ResetSave, history
  <2> QED
    BY <2>1, StutterFrame
<1>5. CASE Faults
  <2>1. CASE QuietPass /\ (Crash \/ PayFails \/ \E k \in Key : SkipKey(k))
    <3>1. pass.at # "decr" /\ UNCHANGED <<count, charged>>
      BY <2>1 DEF DecrLost, Crash, PayFails, SkipKey, history
    <3>2. pass'.at # "decr"
      BY <2>1 DEF QuietPass
    <3> QED
      BY <3>1, <3>2, StutterFrame
  <2>2. CASE RefundFails
    BY <2>2, StutterFrame DEF RefundFails
  <2>3. ~DecrFails /\ ~DecrRepeated
    BY DEF DecrLost, DecrFails, DecrRepeated
  <2> QED
    BY <1>5, <2>1, <2>2, <2>3, StepsQuiet DEF Faults
<1>6. CASE UNCHANGED vars
  BY <1>6, StutterFrame DEF vars, history
<1> QED
  BY <1>2, <1>3, <1>4, <1>5, <1>6 DEF Next, Rest

(* Nothing is owed at first. *)
LEMMA InitMeters == Init => CountersKept /\ Meter!MeterInit
<1> SUFFICES ASSUME Init PROVE CountersKept /\ Meter!MeterInit
  OBVIOUS
<1>1. pass.at = "idle" /\ pass.todo = {}
  BY DEF Init, NoPass
<1>2. CountersKept
  BY <1>1 DEF CountersKept, SeenCounted, DueCounted
<1>3. \A k \in Key : count[k] - InFlight(k) = 0 /\ TotalOf(charged[k]) = 0
  BY <1>1 DEF Init, InFlight, Nothing, TotalOf, InQuota, SettleType
<1> QED
  BY <1>2, <1>3 DEF Meter!MeterInit

(* The loop over redis and MySQL, with calls, deposits, refunds and failures in between,
   implements the meter of Metering: no charge exceeds what is owed, and none is made
   twice.  Whatever fails does no harm to that, but for a DECRBY that is lost or
   applied twice after its charge; balances and quotas begin in credit, nobody
   withdraws and no plan resets a quota. *)
THEOREM SettleImplementsMeter ==
  ASSUME WithdrawAmounts = {}, PlanQuotas = {},
         \A u \in User : Funded(u), \A k \in Key : InCredit(InitialQuota[k])
  PROVE  Spec /\ [][~DecrLost]_vars => ImplementsMeter
<1>1. TypeOK /\ FundsInv /\ CountersKept /\ [Next]_vars /\ [~DecrLost]_vars => CountersKept'
  <2>1. ASSUME UNCHANGED vars, CountersKept PROVE CountersKept'
    BY <2>1 DEF vars, CountersKept, SeenCounted, DueCounted
  <2> QED
    BY <2>1, NextCounters DEF FundsInv
<1>2. TypeOK /\ FundsInv /\ [Next]_vars => FundsInv'
  BY NextSmall, NextTodoCounted, NextFunds, NextQuotas DEF FundsInv
<1>3. TypeOK /\ CountersKept /\ [Next]_vars /\ [~DecrLost]_vars
        => [Meter!MeterNext]_<<OwedOf, PaidOf>>
  <2>1. ASSUME UNCHANGED vars PROVE UNCHANGED <<OwedOf, PaidOf>>
    BY <2>1, StutterFrame DEF vars, history
  <2> QED
    BY <2>1, StepMeters
<1> QED
  BY InitFunds, InitMeters, <1>1, <1>2, <1>3, SettleTypeCorrect, PTL
     DEF Spec, ImplementsMeter, Meter!MeterSpec, OwedOf, PaidOf
=============================================================================
