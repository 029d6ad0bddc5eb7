---------------------------- MODULE ServerProofs ----------------------------
(***************************************************************************)
(* Theorems about what the server does besides settling.                   *)
(*                                                                         *)
(* The rows of users and the rich flag of Gateway, for any users, cost     *)
(* types, handlers, prices and bounds: what a handler has found, and what  *)
(* a refresh has still to do, make the invariants inductive.               *)
(*                                                                         *)
(* Then the statements, searches and listings of Reports, for any users,   *)
(* postings, windows and pages: the invariant says of each query what its  *)
(* parts so far have to do with the rows that are there now.               *)
(***************************************************************************)
EXTENDS Gateway, Reports, AmountProofs, FiniteSetTheorems, TLAPS

RefreshOk ==
  /\ refresh = [flags |-> refresh.flags, todo |-> refresh.todo]
  /\ refresh.todo \subseteq users
  /\ \A u \in refresh.todo : refresh.flags[u].value \subseteq CostType

RowsOk ==
  /\ users \subseteq User /\ created \subseteq users
  /\ quotaRows \in [User -> Nat] /\ settledRows \in [User -> Nat]
MoneyOk ==
  /\ quota \in [User -> [CostType -> Nat]] /\ count \in [User -> [CostType -> Nat]]
  /\ funds \in [User -> Nat]
FlagsOk ==
  /\ flag \in [User -> SUBSET CostType]
  /\ recent \in [User -> SUBSET CostType] /\ before \in [User -> SUBSET CostType]
Handling ==
  [pc : {"idle", "insert quota", "find settled", "insert settled", "reset"},
   users : SUBSET users]
ServerOk ==
  /\ server \in {"down", "models", "up"}
  /\ handler \in [Handler -> Handling]
  /\ panics \in [User -> Nat]
TypeOK == RowsOk /\ MoneyOk /\ FlagsOk /\ ServerOk /\ RefreshOk

(* While a refresh is under way the users it has come to have flags since it began,
   and the others have older ones. *)
FlagInv ==
  /\ \A u \in User \ users : flag[u] = {}
  /\ \A u \in refresh.todo :
       /\ refresh.flags[u].value \subseteq recent[u]
       /\ ~broken => flag[u] \subseteq before[u]
  /\ ~broken \/ refresh.todo # {} =>
       \A u \in User \ refresh.todo : flag[u] \subseteq recent[u]

(* What a handler has found holds until it has inserted its rows. *)
HandlersApart ==
  \A h, g \in Handler : h # g => handler[h].users \cap handler[g].users \subseteq overlapped
FoundStill(h) ==
  \A u \in handler[h].users :
    /\ handler[h].pc = "insert quota" /\ u \notin overlapped => quotaRows[u] = 0
    /\ handler[h].pc = "insert settled" /\ u \notin overlapped => settledRows[u] = 0
    /\ handler[h].pc = "reset" => settledRows[u] > 0
RowsInv ==
  /\ HandlersApart
  /\ \A h \in Handler : FoundStill(h)
  /\ server # "up" => \A h \in Handler : handler[h] = Idle
  /\ OneRowEach

(* Only users with a quota row can call, and a user over whom the loop has panicked
   gets its row at the next start. *)
HasQuotaRow(u) == quotaRows[u] > 0
CountInv ==
  /\ \A u \in User : HasQuotaRow(u) => u \in users
  /\ \A u \in User : flag[u] # {} => HasQuotaRow(u)
  /\ \A u \in refresh.todo : refresh.flags[u].value # {} => HasQuotaRow(u)
  /\ \A u \in User : \A c \in CostType : count[u][c] > 0 => HasQuotaRow(u)
  /\ \A u \in created : settledRows[u] > 0
  /\ \A u \in User : panics[u] > 0 =>
       panics[u] = 1 /\ u \in users /\ (settledRows[u] > 0 \/ server = "down")
-----------------------------------------------------------------------------
(* The lesser and the greater of two numbers. *)
LEMMA MinOfTwo ==
  ASSUME NEW a \in Int, NEW b \in Int
  PROVE  Min({a, b}) = IF a <= b THEN a ELSE b
<1>1. \E m \in {a, b} : \A x \in {a, b} : m <= x
  <2>1. CASE a <= b
    BY <2>1
  <2>2. CASE b <= a
    BY <2>2
  <2> QED
    BY <2>1, <2>2
<1>2. Min({a, b}) \in {a, b} /\ \A x \in {a, b} : Min({a, b}) <= x
  BY <1>1 DEF Min
<1> QED
  BY <1>2

LEMMA MaxOfTwo ==
  ASSUME NEW a \in Int, NEW b \in Int
  PROVE  Max({a, b}) = IF a >= b THEN a ELSE b
<1>1. \E m \in {a, b} : \A x \in {a, b} : m >= x
  <2>1. CASE a >= b
    BY <2>1
  <2>2. CASE b >= a
    BY <2>2
  <2> QED
    BY <2>1, <2>2
<1>2. Max({a, b}) \in {a, b} /\ \A x \in {a, b} : Max({a, b}) >= x
  BY <1>1 DEF Max
<1> QED
  BY <1>2

(* What the settle loop takes is there to be taken. *)
LEMMA LesserOf ==
  ASSUME NEW a \in Nat, NEW b \in Nat
  PROVE  /\ Min({a, b}) \in Nat
         /\ Min({a, b}) <= a /\ Min({a, b}) <= b
BY MinOfTwo

LEMMA DivisionLeaves ==
  ASSUME NEW a \in Nat, NEW p \in Nat, p # 0
  PROVE  a \div p \in Nat /\ p * (a \div p) <= a
<1>1. a \div p \in Nat
  OBVIOUS
<1>2. p * (a \div p) <= a
  BY Z3
<1> QED
  BY <1>1, <1>2

LEMMA TimesMonotone ==
  ASSUME NEW p \in Nat, NEW n \in Nat, NEW m \in Nat, n <= m
  PROVE  p * n <= p * m
  BY Z3

LEMMA DueThere ==
  ASSUME TypeOK, NEW u \in User, NEW c \in CostType
  PROVE  /\ InQuota(u, c) \in Nat /\ InBalance(u, c) \in Nat
         /\ InQuota(u, c) <= quota[u][c]
         /\ GetApiPrice(u, c) \in Nat
         /\ GetApiPrice(u, c) * InBalance(u, c) <= funds[u]
         /\ Due(u, c) <= count[u][c]
<1> DEFINE price == GetApiPrice(u, c)
           rest == count[u][c] - InQuota(u, c)
           most == funds[u] \div price
<1>1. quota[u][c] \in Nat /\ count[u][c] \in Nat /\ funds[u] \in Nat
  <2>1. quota[u] \in [CostType -> Nat] /\ count[u] \in [CostType -> Nat] /\ funds[u] \in Nat
    BY DEF TypeOK, MoneyOk
  <2> QED
    BY <2>1
<1>2. price \in Nat
  BY GatewayAssumption DEF GetApiPrice
<1>3. InQuota(u, c) \in Nat /\ InQuota(u, c) <= quota[u][c] /\ InQuota(u, c) <= count[u][c]
  BY <1>1, LesserOf DEF InQuota
<1>4. rest \in Nat /\ rest + InQuota(u, c) = count[u][c]
  BY <1>1, <1>3
<1>5. /\ InBalance(u, c) \in Nat /\ InBalance(u, c) <= rest
      /\ price * InBalance(u, c) <= funds[u]
  <2>1. CASE price = 0
    <3>1. InBalance(u, c) = rest
      BY <2>1 DEF InBalance
    <3>2. price * rest = 0
      BY <1>4, <2>1
    <3> QED
      BY <1>1, <1>4, <3>1, <3>2
  <2>2. CASE price # 0
    <3>1. InBalance(u, c) = Min({rest, most})
      BY <2>2 DEF InBalance
    <3> HIDE DEF rest, price
    <3>2. most \in Nat /\ price * most <= funds[u]
      BY <1>1, <1>2, <2>2, DivisionLeaves
    <3> HIDE DEF most
    <3>3. /\ Min({rest, most}) \in Nat
          /\ Min({rest, most}) <= rest /\ Min({rest, most}) <= most
      BY <1>4, <3>2, LesserOf
    <3> DEFINE n == Min({rest, most})
    <3> HIDE DEF n
    <3>4. price * n <= price * most
      BY <1>2, <3>2, <3>3, TimesMonotone DEF n
    <3>5. price * n \in Nat /\ price * most \in Nat
      BY <1>2, <3>2, <3>3 DEF n
    <3>6. price * n <= funds[u]
      BY <1>1, <3>2, <3>4, <3>5
    <3> QED
      BY <3>1, <3>3, <3>6 DEF n
  <2> QED
    BY <2>1, <2>2
<1>6. Due(u, c) <= count[u][c]
  BY <1>1, <1>3, <1>4, <1>5 DEF Due
<1> QED
  BY <1>2, <1>3, <1>5, <1>6

LEMMA InitTypeOK == Init => TypeOK
<1> SUFFICES ASSUME Init PROVE TypeOK
  OBVIOUS
<1> USE GatewayAssumption DEF Init
<1>1. RowsOk
  BY DEF RowsOk
<1>2. MoneyOk
  BY DEF MoneyOk
<1>3. FlagsOk
  BY DEF FlagsOk
<1>4. ServerOk
  BY DEF ServerOk, Handling, Idle
<1>5. RefreshOk
  BY DEF RefreshOk, NoRefresh
<1> QED
  BY <1>1, <1>2, <1>3, <1>4, <1>5 DEF TypeOK

LEMMA NextTypeOK == TypeOK /\ [Next]_vars => TypeOK'
<1> SUFFICES ASSUME TypeOK, [Next]_vars PROVE TypeOK'
  OBVIOUS
<1> USE GatewayAssumption
<1>a. ASSUME UNCHANGED <<rows, created>> PROVE RowsOk'
  BY <1>a DEF TypeOK, RowsOk, rows
<1>b. ASSUME UNCHANGED money PROVE MoneyOk'
  BY <1>b DEF TypeOK, MoneyOk, money
<1>c. ASSUME UNCHANGED <<flag, recent, before>> PROVE FlagsOk'
  BY <1>c DEF TypeOK, FlagsOk
<1>d. ASSUME UNCHANGED <<server, panics, handler>>, users \subseteq users' PROVE ServerOk'
  BY <1>d DEF TypeOK, ServerOk, Handling
<1>e. ASSUME UNCHANGED refresh, users \subseteq users' PROVE RefreshOk'
  BY <1>e DEF TypeOK, RefreshOk
<1>f. ASSUME UNCHANGED <<flag, before>>, Remember PROVE FlagsOk'
  BY <1>f DEF TypeOK, FlagsOk, Remember, RichTypes
<1>g. ASSUME refresh' = NoRefresh PROVE RefreshOk'
  BY <1>g DEF RefreshOk, NoRefresh
<1>h. ASSUME NEW h \in Handler, NEW u \in users, NEW pc, To(h, pc, u),
             pc \in {"insert quota", "find settled", "insert settled", "reset"},
             UNCHANGED <<server, panics, users>>
      PROVE  ServerOk'
  <2>1. [pc |-> pc, users |-> {u}] \in Handling
    BY <1>h DEF Handling
  <2>2. handler' \in [Handler -> Handling]
    BY <1>h, <2>1 DEF TypeOK, ServerOk, To
  <2> QED
    BY <1>h, <2>2 DEF TypeOK, ServerOk, Handling
<1>i. ASSUME NEW h \in Handler, handler' = [handler EXCEPT ![h] = Idle],
             UNCHANGED <<server, panics, users>>
      PROVE  ServerOk'
  <2>1. handler' \in [Handler -> Handling]
    BY <1>i DEF TypeOK, ServerOk, Handling, Idle
  <2> QED
    BY <1>i, <2>1 DEF TypeOK, ServerOk, Handling
<1>j. ASSUME NEW h \in Handler, NEW u, NEW pc, handler[h] = [pc |-> pc, users |-> {u}]
      PROVE  u \in users
  <2>1. handler[h] \in Handling
    BY DEF TypeOK, ServerOk
  <2>2. handler[h].users \in SUBSET users
    BY <2>1 DEF Handling
  <2>3. handler[h].users = {u}
    BY <1>j
  <2> QED
    BY <2>2, <2>3
<1>k. ASSUME NEW table \in [User -> Nat], NEW us PROVE WithRow(table, us) \in [User -> Nat]
  BY DEF WithRow
<1>1. CASE Refresh
  <2>1. CASE RefreshStart
    <3>1. RefreshOk'
      <4>1. refresh' = [flags |-> [u \in users |-> CalcRichFlag(u)], todo |-> users]
            /\ users' = users
        BY <2>1 DEF RefreshStart, rows
      <4>2. \A u : CalcRichFlag(u).value \subseteq CostType
        BY DEF CalcRichFlag, RichTypes
      <4> QED
        BY <4>1, <4>2 DEF RefreshOk
    <3>2. FlagsOk'
      BY <2>1 DEF RefreshStart, FlagsOk, RichTypes, TypeOK
    <3>3. UNCHANGED <<rows, created, money, server, panics, handler, users>>
      BY <2>1 DEF RefreshStart, rows
    <3> QED
      BY <3>1, <3>2, <3>3, <1>a, <1>b, <1>d DEF TypeOK
  <2>2. ASSUME NEW u \in User, RefreshUser(u) PROVE TypeOK'
    <3>1. RefreshOk'
      BY <2>2 DEF TypeOK, RefreshOk, RefreshUser, rows, NoRefresh
    <3>2. FlagsOk'
      BY <2>2 DEF TypeOK, FlagsOk, RefreshOk, RefreshUser, Set
    <3>3. UNCHANGED <<rows, created, money, server, panics, handler, users>>
      BY <2>2 DEF RefreshUser, rows
    <3> QED
      BY <3>1, <3>2, <3>3, <1>a, <1>b, <1>d DEF TypeOK
  <2>3. ASSUME NEW u \in User, RefreshNoPrice(u) PROVE TypeOK'
    <3>1. /\ UNCHANGED <<rows, created, money, flag, recent, before, server, panics, handler,
                         users>>
          /\ refresh' = NoRefresh
      BY <2>3 DEF RefreshNoPrice, Return, rows
    <3> QED
      BY <3>1, <1>a, <1>b, <1>c, <1>d, <1>g DEF TypeOK
  <2> QED
    BY <1>1, <2>1, <2>2, <2>3 DEF Refresh
<1>2. CASE Start
  <2>1. server' \in {"models", "up"} /\ UNCHANGED <<users, money, flag, handler, refresh, history>>
    BY <1>2 DEF Start, InitUserSettleds, InitUserApiQuota
  <2>2. RowsOk'
    <3>1. \/ settledRows' = WithRow(settledRows, users) /\ UNCHANGED quotaRows
          \/ quotaRows' = WithRow(quotaRows, users) /\ UNCHANGED settledRows
      BY <1>2 DEF Start, InitUserSettleds, InitUserApiQuota
    <3>2. settledRows \in [User -> Nat] /\ quotaRows \in [User -> Nat]
      BY DEF TypeOK, RowsOk
    <3>3. settledRows' \in [User -> Nat] /\ quotaRows' \in [User -> Nat]
      BY <1>k, <3>1, <3>2
    <3> QED
      BY <2>1, <3>3 DEF TypeOK, RowsOk, history
  <2>3. ServerOk'
    BY <2>1 DEF TypeOK, ServerOk, Handling, history
  <2> QED
    BY <2>1, <2>2, <2>3, <1>b, <1>c, <1>e DEF TypeOK, history
<1>3. ASSUME NEW u \in User, DepositBalance(u) PROVE TypeOK'
  <2>1. /\ UNCHANGED <<rows, created, flag, before, server, panics, handler, users, refresh>>
        /\ Remember
    BY <1>3 DEF DepositBalance, rows
  <2>2. MoneyOk'
    BY <1>3 DEF DepositBalance, TypeOK, MoneyOk
  <2> QED
    BY <2>1, <2>2, <1>a, <1>d, <1>e, <1>f DEF TypeOK
<1>4. ASSUME NEW u \in User, CreateUser(u) PROVE TypeOK'
  <2>1. /\ UNCHANGED <<money, flag, recent, before, server, panics, handler, refresh>>
        /\ users \subseteq users'
    BY <1>4 DEF CreateUser, history
  <2>2. RowsOk'
    BY <1>4 DEF CreateUser, TypeOK, RowsOk, history
  <2> QED
    BY <2>1, <2>2, <1>b, <1>c, <1>d, <1>e DEF TypeOK
<1>5. ASSUME NEW u \in User, NEW c \in CostType, SettleKey(u, c) PROVE TypeOK'
  <2> DEFINE left == quota[u][c] - InQuota(u, c)
             n == count[u][c] - Due(u, c)
             f == funds[u] - GetApiPrice(u, c) * InBalance(u, c)
  <2>1. left \in Nat /\ n \in Nat /\ f \in Nat
    <3> DEFINE p == GetApiPrice(u, c)
               b == InBalance(u, c)
    <3>1. p \in Nat /\ b \in Nat /\ p * b <= funds[u] /\ InQuota(u, c) \in Nat
          /\ InQuota(u, c) <= quota[u][c] /\ Due(u, c) <= count[u][c]
      BY DueThere
    <3>2. funds[u] \in Nat /\ quota[u][c] \in Nat /\ count[u][c] \in Nat
      BY DEF TypeOK, MoneyOk
    <3>3. Due(u, c) \in Nat
      BY DueThere DEF Due
    <3> HIDE DEF p, b
    <3>4. p * b \in Nat
      BY <3>1
    <3>5. funds[u] - p * b \in Nat
      BY <3>1, <3>2, <3>4
    <3> QED
      BY <3>1, <3>2, <3>3, <3>5 DEF p, b
  <2>2. /\ quota' = [quota EXCEPT ![u][c] = left] /\ count' = [count EXCEPT ![u][c] = n]
        /\ funds' = [funds EXCEPT ![u] = f]
    BY <1>5 DEF SettleKey
  <2> HIDE DEF left, n, f
  <2>3. MoneyOk'
    BY <2>1, <2>2 DEF TypeOK, MoneyOk
  <2>4. /\ UNCHANGED <<rows, created, flag, before, server, panics, handler, users, refresh>>
        /\ Remember
    BY <1>5 DEF SettleKey, rows
  <2> QED
    BY <2>3, <2>4, <1>a, <1>d, <1>e, <1>f DEF TypeOK
<1>6. ASSUME Die, panics' \in [User -> Nat] PROVE TypeOK'
  <2>1. /\ UNCHANGED <<rows, created, money, flag, recent, before>>
        /\ refresh' = NoRefresh
    BY <1>6 DEF Die
  <2>2. ServerOk'
    BY <1>6 DEF Die, ServerOk, Handling, Idle
  <2> QED
    BY <2>1, <2>2, <1>a, <1>b, <1>c, <1>g DEF TypeOK
<1>7. ASSUME NEW u \in User, NEW c \in CostType, SettlePanics(u, c) PROVE TypeOK'
  BY <1>6, <1>7 DEF SettlePanics, TypeOK, ServerOk
<1>8. ASSUME NEW u \in User, NEW c \in CostType, ApiCall(u, c) PROVE TypeOK'
  <2>1. UNCHANGED <<rows, created, flag, recent, before, server, panics, handler, users, refresh>>
    BY <1>8 DEF ApiCall, rows, history
  <2>2. MoneyOk'
    BY <1>8 DEF ApiCall, TypeOK, MoneyOk
  <2> QED
    BY <2>1, <2>2, <1>a, <1>c, <1>d, <1>e DEF TypeOK
<1>9. ASSUME NEW h \in Handler, NEW u \in User, UserCreated(h, u) PROVE TypeOK'
  <2>1. /\ UNCHANGED <<rows, created, money, flag, recent, before, server, panics, users, refresh>>
        /\ u \in users
        /\ To(h, IF Missing(quotaRows[u]) THEN "insert quota" ELSE "find settled", u)
    BY <1>9 DEF UserCreated, rows
  <2>2. ServerOk'
    BY <2>1, <1>h
  <2> QED
    BY <2>1, <2>2, <1>a, <1>b, <1>c, <1>e DEF TypeOK
<1>10. ASSUME NEW h \in Handler, NEW u \in User, InsertQuota(h, u) \/ InsertSettled(h, u)
       PROVE  TypeOK'
  <2>1. /\ UNCHANGED <<users, created, money, flag, recent, before, server, panics, refresh>>
        /\ To(h, "find settled", u) \/ To(h, "reset", u)
    BY <1>10 DEF InsertQuota, InsertSettled, history
  <2>4. u \in users
    BY <1>10, <1>j DEF InsertQuota, InsertSettled
  <2>2. RowsOk'
    <3>1. \/ quotaRows' = [quotaRows EXCEPT ![u] = @ + 1] /\ UNCHANGED settledRows
          \/ settledRows' = [settledRows EXCEPT ![u] = @ + 1] /\ UNCHANGED quotaRows
      BY <1>10 DEF InsertQuota, InsertSettled
    <3>2. quotaRows \in [User -> Nat] /\ settledRows \in [User -> Nat]
      BY DEF TypeOK, RowsOk
    <3>3. quotaRows' \in [User -> Nat] /\ settledRows' \in [User -> Nat]
      BY <3>1, <3>2
    <3> QED
      BY <2>1, <3>3 DEF TypeOK, RowsOk
  <2>3. ServerOk'
    <3>1. CASE To(h, "find settled", u)
      BY <3>1, <2>1, <2>4, <1>h
    <3>2. CASE To(h, "reset", u)
      BY <3>2, <2>1, <2>4, <1>h
    <3> QED
      BY <2>1, <3>1, <3>2
  <2> QED
    BY <2>1, <2>2, <2>3, <1>b, <1>c, <1>e DEF TypeOK
<1>11. ASSUME NEW h \in Handler, NEW u \in User, FindSettled(h, u) PROVE TypeOK'
  <2>1. /\ UNCHANGED <<rows, users, created, money, flag, recent, before, server, panics, refresh>>
        /\ To(h, IF Missing(settledRows[u]) THEN "insert settled" ELSE "reset", u)
        /\ u \in users
    BY <1>11, <1>j DEF FindSettled, rows, history
  <2>2. ServerOk'
    BY <2>1, <1>h
  <2> QED
    BY <2>1, <2>2, <1>a, <1>b, <1>c, <1>e DEF TypeOK
<1>12. ASSUME NEW h \in Handler, NEW u \in User, ResetQuotaOnUserCreated(h, u) PROVE TypeOK'
  <2>1. /\ UNCHANGED <<rows, users, flag, before, server, panics, refresh>>
        /\ handler' = [handler EXCEPT ![h] = Idle] /\ created' = created \cup {u}
        /\ Remember /\ u \in users
    BY <1>12, <1>j DEF ResetQuotaOnUserCreated, rows
  <2>2. RowsOk'
    BY <2>1 DEF TypeOK, RowsOk, rows
  <2>3. MoneyOk'
    BY <1>12 DEF ResetQuotaOnUserCreated, TypeOK, MoneyOk
  <2>4. ServerOk'
    BY <2>1, <1>i
  <2> QED
    BY <2>1, <2>2, <2>3, <2>4, <1>e, <1>f DEF TypeOK
<1>13. ASSUME NEW h \in Handler, HandlerFails(h) PROVE TypeOK'
  <2>1. /\ UNCHANGED <<rows, users, created, money, flag, recent, before, server, panics, refresh>>
        /\ handler' = [handler EXCEPT ![h] = Idle]
    BY <1>13 DEF HandlerFails, rows, history
  <2> QED
    BY <2>1, <1>a, <1>b, <1>c, <1>e, <1>i DEF TypeOK
<1>14. CASE RefreshFails
  <2>1. /\ UNCHANGED <<rows, created, money, flag, recent, before, server, panics, handler,
                         users>>
        /\ refresh' = NoRefresh
    BY <1>14 DEF RefreshFails, Return, rows
  <2> QED
    BY <2>1, <1>a, <1>b, <1>c, <1>d, <1>g DEF TypeOK
<1>15. CASE Crash
  BY <1>6, <1>15 DEF Crash, TypeOK, ServerOk
<1>16. CASE UNCHANGED vars
  BY <1>16, <1>a, <1>b, <1>c, <1>d, <1>e DEF TypeOK, vars, rows, history
<1>17. ASSUME NEW h \in Handler, Create(h) PROVE TypeOK'
  BY <1>10, <1>11, <1>12, <1>17 DEF Create
<1>18. ASSUME NEW u \in User, Settle(u) PROVE TypeOK'
  BY <1>5, <1>7, <1>18 DEF Settle
<1> QED
  BY <1>1, <1>2, <1>3, <1>4, <1>8, <1>9, <1>13, <1>14, <1>15, <1>16, <1>17, <1>18 DEF Next

(* The rows, flags and handlers keep their form (user.go, user_balance.go,
   user_api_quota.go, redis.go), and a refresh lists users that exist. *)
THEOREM GatewayTypeCorrect == Spec => []TypeOK
  BY InitTypeOK, NextTypeOK, PTL DEF Spec
-----------------------------------------------------------------------------
(* The flags. *)
LEMMA InitFlagInv == Init => FlagInv
  BY DEF Init, FlagInv, NoRefresh

LEMMA RefreshFlagInv == ASSUME TypeOK, FlagInv, Refresh \/ RefreshFails PROVE FlagInv'
<1>1. CASE RefreshStart
  <2>1. /\ refresh' = [flags |-> [u \in users |-> CalcRichFlag(u)], todo |-> users]
        /\ refresh.todo = {} /\ before' = recent /\ recent' = [u \in User |-> RichTypes(u)]
        /\ UNCHANGED <<users, flag, broken>>
    BY <1>1 DEF RefreshStart, rows, NoRefresh
  <2>2. \A u \in users : CalcRichFlag(u).value \subseteq recent'[u]
    BY <2>1 DEF CalcRichFlag, TypeOK, RowsOk
  <2>3. \A u \in users : refresh'.flags[u].value \subseteq recent'[u]
    BY <2>1, <2>2
  <2>4. \A u \in users : u \in User
    BY DEF TypeOK, RowsOk
  <2>5. \A u \in User \ users : flag[u] \subseteq recent'[u]
    BY DEF FlagInv
  <2>6. ~broken => \A u \in users : flag[u] \subseteq before'[u]
    BY <2>1, <2>4 DEF FlagInv
  <2> QED
    BY <2>1, <2>3, <2>5, <2>6 DEF FlagInv
<1>2. ASSUME NEW u \in User, RefreshUser(u) PROVE FlagInv'
  <2> DEFINE left == refresh.todo \ {u}
  <2>1. /\ u \in refresh.todo /\ flag' = [flag EXCEPT ![u] = refresh.flags[u].value]
        /\ refresh' = IF left = {} THEN NoRefresh ELSE [refresh EXCEPT !.todo = left]
        /\ broken' = (broken /\ left # {})
        /\ UNCHANGED <<users, recent, before>>
    BY <1>2 DEF RefreshUser, Set, rows
  <2>2. /\ refresh'.todo = left
        /\ \A v \in left : refresh'.flags[v] = refresh.flags[v]
    BY <2>1 DEF TypeOK, RefreshOk, NoRefresh
  <2>3. u \in users
    BY <2>1 DEF TypeOK, RefreshOk
  <2>4. flag'[u] \subseteq recent[u] /\ \A v \in User \ {u} : flag'[v] = flag[v]
    BY <2>1 DEF TypeOK, FlagsOk, FlagInv
  <2>5. \A v \in User \ users : flag'[v] = {}
    BY <2>3, <2>4 DEF FlagInv
  <2>6. \A v \in User \ left : flag'[v] \subseteq recent[v]
    BY <2>1, <2>4 DEF FlagInv
  <2>7. \A v \in left : /\ refresh.flags[v].value \subseteq recent[v]
                        /\ ~broken => flag[v] \subseteq before[v]
    BY DEF FlagInv
  <2>8. \A v \in left : v \in User \ {u}
    BY DEF TypeOK, RowsOk, RefreshOk
  <2> QED
    BY <2>1, <2>2, <2>4, <2>5, <2>6, <2>7, <2>8 DEF FlagInv
<1>3. ASSUME Return PROVE FlagInv'
  BY <1>3 DEF Return, FlagInv, NoRefresh, rows
<1> QED
  BY <1>1, <1>2, <1>3 DEF Refresh, RefreshNoPrice, RefreshFails

(* What can be paid for is only added to. *)
LEMMA Remembered ==
  ASSUME TypeOK, Remember, NEW u \in User
  PROVE  recent[u] \subseteq recent'[u]
  BY DEF TypeOK, FlagsOk, Remember

LEMMA NextFlagInv == TypeOK /\ FlagInv /\ [Next]_vars => FlagInv'
<1> SUFFICES ASSUME TypeOK, FlagInv, [Next]_vars PROVE FlagInv'
  OBVIOUS
<1>a. ASSUME users \subseteq users', UNCHANGED <<flag, refresh, before, broken>>,
             \/ UNCHANGED recent
             \/ Remember
      PROVE  FlagInv'
  <2>1. \A u \in User : recent[u] \subseteq recent'[u]
    BY <1>a, Remembered
  <2> QED
    BY <1>a, <2>1 DEF FlagInv, TypeOK, RowsOk, RefreshOk
<1>1. ASSUME Die PROVE FlagInv'
  BY <1>1 DEF Die, FlagInv, NoRefresh, rows
<1>2. CASE Start
  BY <1>2, <1>a DEF Start, InitUserSettleds, InitUserApiQuota, history
<1>3. ASSUME NEW u \in User, DepositBalance(u) \/ CreateUser(u) PROVE FlagInv'
  BY <1>3, <1>a DEF DepositBalance, CreateUser, history, rows
<1>4. ASSUME NEW u \in User, Settle(u) PROVE FlagInv'
  BY <1>1, <1>4, <1>a DEF Settle, SettleKey, SettlePanics, rows
<1>5. ASSUME NEW u \in User, NEW c \in CostType, ApiCall(u, c) PROVE FlagInv'
  BY <1>5, <1>a DEF ApiCall, rows, history
<1>6. ASSUME NEW h \in Handler, NEW u \in User, UserCreated(h, u) PROVE FlagInv'
  BY <1>6, <1>a DEF UserCreated, rows
<1>7. ASSUME NEW h \in Handler, Create(h) PROVE FlagInv'
  BY <1>7, <1>a DEF Create, InsertQuota, FindSettled, InsertSettled, ResetQuotaOnUserCreated,
                    rows, history
<1>8. ASSUME NEW h \in Handler, HandlerFails(h) PROVE FlagInv'
  BY <1>8, <1>a DEF HandlerFails, rows, history
<1>9. CASE Crash
  BY <1>1, <1>9 DEF Crash
<1>10. CASE UNCHANGED vars
  BY <1>10, <1>a DEF vars, rows, history
<1> QED
  BY RefreshFlagInv, <1>2, <1>3, <1>4, <1>5, <1>6, <1>7, <1>8, <1>9, <1>10 DEF Next

(* The gateway lets a user call only what it could pay at some time since the refresh
   before the last one began, unless refreshes have failed since. *)
THEOREM FlagsStayRecent == Spec => []FlagRecent
<1>1. TypeOK /\ FlagInv => FlagRecent
  <2> SUFFICES ASSUME TypeOK, FlagInv, ~broken, NEW u \in User
               PROVE  flag[u] \subseteq recent[u] \cup before[u]
    BY DEF FlagRecent
  <2> QED
    BY DEF FlagInv
<1> QED
  BY InitFlagInv, NextFlagInv, GatewayTypeCorrect, <1>1, PTL DEF Spec
-----------------------------------------------------------------------------
(* The rows. *)
LEMMA InitRowsInv == Init => RowsInv
<1> SUFFICES ASSUME Init PROVE RowsInv
  OBVIOUS
<1>1. \A h \in Handler : handler[h] = Idle /\ handler[h].users = {}
  BY DEF Init, Idle
<1>2. OneRowEach
  BY DEF Init, OneRowEach
<1> QED
  BY <1>1, <1>2 DEF RowsInv, HandlersApart, FoundStill, Init

(* A start makes one row for who has none. *)
LEMMA RowAdded ==
  ASSUME NEW table \in [User -> Nat], NEW us, NEW u \in User
  PROVE  /\ WithRow(table, us)[u] \in Nat
         /\ table[u] <= WithRow(table, us)[u]
         /\ table[u] <= 1 => WithRow(table, us)[u] <= 1
         /\ u \in us => WithRow(table, us)[u] > 0
<1>1. WithRow(table, us)[u] = IF u \in us /\ table[u] = 0 THEN table[u] + 1 ELSE table[u]
  BY DEF WithRow, Missing
<1> QED
  BY <1>1

LEMMA FieldsOf ==
  ASSUME NEW r, NEW pc, NEW us, r = [pc |-> pc, users |-> us]
  PROVE  r.pc = pc /\ r.users = us
  OBVIOUS

LEMMA NextRowsInv == TypeOK /\ RowsInv /\ [Next]_vars => RowsInv'
<1> SUFFICES ASSUME TypeOK, RowsInv, [Next]_vars PROVE RowsInv'
  OBVIOUS
<1>a. ASSUME UNCHANGED <<quotaRows, settledRows, handler, server, overlapped>> PROVE RowsInv'
  BY <1>a DEF RowsInv, HandlersApart, FoundStill, OneRowEach
<1>b. /\ quotaRows \in [User -> Nat] /\ settledRows \in [User -> Nat]
      /\ handler \in [Handler -> Handling]
  BY DEF TypeOK, RowsOk, ServerOk
<1>1. CASE Refresh \/ RefreshFails
  BY <1>1, <1>a DEF Refresh, RefreshStart, RefreshUser, RefreshNoPrice, RefreshFails, Return, rows
<1>2. ASSUME NEW u \in User, DepositBalance(u) \/ CreateUser(u) PROVE RowsInv'
  BY <1>2, <1>a DEF DepositBalance, CreateUser, history, rows
<1>3. ASSUME NEW u \in User, NEW c \in CostType, SettleKey(u, c) PROVE RowsInv'
  BY <1>3, <1>a DEF SettleKey, rows
<1>4. ASSUME NEW u \in User, NEW c \in CostType, ApiCall(u, c) PROVE RowsInv'
  BY <1>4, <1>a DEF ApiCall, rows, history
<1>5. CASE UNCHANGED vars
  BY <1>5, <1>a DEF vars, rows, history
<1>6. ASSUME Die, UNCHANGED overlapped PROVE RowsInv'
  <2>1. /\ \A h \in Handler : handler'[h] = Idle /\ handler'[h].users = {}
        /\ UNCHANGED <<quotaRows, settledRows, overlapped>>
    BY <1>6 DEF Die, Idle, rows
  <2> QED
    BY <2>1 DEF RowsInv, HandlersApart, FoundStill, OneRowEach
<1>7. ASSUME NEW u \in User, NEW c \in CostType, SettlePanics(u, c) PROVE RowsInv'
  BY <1>6, <1>7 DEF SettlePanics, Die
<1>8. CASE Crash
  BY <1>6, <1>8 DEF Crash, Die
<1>9. CASE Start
  <2>1. /\ \A h \in Handler : handler[h] = Idle /\ handler[h].users = {}
        /\ UNCHANGED <<handler, overlapped>>
    BY <1>9 DEF Start, InitUserSettleds, InitUserApiQuota, RowsInv, Idle, history
  <2>2. \/ settledRows' = WithRow(settledRows, users) /\ UNCHANGED quotaRows
        \/ quotaRows' = WithRow(quotaRows, users) /\ UNCHANGED settledRows
    BY <1>9 DEF Start, InitUserSettleds, InitUserApiQuota
  <2>3. OneRowEach'
    BY <2>1, <2>2, <1>b, RowAdded DEF OneRowEach, RowsInv
  <2> QED
    BY <2>1, <2>3 DEF RowsInv, HandlersApart, FoundStill
<1>c. ASSUME NEW h \in Handler, handler' = [handler EXCEPT ![h] = Idle],
             UNCHANGED <<quotaRows, settledRows, server, overlapped>>
      PROVE  RowsInv'
  <2>1. /\ handler'[h] = Idle /\ handler'[h].users = {}
        /\ \A g \in Handler \ {h} : handler'[g] = handler[g]
    BY <1>b, <1>c DEF Idle
  <2>2. HandlersApart'
    BY <2>1, <1>c DEF RowsInv, HandlersApart
  <2>3. ASSUME NEW g \in Handler PROVE FoundStill(g)'
    <3>1. CASE g = h
      BY <3>1, <2>1 DEF FoundStill
    <3>2. CASE g # h
      <4>1. FoundStill(g) /\ handler'[g] = handler[g]
        BY <3>2, <2>1 DEF RowsInv
      <4> QED
        BY <4>1, <1>c DEF FoundStill
    <3> QED
      BY <3>1, <3>2
  <2> QED
    BY <2>1, <2>2, <2>3, <1>c DEF RowsInv, OneRowEach
<1>10. ASSUME NEW h \in Handler, HandlerFails(h) PROVE RowsInv'
  BY <1>10, <1>c DEF HandlerFails, rows, history
<1>11. ASSUME NEW h \in Handler, NEW u \in User, UserCreated(h, u) PROVE RowsInv'
  <2> DEFINE pc == IF Missing(quotaRows[u]) THEN "insert quota" ELSE "find settled"
  <2>1. /\ server = "up" /\ UNCHANGED <<server, quotaRows, settledRows>>
        /\ handler' = [handler EXCEPT ![h] = [pc |-> pc, users |-> {u}]]
        /\ overlapped \subseteq overlapped'
        /\ (\E g \in Handler : u \in handler[g].users) => u \in overlapped'
    BY <1>11 DEF UserCreated, To, rows
  <2>2. pc = "insert quota" => quotaRows[u] = 0
    BY DEF Missing
  <2>3. pc \in {"insert quota", "find settled"}
    OBVIOUS
  <2> HIDE DEF pc
  <2>4. /\ handler'[h].pc = pc /\ handler'[h].users = {u}
        /\ \A g \in Handler \ {h} : handler'[g] = handler[g]
    BY <2>1, <1>b
  <2>5. HandlersApart'
    BY <2>1, <2>4 DEF RowsInv, HandlersApart
  <2>6. ASSUME NEW g \in Handler PROVE FoundStill(g)'
    <3>1. CASE g = h
      BY <3>1, <2>1, <2>2, <2>3, <2>4 DEF FoundStill
    <3>2. CASE g # h
      <4>1. FoundStill(g) /\ handler'[g] = handler[g]
        BY <3>2, <2>4 DEF RowsInv
      <4> QED
        BY <4>1, <2>1 DEF FoundStill
    <3> QED
      BY <3>1, <3>2
  <2>7. OneRowEach'
    BY <2>1 DEF RowsInv, OneRowEach
  <2> QED
    BY <2>1, <2>5, <2>6, <2>7 DEF RowsInv
<1>12. ASSUME NEW h \in Handler, Create(h) PROVE RowsInv'
  <2>a. server # "up" => \A g \in Handler : handler[g].pc = "idle"
    BY DEF RowsInv, Idle
  <2>b. ASSUME NEW u \in User, NEW pc,
               handler[h].users = {u}, handler[h].pc # "idle", To(h, pc, u),
               UNCHANGED <<server, overlapped>>
        PROVE  /\ server' = "up" /\ HandlersApart'
               /\ handler'[h].pc = pc /\ handler'[h].users = {u}
               /\ \A g \in Handler \ {h} : handler'[g] = handler[g]
               /\ \A g \in Handler \ {h} : u \in handler[g].users => u \in overlapped
    <3>1. /\ handler'[h].pc = pc /\ handler'[h].users = {u}
          /\ \A g \in Handler \ {h} : handler'[g] = handler[g]
      BY <1>b, <2>b DEF To
    <3>2. \A g \in Handler : handler'[g].users = handler[g].users
      BY <3>1, <2>b
    <3> QED
      BY <2>a, <2>b, <3>1, <3>2 DEF RowsInv, HandlersApart
  <2>1. ASSUME NEW u \in User, InsertQuota(h, u) PROVE RowsInv'
    <3>1. /\ handler[h].users = {u} /\ handler[h].pc = "insert quota" /\ To(h, "find settled", u)
          /\ quotaRows' = [quotaRows EXCEPT ![u] = @ + 1]
          /\ UNCHANGED <<server, overlapped, settledRows>>
      <4>1. handler[h] = [pc |-> "insert quota", users |-> {u}]
        BY <2>1 DEF InsertQuota
      <4>2. handler[h].users = {u} /\ handler[h].pc = "insert quota"
        BY <4>1, FieldsOf
      <4> QED
        BY <2>1, <4>2 DEF InsertQuota, history
    <3>2. /\ server' = "up" /\ HandlersApart'
          /\ handler'[h].pc = "find settled" /\ handler'[h].users = {u}
          /\ \A g \in Handler \ {h} : handler'[g] = handler[g]
          /\ \A g \in Handler \ {h} : u \in handler[g].users => u \in overlapped
      BY <2>b, <3>1
    <3>3. u \notin overlapped => quotaRows[u] = 0
      BY <3>1 DEF RowsInv, FoundStill
    <3>4. quotaRows'[u] = quotaRows[u] + 1 /\ \A v \in User \ {u} : quotaRows'[v] = quotaRows[v]
      BY <3>1, <1>b
    <3>5. \A g \in Handler : handler[g].users \subseteq User
      BY <1>b DEF Handling, TypeOK, RowsOk
    <3>6. ASSUME NEW g \in Handler PROVE FoundStill(g)'
      <4>1. CASE g = h
        BY <4>1, <3>1, <3>2, <3>4 DEF FoundStill
      <4>2. CASE g # h
        <5>1. FoundStill(g) /\ handler'[g] = handler[g]
              /\ (u \in handler[g].users => u \in overlapped)
          BY <4>2, <3>2 DEF RowsInv
        <5> QED
          BY <5>1, <3>1, <3>4, <3>5 DEF FoundStill
      <4> QED
        BY <4>1, <4>2
    <3>7. OneRowEach'
      <4>1. ASSUME NEW v \in User \ overlapped PROVE quotaRows'[v] <= 1 /\ settledRows'[v] <= 1
        <5>1. quotaRows[v] <= 1 /\ settledRows[v] <= 1
          BY DEF RowsInv, OneRowEach
        <5>2. CASE v = u
          <6>1. quotaRows'[v] = 1
            BY <5>2, <3>3, <3>4
          <6>2. settledRows'[v] = settledRows[v]
            BY <3>1
          <6> QED
            BY <5>1, <6>1, <6>2
        <5>3. CASE v # u
          BY <5>1, <5>3, <3>1, <3>4
        <5> QED
          BY <5>2, <5>3
      <4> QED
        BY <4>1, <3>1 DEF OneRowEach
    <3> QED
      BY <3>2, <3>6, <3>7 DEF RowsInv
  <2>2. ASSUME NEW u \in User, FindSettled(h, u) PROVE RowsInv'
    <3> DEFINE pc == IF Missing(settledRows[u]) THEN "insert settled" ELSE "reset"
    <3>1. /\ handler[h].users = {u} /\ handler[h].pc = "find settled" /\ To(h, pc, u)
          /\ UNCHANGED <<server, overlapped, quotaRows, settledRows>>
      <4>1. handler[h] = [pc |-> "find settled", users |-> {u}]
        BY <2>2 DEF FindSettled
      <4>2. handler[h].users = {u} /\ handler[h].pc = "find settled"
        BY <4>1, FieldsOf
      <4> QED
        BY <2>2, <4>2 DEF FindSettled, rows, history
    <3>2. /\ pc \in {"insert settled", "reset"}
          /\ pc = "insert settled" => settledRows[u] = 0
          /\ pc = "reset" => settledRows[u] > 0
      BY <1>b DEF Missing
    <3> HIDE DEF pc
    <3>3. /\ server' = "up" /\ HandlersApart'
          /\ handler'[h].pc = pc /\ handler'[h].users = {u}
          /\ \A g \in Handler \ {h} : handler'[g] = handler[g]
      BY <2>b, <3>1
    <3>4. ASSUME NEW g \in Handler PROVE FoundStill(g)'
      BY <3>1, <3>2, <3>3 DEF RowsInv, FoundStill
    <3>5. OneRowEach'
      BY <3>1 DEF RowsInv, OneRowEach
    <3> QED
      BY <3>3, <3>4, <3>5 DEF RowsInv
  <2>3. ASSUME NEW u \in User, InsertSettled(h, u) PROVE RowsInv'
    <3>1. /\ handler[h].users = {u} /\ handler[h].pc = "insert settled" /\ To(h, "reset", u)
          /\ settledRows' = [settledRows EXCEPT ![u] = @ + 1]
          /\ UNCHANGED <<server, overlapped, quotaRows>>
      <4>1. handler[h] = [pc |-> "insert settled", users |-> {u}]
        BY <2>3 DEF InsertSettled
      <4>2. handler[h].users = {u} /\ handler[h].pc = "insert settled"
        BY <4>1, FieldsOf
      <4> QED
        BY <2>3, <4>2 DEF InsertSettled, history
    <3>2. /\ server' = "up" /\ HandlersApart'
          /\ handler'[h].pc = "reset" /\ handler'[h].users = {u}
          /\ \A g \in Handler \ {h} : handler'[g] = handler[g]
          /\ \A g \in Handler \ {h} : u \in handler[g].users => u \in overlapped
      BY <2>b, <3>1
    <3>3. u \notin overlapped => settledRows[u] = 0
      BY <3>1 DEF RowsInv, FoundStill
    <3>4. /\ settledRows'[u] = settledRows[u] + 1 /\ settledRows'[u] > 0
          /\ \A v \in User \ {u} : settledRows'[v] = settledRows[v]
      <4>1. settledRows[u] \in Nat
        BY <1>b
      <4>2. settledRows'[u] = settledRows[u] + 1
        BY <3>1, <1>b
      <4>3. \A v \in User \ {u} : settledRows'[v] = settledRows[v]
        BY <3>1, <1>b
      <4> QED
        BY <4>1, <4>2, <4>3
    <3>5. \A g \in Handler : handler[g].users \subseteq User
      BY <1>b DEF Handling, TypeOK, RowsOk
    <3>6. ASSUME NEW g \in Handler PROVE FoundStill(g)'
      <4>1. CASE g = h
        BY <4>1, <3>1, <3>2, <3>4 DEF FoundStill
      <4>2. CASE g # h
        <5>1. FoundStill(g) /\ handler'[g] = handler[g]
              /\ (u \in handler[g].users => u \in overlapped)
          BY <4>2, <3>2 DEF RowsInv
        <5> QED
          BY <5>1, <3>1, <3>4, <3>5 DEF FoundStill
      <4> QED
        BY <4>1, <4>2
    <3>7. OneRowEach'
      <4>1. ASSUME NEW v \in User \ overlapped PROVE quotaRows'[v] <= 1 /\ settledRows'[v] <= 1
        <5>1. quotaRows[v] <= 1 /\ settledRows[v] <= 1
          BY DEF RowsInv, OneRowEach
        <5>2. CASE v = u
          <6>1. settledRows'[v] = 1
            BY <5>2, <3>3, <3>4
          <6>2. quotaRows'[v] = quotaRows[v]
            BY <3>1
          <6> QED
            BY <5>1, <6>1, <6>2
        <5>3. CASE v # u
          BY <5>1, <5>3, <3>1, <3>4
        <5> QED
          BY <5>2, <5>3
      <4> QED
        BY <4>1, <3>1 DEF OneRowEach
    <3> QED
      BY <3>2, <3>6, <3>7 DEF RowsInv
  <2>4. ASSUME NEW u \in User, ResetQuotaOnUserCreated(h, u) PROVE RowsInv'
    BY <2>4, <1>c DEF ResetQuotaOnUserCreated, rows
  <2> QED
    BY <1>12, <2>1, <2>2, <2>3, <2>4 DEF Create
<1>13. ASSUME NEW u \in User, Settle(u) PROVE RowsInv'
  BY <1>3, <1>7, <1>13 DEF Settle
<1> QED
  BY <1>1, <1>2, <1>4, <1>5, <1>8, <1>9, <1>10, <1>11, <1>12, <1>13 DEF Next

(* However often UserCreated fails and is called again, and wherever the server is
   started anew, a user has one row of each cost type, unless two calls overlap. *)
THEOREM RowsStaySingle == Spec => []OneRowEach
<1>1. RowsInv => OneRowEach
  BY DEF RowsInv
<1> QED
  BY InitRowsInv, NextRowsInv, GatewayTypeCorrect, <1>1, PTL DEF Spec
-----------------------------------------------------------------------------
(* The calls that are counted, and the panics. *)
LEMMA InitCountInv == Init => CountInv
<1> SUFFICES ASSUME Init PROVE CountInv
  OBVIOUS
<1>1. \A u \in User : \A c \in CostType : count[u][c] = 0
  BY DEF Init
<1>2. \A u \in Old : settledRows[u] = 1
  BY GatewayAssumption DEF Init
<1> QED
  BY <1>1, <1>2 DEF Init, CountInv, HasQuotaRow, NoRefresh

(* Rows are never deleted, and made for users. *)
Grow(u) ==
  /\ quotaRows[u] <= quotaRows'[u] /\ settledRows[u] <= settledRows'[u]
  /\ quotaRows'[u] > 0 => quotaRows[u] > 0 \/ u \in users
Grown == users \subseteq users' /\ \A u \in User : Grow(u)

LEMMA RowsGrow == TypeOK /\ [Next]_vars => Grown
<1> SUFFICES ASSUME TypeOK, [Next]_vars PROVE Grown
  OBVIOUS
<1>a. quotaRows \in [User -> Nat] /\ settledRows \in [User -> Nat]
  BY DEF TypeOK, RowsOk
<1>b. ASSUME users \subseteq users', UNCHANGED <<quotaRows, settledRows>> PROVE Grown
  BY <1>a, <1>b DEF Grown, Grow
<1>c. ASSUME NEW h \in Handler, NEW u \in User, InsertQuota(h, u) PROVE Grown
  <2>1. UNCHANGED <<users, settledRows>> /\ quotaRows' = [quotaRows EXCEPT ![u] = @ + 1]
    BY <1>c DEF InsertQuota
  <2>2. handler[h].users = {u}
    BY <1>c, FieldsOf DEF InsertQuota
  <2>3. handler[h] \in Handling
    BY DEF TypeOK, ServerOk
  <2>4. u \in users
    BY <2>2, <2>3 DEF Handling
  <2>5. /\ quotaRows'[u] = quotaRows[u] + 1 /\ \A v \in User \ {u} : quotaRows'[v] = quotaRows[v]
        /\ quotaRows[u] \in Nat /\ \A v \in User : quotaRows[v] \in Nat /\ settledRows[v] \in Nat
    BY <1>a, <2>1
  <2>6. ASSUME NEW v \in User PROVE Grow(v)
    <3>1. CASE v = u
      BY <3>1, <2>1, <2>4, <2>5 DEF Grow
    <3>2. CASE v # u
      BY <3>2, <2>1, <2>5 DEF Grow
    <3> QED
      BY <3>1, <3>2
  <2> QED
    BY <2>1, <2>6 DEF Grown
<1>d. ASSUME NEW h \in Handler, NEW u \in User, InsertSettled(h, u) PROVE Grown
  <2>1. UNCHANGED <<users, quotaRows>> /\ settledRows' = [settledRows EXCEPT ![u] = @ + 1]
    BY <1>d DEF InsertSettled
  <2>2. /\ settledRows'[u] = settledRows[u] + 1
        /\ \A v \in User \ {u} : settledRows'[v] = settledRows[v]
        /\ \A v \in User : quotaRows[v] \in Nat /\ settledRows[v] \in Nat
    BY <1>a, <2>1
  <2>3. ASSUME NEW v \in User PROVE Grow(v)
    <3>1. CASE v = u
      BY <3>1, <2>1, <2>2 DEF Grow
    <3>2. CASE v # u
      BY <3>2, <2>1, <2>2 DEF Grow
    <3> QED
      BY <3>1, <3>2
  <2> QED
    BY <2>1, <2>3 DEF Grown
<1>1. CASE Start
  <2>1. /\ UNCHANGED users
        /\ \/ settledRows' = WithRow(settledRows, users) /\ UNCHANGED quotaRows
           \/ quotaRows' = WithRow(quotaRows, users) /\ UNCHANGED settledRows
    BY <1>1 DEF Start, InitUserSettleds, InitUserApiQuota
  <2>2. ASSUME NEW u \in User PROVE Grow(u)
    <3>1. /\ settledRows[u] <= WithRow(settledRows, users)[u]
          /\ quotaRows[u] <= WithRow(quotaRows, users)[u]
      BY <1>a, RowAdded
    <3>2. WithRow(quotaRows, users)[u] = quotaRows[u] \/ u \in users
      BY DEF WithRow
    <3>3. quotaRows[u] \in Nat /\ settledRows[u] \in Nat
      BY <1>a
    <3> QED
      BY <2>1, <3>1, <3>2, <3>3 DEF Grow
  <2> QED
    BY <2>1, <2>2 DEF Grown
<1>2. CASE Refresh \/ RefreshFails
  BY <1>2, <1>b DEF Refresh, RefreshStart, RefreshUser, RefreshNoPrice, RefreshFails, Return, rows
<1>3. ASSUME NEW u \in User, DepositBalance(u) \/ CreateUser(u) PROVE Grown
  BY <1>3, <1>b DEF DepositBalance, CreateUser, history, rows
<1>4. ASSUME NEW u \in User, Settle(u) PROVE Grown
  BY <1>4, <1>b DEF Settle, SettleKey, SettlePanics, Die, rows
<1>5. ASSUME NEW u \in User, NEW c \in CostType, ApiCall(u, c) PROVE Grown
  BY <1>5, <1>b DEF ApiCall, rows
<1>6. ASSUME NEW h \in Handler, NEW u \in User, UserCreated(h, u) PROVE Grown
  BY <1>6, <1>b DEF UserCreated, rows
<1>7. ASSUME NEW h \in Handler, Create(h) PROVE Grown
  BY <1>7, <1>b, <1>c, <1>d DEF Create, FindSettled, ResetQuotaOnUserCreated, rows
<1>8. ASSUME NEW h \in Handler, HandlerFails(h) PROVE Grown
  BY <1>8, <1>b DEF HandlerFails, rows
<1>9. CASE Crash
  BY <1>9, <1>b DEF Crash, Die, rows
<1>10. CASE UNCHANGED vars
  BY <1>10, <1>b DEF vars, rows
<1> QED
  BY <1>1, <1>2, <1>3, <1>4, <1>5, <1>6, <1>7, <1>8, <1>9, <1>10 DEF Next

(* A flag is set to what the refresh has calculated for its user. *)
FlagChange(u) ==
  \/ flag'[u] = flag[u]
  \/ u \in refresh.todo /\ flag'[u] = refresh.flags[u].value
FoundChange(u) ==
  \/ u \in refresh.todo /\ refresh'.flags[u] = refresh.flags[u]
  \/ refresh'.flags[u] = CalcRichFlag(u)

FlagsChange ==
  /\ \A u \in User : FlagChange(u)
  /\ \A u \in refresh'.todo : FoundChange(u)

LEMMA FlagSteps == TypeOK /\ [Next]_vars => FlagsChange
<1> SUFFICES ASSUME TypeOK, [Next]_vars PROVE FlagsChange
  OBVIOUS
<1>a. ASSUME UNCHANGED <<flag, refresh>> PROVE FlagsChange
  BY <1>a DEF FlagsChange, FlagChange, FoundChange
<1>b. ASSUME UNCHANGED flag, refresh' = NoRefresh PROVE FlagsChange
  BY <1>b DEF FlagsChange, FlagChange, NoRefresh
<1>1. CASE RefreshStart
  <2>1. UNCHANGED flag /\ refresh' = [flags |-> [u \in users |-> CalcRichFlag(u)], todo |-> users]
    BY <1>1 DEF RefreshStart
  <2> QED
    BY <2>1 DEF FlagsChange, FlagChange, FoundChange
<1>2. ASSUME NEW u \in User, RefreshUser(u) PROVE FlagsChange
  <2> DEFINE left == refresh.todo \ {u}
  <2>1. /\ u \in refresh.todo /\ flag' = [flag EXCEPT ![u] = refresh.flags[u].value]
        /\ refresh' = IF left = {} THEN NoRefresh ELSE [refresh EXCEPT !.todo = left]
    BY <1>2 DEF RefreshUser, Set
  <2>2. \A v \in User : FlagChange(v)
    BY <2>1 DEF FlagChange, TypeOK, FlagsOk
  <2>3. \A v \in refresh'.todo : v \in refresh.todo /\ refresh'.flags[v] = refresh.flags[v]
    BY <2>1 DEF TypeOK, RefreshOk, NoRefresh
  <2> QED
    BY <2>2, <2>3 DEF FlagsChange, FoundChange
<1>3. ASSUME Return PROVE FlagsChange
  BY <1>3, <1>b DEF Return
<1>4. ASSUME Die PROVE FlagsChange
  BY <1>4, <1>b DEF Die
<1>5. CASE Start
  BY <1>5, <1>a DEF Start, InitUserSettleds, InitUserApiQuota
<1>6. ASSUME NEW u \in User, DepositBalance(u) \/ CreateUser(u) PROVE FlagsChange
  BY <1>6, <1>a DEF DepositBalance, CreateUser
<1>7. ASSUME NEW u \in User, Settle(u) PROVE FlagsChange
  BY <1>4, <1>7, <1>a DEF Settle, SettleKey, SettlePanics
<1>8. ASSUME NEW u \in User, NEW c \in CostType, ApiCall(u, c) PROVE FlagsChange
  BY <1>8, <1>a DEF ApiCall
<1>9. ASSUME NEW h \in Handler, NEW u \in User, UserCreated(h, u) PROVE FlagsChange
  BY <1>9, <1>a DEF UserCreated
<1>10. ASSUME NEW h \in Handler, Create(h) PROVE FlagsChange
  BY <1>10, <1>a DEF Create, InsertQuota, FindSettled, InsertSettled, ResetQuotaOnUserCreated
<1>11. ASSUME NEW h \in Handler, HandlerFails(h) PROVE FlagsChange
  BY <1>11, <1>a DEF HandlerFails
<1>12. CASE UNCHANGED vars
  BY <1>12, <1>a DEF vars
<1> QED
  BY <1>1, <1>2, <1>3, <1>4, <1>5, <1>6, <1>7, <1>8, <1>9, <1>10, <1>11, <1>12
  DEF Next, Refresh, RefreshNoPrice, RefreshFails, Crash

(* The gateway counts a call if the flag says so; nobody else adds to a count. *)
CountChange(u, c) == count'[u][c] <= count[u][c] \/ c \in flag[u]
CountsChange == \A u \in User : \A c \in CostType : CountChange(u, c)

LEMMA CountSteps == TypeOK /\ [Next]_vars => CountsChange
<1> SUFFICES ASSUME TypeOK, [Next]_vars PROVE CountsChange
  OBVIOUS
<1>a. \A u \in User : \A c \in CostType : count[u][c] \in Nat
  BY DEF TypeOK, MoneyOk
<1>b. count \in [User -> [CostType -> Nat]]
  BY DEF TypeOK, MoneyOk
<1>c. ASSUME UNCHANGED count PROVE CountsChange
  BY <1>a, <1>c DEF CountsChange, CountChange
<1>d. ASSUME NEW u \in User, NEW c \in CostType, NEW n, count' = [count EXCEPT ![u][c] = n],
             n <= count[u][c] \/ c \in flag[u]
      PROVE  CountsChange
  <2>1. ASSUME NEW v \in User, NEW k \in CostType PROVE CountChange(v, k)
    <3>1. count'[v][k] = IF v = u /\ k = c THEN n ELSE count[v][k]
      BY <1>b, <1>d
    <3> QED
      BY <1>a, <1>d, <3>1 DEF CountChange
  <2> QED
    BY <2>1 DEF CountsChange
<1>1. CASE Refresh \/ RefreshFails
  BY <1>1, <1>c DEF Refresh, RefreshStart, RefreshUser, RefreshNoPrice, RefreshFails, Return, money
<1>2. CASE Start
  BY <1>2, <1>c DEF Start, InitUserSettleds, InitUserApiQuota, money
<1>3. ASSUME NEW u \in User, DepositBalance(u) \/ CreateUser(u) PROVE CountsChange
  BY <1>3, <1>c DEF DepositBalance, CreateUser, money
<1>4. ASSUME NEW u \in User, NEW c \in CostType, SettleKey(u, c) PROVE CountsChange
  <2>1. count[u][c] \in Nat /\ Due(u, c) \in Nat
    BY <1>a, DueThere DEF Due
  <2>2. count[u][c] - Due(u, c) <= count[u][c]
    BY <2>1
  <2>3. count' = [count EXCEPT ![u][c] = count[u][c] - Due(u, c)]
    BY <1>4 DEF SettleKey
  <2> QED
    BY <2>2, <2>3, <1>d
<1>5. ASSUME NEW u \in User, NEW c \in CostType, SettlePanics(u, c) PROVE CountsChange
  BY <1>5, <1>c DEF SettlePanics, Die, money
<1>6. ASSUME NEW u \in User, NEW c \in CostType, ApiCall(u, c) PROVE CountsChange
  <2>1. c \in flag[u] /\ count' = [count EXCEPT ![u][c] = count[u][c] + 1]
    BY <1>6 DEF ApiCall
  <2> QED
    BY <2>1, <1>d
<1>7. ASSUME NEW h \in Handler, NEW u \in User, UserCreated(h, u) PROVE CountsChange
  BY <1>7, <1>c DEF UserCreated, money
<1>8. ASSUME NEW h \in Handler, Create(h) PROVE CountsChange
  BY <1>8, <1>c
  DEF Create, InsertQuota, FindSettled, InsertSettled, ResetQuotaOnUserCreated, money
<1>9. ASSUME NEW h \in Handler, HandlerFails(h) PROVE CountsChange
  BY <1>9, <1>c DEF HandlerFails, money
<1>10. CASE Crash
  BY <1>10, <1>c DEF Crash, Die, money
<1>11. CASE UNCHANGED vars
  BY <1>11, <1>c DEF vars, money
<1>12. ASSUME NEW u \in User, Settle(u) PROVE CountsChange
  BY <1>4, <1>5, <1>12 DEF Settle
<1> QED
  BY <1>1, <1>2, <1>3, <1>6, <1>7, <1>8, <1>9, <1>10, <1>11, <1>12 DEF Next

(* UserCreated is answered when the rows are there; a panic comes over a counted call of
   a user without a row, and puts the server down; a start ends with rows for all. *)
PanicOver(u) ==
  /\ panics'[u] = panics[u] + 1 /\ settledRows[u] = 0
  /\ server = "up" /\ server' = "down"
  /\ \E c \in CostType : count[u][c] > 0
PanicsChange ==
  /\ \A u \in created' : u \in created \/ settledRows[u] > 0
  /\ \A u \in User : panics'[u] = panics[u] \/ PanicOver(u)
  /\ \/ server # "down" \/ server' = "down"
     \/ \A u \in users : u \in User => settledRows'[u] > 0

LEMMA PanicSteps == TypeOK /\ RowsInv /\ [Next]_vars => PanicsChange
<1> SUFFICES ASSUME TypeOK, RowsInv, [Next]_vars PROVE PanicsChange
  OBVIOUS
<1>a. ASSUME UNCHANGED <<created, panics, server>> PROVE PanicsChange
  BY <1>a DEF PanicsChange
<1>1. CASE Refresh \/ RefreshFails
  BY <1>1, <1>a DEF Refresh, RefreshStart, RefreshUser, RefreshNoPrice, RefreshFails, Return
<1>2. CASE InitUserSettleds
  <2>1. UNCHANGED <<created, panics>> /\ settledRows' = WithRow(settledRows, users)
    BY <1>2 DEF InitUserSettleds, history
  <2>2. settledRows \in [User -> Nat]
    BY DEF TypeOK, RowsOk
  <2>3. \A u \in users : u \in User => settledRows'[u] > 0
    BY <2>1, <2>2, RowAdded
  <2> QED
    BY <2>1, <2>3 DEF PanicsChange
<1>3. CASE InitUserApiQuota
  <2>1. UNCHANGED <<created, panics>> /\ server = "models"
    BY <1>3 DEF InitUserApiQuota, history
  <2> QED
    BY <2>1 DEF PanicsChange
<1>4. ASSUME NEW u \in User, DepositBalance(u) \/ CreateUser(u) PROVE PanicsChange
  BY <1>4, <1>a DEF DepositBalance, CreateUser, history
<1>5. ASSUME NEW u \in User, NEW c \in CostType, SettleKey(u, c) PROVE PanicsChange
  BY <1>5, <1>a DEF SettleKey
<1>6. ASSUME NEW u \in User, NEW c \in CostType, SettlePanics(u, c) PROVE PanicsChange
  <2>1. /\ Due(u, c) > 0 /\ settledRows[u] = 0 /\ server = "up" /\ server' = "down"
        /\ panics' = [panics EXCEPT ![u] = @ + 1] /\ created' = created
    BY <1>6 DEF SettlePanics, Die
  <2>2. /\ panics'[u] = panics[u] + 1 /\ \A v \in User \ {u} : panics'[v] = panics[v]
    BY <2>1 DEF TypeOK, ServerOk
  <2>3. count[u][c] > 0
    <3>1. Due(u, c) <= count[u][c] /\ Due(u, c) \in Nat /\ count[u][c] \in Nat
      BY DueThere DEF Due, TypeOK, MoneyOk
    <3> QED
      BY <2>1, <3>1
  <2>4. PanicOver(u)
    BY <2>1, <2>2, <2>3 DEF PanicOver
  <2> QED
    BY <2>1, <2>2, <2>4 DEF PanicsChange
<1>7. ASSUME NEW u \in User, NEW c \in CostType, ApiCall(u, c) PROVE PanicsChange
  BY <1>7, <1>a DEF ApiCall, history
<1>8. ASSUME NEW h \in Handler, NEW u \in User, UserCreated(h, u) PROVE PanicsChange
  BY <1>8, <1>a DEF UserCreated
<1>9. ASSUME NEW h \in Handler, NEW u \in User, ResetQuotaOnUserCreated(h, u)
      PROVE  PanicsChange
  <2>1. /\ UNCHANGED <<panics, server>> /\ created' = created \cup {u}
        /\ handler[h] = [pc |-> "reset", users |-> {u}]
    BY <1>9 DEF ResetQuotaOnUserCreated
  <2>2. handler[h].pc = "reset" /\ handler[h].users = {u}
    BY <2>1, FieldsOf
  <2>3. settledRows[u] > 0
    BY <2>2 DEF RowsInv, FoundStill
  <2> QED
    BY <2>1, <2>3 DEF PanicsChange
<1>10. ASSUME NEW h \in Handler, Create(h) PROVE PanicsChange
  BY <1>9, <1>10, <1>a DEF Create, InsertQuota, FindSettled, InsertSettled, history
<1>11. ASSUME NEW h \in Handler, HandlerFails(h) PROVE PanicsChange
  BY <1>11, <1>a DEF HandlerFails, history
<1>12. CASE Crash
  <2>1. UNCHANGED <<created, panics>> /\ server' = "down"
    BY <1>12 DEF Crash, Die
  <2> QED
    BY <2>1 DEF PanicsChange
<1>13. CASE UNCHANGED vars
  BY <1>13, <1>a DEF vars, history
<1>14. ASSUME NEW u \in User, Settle(u) PROVE PanicsChange
  BY <1>5, <1>6, <1>14 DEF Settle
<1> QED
  BY <1>1, <1>2, <1>3, <1>4, <1>7, <1>8, <1>10, <1>11, <1>12, <1>13, <1>14 DEF Next, Start

LEMMA NextCountInv == TypeOK /\ RowsInv /\ CountInv /\ [Next]_vars => CountInv'
<1> SUFFICES ASSUME TypeOK, RowsInv, CountInv, [Next]_vars PROVE CountInv'
  OBVIOUS
<1>1. Grown /\ FlagsChange /\ CountsChange /\ PanicsChange /\ TypeOK'
  BY RowsGrow, FlagSteps, CountSteps, PanicSteps, NextTypeOK
<1>2. \A u \in User : /\ quotaRows[u] \in Nat /\ quotaRows'[u] \in Nat
                      /\ settledRows[u] \in Nat /\ settledRows'[u] \in Nat
                      /\ panics[u] \in Nat /\ panics'[u] \in Nat
  BY <1>1 DEF TypeOK, RowsOk, ServerOk
<1>3. \A u \in User : /\ HasQuotaRow(u) => HasQuotaRow(u)'
                      /\ settledRows[u] > 0 => settledRows'[u] > 0
  BY <1>1, <1>2 DEF Grown, Grow, HasQuotaRow
<1>4. \A u \in User : HasQuotaRow(u)' => u \in users'
  BY <1>1 DEF Grown, Grow, HasQuotaRow, CountInv
<1>5. ASSUME NEW u \in User, flag'[u] # {} PROVE HasQuotaRow(u)'
  <2>1. HasQuotaRow(u)
    BY <1>1, <1>5 DEF FlagsChange, FlagChange, CountInv
  <2> QED
    BY <1>3, <2>1
<1>6. ASSUME NEW u \in refresh'.todo, refresh'.flags[u].value # {} PROVE HasQuotaRow(u)'
  <2>1. u \in User
    BY <1>1 DEF TypeOK, RefreshOk, RowsOk
  <2>2. CASE u \in refresh.todo /\ refresh'.flags[u] = refresh.flags[u]
    BY <1>3, <1>6, <2>1, <2>2 DEF CountInv
  <2>3. CASE refresh'.flags[u] = CalcRichFlag(u)
    <3>1. CalcRichFlag(u).value # {}
      BY <1>6, <2>3
    <3>2. quotaRows[u] # 0
      BY <3>1 DEF CalcRichFlag
    <3> QED
      BY <1>2, <1>3, <2>1, <3>2 DEF HasQuotaRow
  <2> QED
    BY <1>1, <2>2, <2>3 DEF FlagsChange, FoundChange
<1>7. ASSUME NEW u \in User, NEW c \in CostType, count'[u][c] > 0 PROVE HasQuotaRow(u)'
  <2>1. count[u][c] \in Nat /\ count'[u][c] \in Nat
    BY <1>1 DEF TypeOK, MoneyOk
  <2>2. CASE count'[u][c] <= count[u][c]
    <3>1. count[u][c] > 0
      BY <1>7, <2>1, <2>2
    <3> QED
      BY <1>3, <3>1 DEF CountInv
  <2>3. CASE c \in flag[u]
    BY <1>3, <2>3 DEF CountInv
  <2> QED
    BY <1>1, <2>2, <2>3 DEF CountsChange, CountChange
<1>8. ASSUME NEW u \in created' PROVE settledRows'[u] > 0
  <2>1. u \in User
    BY <1>1 DEF TypeOK, RowsOk
  <2>2. settledRows[u] > 0
    BY <1>1 DEF PanicsChange, CountInv
  <2> QED
    BY <1>3, <2>1, <2>2
<1>9. ASSUME NEW u \in User, panics'[u] > 0
      PROVE  panics'[u] = 1 /\ u \in users' /\ (settledRows'[u] > 0 \/ server' = "down")
  <2>1. CASE panics'[u] = panics[u]
    <3>1. panics[u] = 1 /\ u \in users /\ (settledRows[u] > 0 \/ server = "down")
      BY <1>9, <2>1 DEF CountInv
    <3>2. settledRows'[u] > 0 \/ server' = "down"
      BY <1>1, <1>3, <3>1 DEF PanicsChange
    <3> QED
      BY <1>1, <2>1, <3>1, <3>2 DEF Grown
  <2>2. CASE PanicOver(u)
    <3>1. HasQuotaRow(u)
      BY <2>2 DEF PanicOver, CountInv
    <3>2. ~(settledRows[u] > 0)
      BY <2>2 DEF PanicOver
    <3>3. ~(panics[u] > 0)
      BY <2>2, <3>2 DEF PanicOver, CountInv
    <3>4. panics'[u] = 1
      BY <1>2, <2>2, <3>3 DEF PanicOver
    <3> QED
      BY <1>3, <1>4, <2>2, <3>1, <3>4 DEF PanicOver
  <2> QED
    BY <1>1, <2>1, <2>2 DEF PanicsChange
<1> QED
  BY <1>4, <1>5, <1>6, <1>7, <1>8, <1>9 DEF CountInv

(* The loop panics over the missing rows of a user at most once, never over one whose
   UserCreated was answered, and never over a quota row. *)
THEOREM PanicsAtMostOnce == Spec => PanicsOnce
<1> DEFINE Once == \A u \in User :
             panics[u] <= 1 /\ \A c \in CostType : count[u][c] > 0 => quotaRows[u] > 0
           Answered == \A u \in User : panics[u] # panics'[u] => u \notin created
<1>1. TypeOK /\ CountInv => Once
  <2> SUFFICES ASSUME TypeOK, CountInv, NEW u \in User
               PROVE  panics[u] <= 1 /\ \A c \in CostType : count[u][c] > 0 => quotaRows[u] > 0
    OBVIOUS
  <2>1. panics[u] \in Nat /\ (panics[u] > 0 => panics[u] = 1)
    BY DEF TypeOK, ServerOk, CountInv
  <2> QED
    BY <2>1 DEF CountInv, HasQuotaRow
<1>2. TypeOK /\ RowsInv /\ CountInv /\ [Next]_vars => [Answered]_vars
  <2> SUFFICES ASSUME TypeOK, RowsInv, CountInv, [Next]_vars, NEW u \in User,
                      panics[u] # panics'[u], u \in created
               PROVE  FALSE
    OBVIOUS
  <2>1. PanicOver(u)
    BY PanicSteps DEF PanicsChange
  <2> QED
    BY <2>1 DEF PanicOver, CountInv
<1> HIDE DEF Once, Answered
<1>3. Spec => []Once /\ [][Answered]_vars
  BY InitRowsInv, NextRowsInv, InitCountInv, NextCountInv, GatewayTypeCorrect, <1>1, <1>2, PTL
  DEF Spec
<1> QED
  BY <1>3 DEF PanicsOnce, Once, Answered
-----------------------------------------------------------------------------
(* Rows that have been committed and rows that have not are different ones, numbered in
   the order of their insertion; a row that has not been committed is the only one of its
   user and behind the others. *)
Entry ==
  [id : Nat \ {0}, user : Owner, type : Columns, amount : Int, of : Nat, at : Nat, balance : Int]
EntriesOk ==
  /\ logs \cup open \subseteq Entry /\ IsFiniteSet(logs) /\ IsFiniteSet(open)
  /\ logs \cap open = {} /\ UniqueIds(logs \cup open)
  /\ \A l \in logs \cup open : l.id < NextId /\ l.at <= now
  /\ now \in Nat
OpenLast ==
  /\ \A o \in open : \A l \in logs : l.user = o.user => l.at <= o.at /\ l.id < o.id
  /\ \A o, p \in open : o.user = p.user => o = p

(* The balance of a row adds up the history of its user up to this row. *)
Precedes(m, l) == m.at < l.at \/ (m.at = l.at /\ m.id <= l.id)
History(l) == {m \in LogsOf(l.user) : Precedes(m, l)}
BalancesOk ==
  /\ \A l \in logs : l.balance = AmountIn(History(l))
  /\ \A o \in open : o.balance = AmountIn(LogsOf(o.user)) + o.amount

(* What a statement has read of a user without later rows is what it would read now, unless
   a read of his that is not checked has failed. *)
Statements ==
  [kind : {"changes"}, pc : {"summary", "start", "starts", "end", "ends", "done"},
   s : Nat, e : Nat, types : Filters, users : SUBSET Owner, sum : [Owner -> Int],
   max : [Owner -> Nat], todo : SUBSET Owner, start : [Owner -> Int], end : [Owner -> Int],
   lost : SUBSET Owner, late : SUBSET Owner]
Period(u) == {l \in LogsOf(u) : Within(l, q.s, q.e)}
LastTime(u, t) == Max({0} \cup {l.at : l \in Until(u, t)})
Reading(u, t, read) ==
  IF u \in q.todo THEN Until(u, t) # {} /\ q.max[u] = LastTime(u, t)
                  ELSE read = AmountIn(Until(u, t))
StatementOk(u) ==
  /\ q.pc # "summary" /\ q.types = {} => q.sum[u] = AmountIn(Period(u))
  /\ q.pc \in {"summary", "start"} => q.start[u] = 0
  /\ q.pc = "starts" => Reading(u, q.s, q.start[u])
  /\ q.pc \in {"end", "ends", "done"} => q.start[u] = AmountIn(Until(u, q.s))
  /\ q.pc \in {"summary", "start", "starts", "end"} => q.end[u] = 0
  /\ q.pc = "ends" => Reading(u, q.e, q.end[u])
  /\ q.pc = "done" => q.end[u] = AmountIn(Until(u, q.e))
TimeThere(u, t) == \E l \in LogsOf(u) : l.at = t
StatementInv ==
  q.kind = "changes" =>
    /\ q \in Statements /\ q.s < q.e
    /\ \A u \in q.lost : ~Checked(q.users, u)
    /\ \A u \in q.todo : TimeThere(u, q.max[u])
    /\ \A u \in q.users \ q.late : u \in q.lost \/ StatementOk(u)

(* A purchase that was astray when the search began is there, was not found to be
   refunded, and is among the found ones if it is astray still. *)
Searches ==
  [kind : {"strays"}, pc : {"candidates", "match", "done"}, s : Nat, e : Nat,
   refunded : SUBSET Nat, found : SUBSET Nat, before : SUBSET Entry]
SearchInv ==
  q.kind = "strays" =>
    /\ q \in Searches
    /\ \A b \in q.before :
         /\ \E p \in Purchases(q.s, q.e) : p.id = b.id
         /\ b.id \notin q.refunded
         /\ q.pc # "candidates" /\ q.refunded # {} /\ Stray(b) => b.id \in q.found

(* A row that has not been shown has as many before it as have been passed over. *)
Walks ==
  [kind : Listing, pc : {"page", "done"}, user : Owner, offset : Nat, shown : SUBSET Nat,
   before : SUBSET Nat]
Rank(l) == Cardinality({m \in Seen(q.user) : Before(q.kind, m, l)})
Awaited(i) ==
  \E l \in Seen(q.user) :
    /\ l.id = i
    /\ i \in q.shown \/ (q.kind = "details" /\ Tied(i)) \/ (q.pc = "page" /\ Rank(l) >= q.offset)
WalkInv == q.kind \in Listing => q \in Walks /\ \A i \in q.before : Awaited(i)

TablesOk == EntriesOk /\ OpenLast /\ BalancesOk
ReportsInv == TablesOk /\ StatementInv /\ SearchInv /\ WalkInv
-----------------------------------------------------------------------------
LEMMA AmountType ==
  ASSUME NEW S, IsFiniteSet(S), \A r \in S : r.amount \in Int
  PROVE  AmountIn(S) \in Int
<1> DEFINE f == [r \in S |-> r.amount]
<1>1. \A r \in S : f[r] \in Int
  OBVIOUS
<1>2. AmountIn(S) = SumFunctionOnSet(f, S)
  BY DEF AmountIn
<1> HIDE DEF f
<1> QED
  BY <1>1, <1>2, SumInt

LEMMA AmountNone == AmountIn({}) = 0
BY SumEmpty DEF AmountIn

LEMMA AmountUnion ==
  ASSUME NEW S, IsFiniteSet(S), NEW R, IsFiniteSet(R), S \cap R = {},
         \A r \in S \cup R : r.amount \in Int
  PROVE  AmountIn(S \cup R) = AmountIn(S) + AmountIn(R)
<1> DEFINE f == [r \in S \cup R |-> r.amount]
           g == [r \in S |-> r.amount]
           h == [r \in R |-> r.amount]
<1>1. /\ \A r \in S \cup R : f[r] \in Int
      /\ \A r \in S : f[r] = g[r]
      /\ \A r \in R : f[r] = h[r]
  OBVIOUS
<1>2. /\ AmountIn(S \cup R) = SumFunctionOnSet(f, S \cup R)
      /\ AmountIn(S) = SumFunctionOnSet(g, S) /\ AmountIn(R) = SumFunctionOnSet(h, R)
  BY DEF AmountIn
<1> HIDE DEF f, g, h
<1>3. SumFunctionOnSet(f, S \cup R) = SumFunctionOnSet(f, S) + SumFunctionOnSet(f, R)
  BY <1>1, SumUnion
<1>4. SumFunctionOnSet(f, S) = SumFunctionOnSet(g, S)
  BY <1>1, SumSame
<1>5. SumFunctionOnSet(f, R) = SumFunctionOnSet(h, R)
  BY <1>1, SumSame
<1> QED
  BY <1>2, <1>3, <1>4, <1>5

LEMMA AmountOne ==
  ASSUME NEW r, r.amount \in Int
  PROVE  AmountIn({r}) = r.amount
<1> DEFINE f == [x \in {r} |-> x.amount]
<1>1. f[r] = r.amount /\ AmountIn({r}) = SumFunctionOnSet(f, {r})
  BY DEF AmountIn
<1> HIDE DEF f
<1> QED
  BY <1>1, SumSingle

LEMMA AmountById ==
  ASSUME NEW S, IsFiniteSet(S), NEW R, UniqueIds(S), UniqueIds(R), SameIds(S, R),
         \A x \in S : x.amount \in Int, \A x \in S, y \in R : x.id = y.id => x.amount = y.amount
  PROVE  IsFiniteSet(R) /\ AmountIn(R) = AmountIn(S)
<1> DEFINE f == [x \in S |-> x.amount]
           h == [x \in R |-> x.amount]
<1>1. /\ \A x \in S : f[x] \in Int
      /\ \A x \in S, y \in R : x.id = y.id => f[x] = h[y]
  OBVIOUS
<1>2. AmountIn(S) = SumFunctionOnSet(f, S) /\ AmountIn(R) = SumFunctionOnSet(h, R)
  BY DEF AmountIn
<1> HIDE DEF f, h
<1> QED
  BY <1>1, <1>2, SumById

-----------------------------------------------------------------------------
(* Adding by hand changes balances only. *)
Kept(l, m) ==
  l.id = m.id /\ l.user = m.user /\ l.type = m.type /\ l.amount = m.amount /\ l.of = m.of
  /\ l.at = m.at
Twins(A, B) == (\A a \in A : \E b \in B : Kept(a, b)) /\ (\A b \in B : \E a \in A : Kept(a, b))

LEMMA TwinsAmount ==
  ASSUME NEW A, NEW B, IsFiniteSet(A), A \subseteq Entry, UniqueIds(A), UniqueIds(B), Twins(A, B)
  PROVE  IsFiniteSet(B) /\ AmountIn(B) = AmountIn(A) /\ AmountIn(A) \in Int
<1>1. SameIds(A, B)
  BY DEF SameIds, Twins, Kept
<1>2. \A x \in A : x.amount \in Int
  BY DEF Entry
<1>3. \A x \in A, y \in B : x.id = y.id => x.amount = y.amount
  BY DEF Twins, Kept, UniqueIds
<1>4. IsFiniteSet(B) /\ AmountIn(B) = AmountIn(A)
  BY <1>1, <1>2, <1>3, AmountById
<1> QED
  BY <1>2, <1>4, AmountType

LEMMA NextIdType ==
  ASSUME EntriesOk
  PROVE  IsFiniteSet(logs \cup open) /\ NextId \in Nat \ {0}
<1>1. IsFiniteSet(logs \cup open)
  BY FS_Union DEF EntriesOk
<1> QED
  BY <1>1, FS_CardinalityType DEF NextId

(* Any part of the logs has an amount. *)
LEMMA PartAmount ==
  ASSUME EntriesOk, NEW A \in SUBSET logs
  PROVE  IsFiniteSet(A) /\ A \subseteq Entry /\ UniqueIds(A) /\ AmountIn(A) \in Int
<1>1. IsFiniteSet(A)
  BY FS_Subset DEF EntriesOk
<1>2. A \subseteq Entry /\ UniqueIds(A)
  BY DEF EntriesOk, UniqueIds
<1>3. \A x \in A : x.amount \in Int
  BY <1>2 DEF Entry
<1> QED
  BY <1>1, <1>2, <1>3, AmountType

LEMMA RowType ==
  ASSUME EntriesOk, NEW u \in Owner, NEW type \in Columns, NEW amount \in Int, NEW of \in Nat,
         NEW t \in Nat
  PROVE  /\ Row(u, type, amount, of, t) \in Entry
         /\ Row(u, type, amount, of, t).id = NextId
         /\ Row(u, type, amount, of, t).user = u
         /\ Row(u, type, amount, of, t).type = type
         /\ Row(u, type, amount, of, t).amount = amount
         /\ Row(u, type, amount, of, t).of = of
         /\ Row(u, type, amount, of, t).at = t
         /\ Row(u, type, amount, of, t).balance = AmountIn(Until(u, t)) + amount
<1>1. Until(u, t) \in SUBSET logs
  BY DEF Until, LogsOf
<1>2. AmountIn(Until(u, t)) \in Int
  BY <1>1, PartAmount
<1> QED
  BY <1>2, NextIdType DEF Row, Entry

(* A row is written. *)
Written(r) ==
  /\ r \in Entry /\ r.id = NextId /\ r.at = now /\ ~Busy(r.user)
  /\ r.balance = AmountIn(LogsOf(r.user)) + r.amount
  /\ open' = open \cup {r}
  /\ UNCHANGED <<logs, now, q>>

LEMMA Writing ==
  ASSUME EntriesOk, NEW u \in Owner, NEW type \in Columns, NEW amount \in Int, NEW of \in Nat,
         ~Busy(u), open' = open \cup {Row(u, type, amount, of, now)}, UNCHANGED <<logs, now, q>>
  PROVE  Written(Row(u, type, amount, of, now))
<1>1. now \in Nat
  BY DEF EntriesOk
<1>2. Until(u, now) = LogsOf(u)
  BY DEF EntriesOk, Until, LogsOf
<1> DEFINE r == Row(u, type, amount, of, now)
<1>3. /\ r \in Entry /\ r.id = NextId /\ r.user = u /\ r.amount = amount /\ r.at = now
      /\ r.balance = AmountIn(LogsOf(u)) + amount
  BY <1>1, <1>2, RowType
<1>4. open' = open \cup {r}
  OBVIOUS
<1> HIDE DEF r
<1>5. Written(r)
  BY <1>3, <1>4 DEF Written
<1> QED
  BY <1>5 DEF r

LEMMA InsertWrites ==
  ASSUME EntriesOk, NEW p \in Postings, Insert(p)
  PROVE  \E r \in Entry : Written(r)
<1>1. p.user \in Owner /\ p.type \in Columns /\ p.amount \in Int
  BY ReportsAssumption
<1>2. Written(Row(p.user, p.type, p.amount, 0, now))
  BY <1>1, Writing DEF Insert
<1> QED
  BY <1>2 DEF Written

LEMMA RefundWrites ==
  ASSUME EntriesOk, NEW b \in logs, RefundSponsor(b)
  PROVE  \E r \in Entry : Written(r)
<1>1. b \in Entry
  BY DEF EntriesOk
<1>2. b.user \in Owner /\ -b.amount \in Int /\ b.id \in Nat /\ "REFUND_SPONSOR" \in Columns
  BY <1>1 DEF Entry, Columns
<1>3. Written(Row(b.user, "REFUND_SPONSOR", -b.amount, b.id, now))
  BY <1>2, Writing DEF RefundSponsor
<1> QED
  BY <1>3 DEF Written

LEMMA WrittenEntries ==
  ASSUME EntriesOk, NEW r, Written(r)
  PROVE  EntriesOk'
<1>1. r \notin logs \cup open
  BY NextIdType DEF EntriesOk, Written
<1>2. IsFiniteSet(open')
  BY FS_AddElement DEF EntriesOk, Written
<1>3. NextId' = NextId + 1
  <2>1. (logs \cup open)' = (logs \cup open) \cup {r}
    BY DEF Written
  <2>2. Cardinality((logs \cup open) \cup {r}) = Cardinality(logs \cup open) + 1
    BY <1>1, NextIdType, FS_AddElement
  <2> QED
    BY <2>1, <2>2 DEF NextId
<1>4. UniqueIds((logs \cup open)')
  BY NextIdType DEF EntriesOk, Written, UniqueIds
<1>5. \A l \in logs' \cup open' : l.id < NextId' /\ l.at <= now'
  BY <1>3, NextIdType DEF EntriesOk, Written, Entry
<1> QED
  BY <1>1, <1>2, <1>4, <1>5 DEF EntriesOk, Written

LEMMA WrittenOthers ==
  ASSUME EntriesOk, OpenLast, BalancesOk, NEW r, Written(r)
  PROVE  OpenLast' /\ BalancesOk'
<1>1. OpenLast'
  <2>1. \A l \in logs : l.at <= r.at /\ l.id < r.id
    BY DEF EntriesOk, Written
  <2>2. \A o \in open : o.user # r.user
    BY DEF Written, Busy
  <2> QED
    BY <2>1, <2>2 DEF OpenLast, Written
<1>2. /\ \A l \in Entry : History(l)' = History(l)
      /\ \A u \in Owner : LogsOf(u)' = LogsOf(u)
  BY DEF History, LogsOf, Precedes, Written
<1>3. BalancesOk'
  <2>1. \A l \in logs' : l.balance = AmountIn(History(l)')
    BY <1>2 DEF BalancesOk, Written, EntriesOk
  <2>2. \A o \in open' : o.balance = AmountIn(LogsOf(o.user)') + o.amount
    <3>1. \A o \in open \cup {r} : o.user \in Owner
      BY DEF EntriesOk, Entry, Written
    <3> QED
      BY <1>2, <3>1 DEF BalancesOk, Written
  <2> QED
    BY <2>1, <2>2 DEF BalancesOk, AmountIn
<1> QED
  BY <1>1, <1>3
LEMMA CommitEntries ==
  ASSUME EntriesOk, NEW o \in open, Commit(o)
  PROVE  EntriesOk'
<1>1. logs' = logs \cup {o} /\ open' = open \ {o} /\ now' = now
  BY DEF Commit
<1>2. (logs \cup open)' = logs \cup open
  BY <1>1
<1>3. NextId' = NextId
  BY <1>2 DEF NextId
<1>4. IsFiniteSet(logs') /\ IsFiniteSet(open')
  BY <1>1, FS_AddElement, FS_Subset DEF EntriesOk
<1>5. logs' \cap open' = {}
  BY <1>1 DEF EntriesOk
<1> QED
  BY <1>1, <1>2, <1>3, <1>4, <1>5 DEF EntriesOk

LEMMA CommitOthers ==
  ASSUME EntriesOk, OpenLast, BalancesOk, NEW o \in open, Commit(o)
  PROVE  OpenLast' /\ BalancesOk'
<1>1. logs' = logs \cup {o} /\ open' = open \ {o}
  BY DEF Commit
<1>2. OpenLast'
  BY <1>1 DEF OpenLast
<1>3. /\ o \in Entry /\ o \notin logs
      /\ \A l \in logs : l.user = o.user => l.at <= o.at /\ l.id < o.id
      /\ \A l \in logs : l \in Entry
  BY DEF EntriesOk, OpenLast
<1>4. ASSUME NEW l \in logs PROVE History(l)' = History(l)
  <2>1. o.user = l.user => ~Precedes(o, l)
    BY <1>3 DEF Precedes, Entry
  <2> QED
    BY <1>1, <2>1 DEF History, LogsOf, Precedes
<1>5. History(o)' = LogsOf(o.user) \cup {o}
  <2>1. Precedes(o, o)
    BY <1>3 DEF Precedes, Entry
  <2>2. \A l \in LogsOf(o.user) : Precedes(l, o)
    BY <1>3 DEF Precedes, Entry, LogsOf
  <2> QED
    BY <1>1, <2>1, <2>2 DEF History, LogsOf, Precedes
<1>6. AmountIn(LogsOf(o.user) \cup {o}) = AmountIn(LogsOf(o.user)) + o.amount
  <2>1. LogsOf(o.user) \in SUBSET logs
    BY DEF LogsOf
  <2>2. IsFiniteSet(LogsOf(o.user)) /\ \A r \in LogsOf(o.user) \cup {o} : r.amount \in Int
    BY <1>3, <2>1, PartAmount DEF Entry
  <2>3. IsFiniteSet({o}) /\ LogsOf(o.user) \cap {o} = {}
    BY <1>3, <2>1, FS_Singleton
  <2>4. AmountIn({o}) = o.amount
    BY <1>3, AmountOne DEF Entry
  <2> QED
    BY <2>2, <2>3, <2>4, AmountUnion
<1>7. \A l \in logs' : l.balance = AmountIn(History(l)')
  BY <1>1, <1>4, <1>5, <1>6 DEF BalancesOk
<1>8. \A p \in open' : p.balance = AmountIn(LogsOf(p.user)') + p.amount
  <2> TAKE p \in open'
  <2>1. p \in open /\ p.user # o.user
    BY <1>1 DEF OpenLast
  <2>2. LogsOf(p.user)' = LogsOf(p.user)
    BY <1>1, <2>1 DEF LogsOf
  <2> QED
    BY <2>1, <2>2 DEF BalancesOk
<1>9. BalancesOk'
  BY <1>7, <1>8 DEF BalancesOk, AmountIn
<1> QED
  BY <1>2, <1>9

(* The logs after a record has been added by hand: the old ones, and the record. *)
HandAdded(old, r) ==
  /\ logs' = old \cup {r} /\ open' = open /\ now' = now
  /\ r \in Entry /\ r.id = NextId /\ r.at < now /\ ~Busy(r.user)
  /\ r.balance = AmountIn(Until(r.user, r.at)) + r.amount
  /\ Twins(logs, old) /\ old \subseteq Entry
  /\ \A l \in logs, m \in old : Kept(l, m) =>
       m.balance = l.balance + IF l.user = r.user /\ l.at > r.at THEN r.amount ELSE 0

LEMMA HandStep ==
  ASSUME EntriesOk, NEW p \in Postings, NEW t \in 1 .. MaxTime, AddByHand(p, t)
  PROVE  \E old \in SUBSET Entry, r \in Entry : HandAdded(old, r) /\ r.user = p.user /\ r.at = t
<1> DEFINE Moved(l) == [l EXCEPT !.balance = @ + IF l.user = p.user /\ l.at > t THEN p.amount ELSE 0]
           old == {Moved(l) : l \in logs}
           r == Row(p.user, p.type, p.amount, 0, t)
<1>1. p.user \in Owner /\ p.type \in Columns /\ p.amount \in Int /\ t \in Nat
  BY ReportsAssumption
<1>2. /\ r \in Entry /\ r.id = NextId /\ r.user = p.user /\ r.amount = p.amount /\ r.at = t
      /\ r.balance = AmountIn(Until(p.user, t)) + p.amount
  BY <1>1, RowType
<1>3. logs' = old \cup {r} /\ open' = open /\ now' = now /\ t < now /\ ~Busy(p.user)
  BY DEF AddByHand
<1>4. \A l \in logs :
        /\ Moved(l) \in Entry /\ Kept(l, Moved(l))
        /\ Moved(l).balance = l.balance + IF l.user = p.user /\ l.at > t THEN p.amount ELSE 0
  BY <1>1 DEF EntriesOk, Entry, Kept
<1>5. old \subseteq Entry /\ Twins(logs, old)
  BY <1>4 DEF Twins
<1>6. \A l \in logs, m \in old : Kept(l, m) =>
        m.balance = l.balance + IF l.user = p.user /\ l.at > t THEN p.amount ELSE 0
  <2> SUFFICES ASSUME NEW l \in logs, NEW k \in logs, Kept(l, Moved(k))
               PROVE  Moved(k).balance = l.balance + IF l.user = p.user /\ l.at > t THEN p.amount ELSE 0
    OBVIOUS
  <2>1. k = l
    BY <1>4 DEF Kept, EntriesOk, UniqueIds
  <2> QED
    BY <1>4, <2>1
<1> HIDE DEF old, r, Moved
<1>7. HandAdded(old, r)
  BY <1>2, <1>3, <1>5, <1>6 DEF HandAdded
<1> QED
  BY <1>2, <1>5, <1>7

LEMMA HandEntries ==
  ASSUME EntriesOk, NEW old, NEW r, HandAdded(old, r)
  PROVE  EntriesOk' /\ UniqueIds(old) /\ IsFiniteSet(old) /\ r \notin old
<1>1. /\ logs' = old \cup {r} /\ open' = open /\ now' = now
      /\ r \in Entry /\ r.id = NextId /\ r.at < now
      /\ Twins(logs, old) /\ old \subseteq Entry
  BY DEF HandAdded
<1>2. \A m \in old : \E l \in logs : Kept(l, m)
  BY <1>1 DEF Twins
<1>3. UniqueIds(old \cup open)
  <2>1. \A x, y \in old : x.id = y.id => x = y
    <3> SUFFICES ASSUME NEW x \in old, NEW y \in old, x.id = y.id PROVE x = y
      OBVIOUS
    <3>1. PICK l \in logs : Kept(l, x)
      BY <1>2
    <3>2. PICK k \in logs : Kept(k, y)
      BY <1>2
    <3>3. k = l
      BY <3>1, <3>2 DEF Kept, EntriesOk, UniqueIds
    <3>4. x.balance = y.balance
      BY <3>1, <3>2, <3>3 DEF HandAdded
    <3> QED
      BY <1>1, <3>1, <3>2, <3>3, <3>4 DEF Kept, Entry
  <2>2. \A x \in old, y \in open : x.id # y.id
    BY <1>2 DEF Kept, EntriesOk, UniqueIds
  <2> QED
    BY <2>1, <2>2 DEF UniqueIds, EntriesOk
<1>4. SameIds(logs \cup open, old \cup open)
  BY <1>1 DEF SameIds, Twins, Kept
<1>5. UniqueIds(logs \cup open) /\ IsFiniteSet(logs \cup open)
  BY NextIdType DEF EntriesOk
<1>6. IsFiniteSet(old \cup open) /\ Cardinality(old \cup open) = Cardinality(logs \cup open)
  BY <1>3, <1>4, <1>5, CardinalityById
<1>7. IsFiniteSet(old)
  BY <1>6, FS_Subset
<1>8. \A x \in old \cup open : x.id < NextId /\ x.at <= now
  BY <1>2 DEF Kept, EntriesOk
<1>9. r \notin old \cup open
  BY <1>1, <1>8, NextIdType
<1>10. (logs \cup open)' = (old \cup open) \cup {r}
  BY <1>1
<1>11. NextId' = NextId + 1
  <2>1. Cardinality((old \cup open) \cup {r}) = Cardinality(old \cup open) + 1
    BY <1>6, <1>9, FS_AddElement
  <2> QED
    BY <1>6, <1>10, <2>1 DEF NextId
<1>12. IsFiniteSet(logs')
  BY <1>1, <1>7, FS_AddElement
<1>13. logs' \cap open' = {}
  <2>1. \A x \in old, y \in open : x.id # y.id
    BY <1>2 DEF Kept, EntriesOk, UniqueIds
  <2> QED
    BY <1>1, <1>9, <2>1
<1>14. UniqueIds((logs \cup open)')
  <2>1. \A x \in old \cup open : x.id # r.id
    BY <1>1, <1>8, NextIdType
  <2> QED
    BY <1>3, <1>10, <2>1 DEF UniqueIds
<1>15. \A l \in (logs \cup open)' : l.id < NextId' /\ l.at <= now'
  BY <1>1, <1>8, <1>10, <1>11, NextIdType DEF EntriesOk, Entry
<1>16. (logs \cup open)' \subseteq Entry
  BY <1>1 DEF EntriesOk
<1>17. EntriesOk'
  BY <1>1, <1>12, <1>13, <1>14, <1>15, <1>16 DEF EntriesOk
<1> QED
  BY <1>3, <1>7, <1>9, <1>17 DEF UniqueIds
(* Corresponding parts of the logs before and after have the same amount. *)
LEMMA HandAmount ==
  ASSUME EntriesOk, NEW old, NEW r, HandAdded(old, r),
         NEW A, A \subseteq logs, NEW B, B \subseteq old, Twins(A, B)
  PROVE  AmountIn(B) = AmountIn(A) /\ AmountIn(B \cup {r}) = AmountIn(A) + r.amount
<1>1. IsFiniteSet(A) /\ A \subseteq Entry /\ UniqueIds(A)
  BY PartAmount
<1>2. UniqueIds(B)
  BY HandEntries DEF UniqueIds
<1>3. IsFiniteSet(B) /\ AmountIn(B) = AmountIn(A) /\ AmountIn(A) \in Int
  BY <1>1, <1>2, TwinsAmount
<1>4. \A x \in B \cup {r} : x.amount \in Int
  BY DEF HandAdded, Entry
<1>5. IsFiniteSet({r}) /\ B \cap {r} = {}
  <2>1. r \notin B
    BY HandEntries
  <2> QED
    BY <2>1, FS_Singleton
<1>6. AmountIn(B \cup {r}) = AmountIn(B) + AmountIn({r})
  BY <1>3, <1>4, <1>5, AmountUnion
<1>7. AmountIn({r}) = r.amount
  BY <1>4, AmountOne
<1> QED
  BY <1>3, <1>6, <1>7

LEMMA HandHistory ==
  ASSUME EntriesOk, BalancesOk, NEW old, NEW r, HandAdded(old, r), NEW m \in old
  PROVE  m.balance = AmountIn(History(m)')
<1>1. /\ logs' = old \cup {r} /\ r \in Entry /\ r.id = NextId /\ old \subseteq Entry
      /\ Twins(logs, old)
  BY DEF HandAdded
<1>2. PICK l \in logs : Kept(l, m)
  BY <1>1 DEF Twins
<1> DEFINE B == {x \in old : x.user = m.user /\ Precedes(x, m)}
<1>3. History(l) \subseteq logs /\ B \subseteq old
  BY DEF History, LogsOf
<1>4. Twins(History(l), B)
  BY <1>1, <1>2 DEF Twins, History, LogsOf, Kept, Precedes
<1>5. l \in Entry /\ m \in Entry /\ m.id < NextId /\ l.balance = AmountIn(History(l))
  BY <1>1, <1>2 DEF EntriesOk, Kept, BalancesOk
<1>6. m.balance = l.balance + IF l.user = r.user /\ l.at > r.at THEN r.amount ELSE 0
  BY <1>2 DEF HandAdded
<1>7. Precedes(r, m) <=> r.at < m.at
  BY <1>1, <1>5, NextIdType DEF Precedes, Entry
<1>8. History(m)' = {x \in old \cup {r} : x.user = m.user /\ Precedes(x, m)}
  BY <1>1 DEF History, LogsOf, Precedes
<1>9. CASE r.user = m.user /\ r.at < m.at
  <2>1. History(m)' = B \cup {r}
    BY <1>7, <1>8, <1>9
  <2>2. m.balance = l.balance + r.amount
    BY <1>1, <1>2, <1>5, <1>6, <1>9 DEF Kept, Entry
  <2> HIDE DEF B
  <2>3. AmountIn(B \cup {r}) = AmountIn(History(l)) + r.amount
    BY <1>3, <1>4, HandAmount
  <2> QED
    BY <1>5, <2>1, <2>2, <2>3
<1>10. CASE ~(r.user = m.user /\ r.at < m.at)
  <2>1. History(m)' = B
    BY <1>7, <1>8, <1>10
  <2>2. m.balance = l.balance
    BY <1>1, <1>2, <1>5, <1>6, <1>10 DEF Kept, Entry
  <2> HIDE DEF B
  <2>3. AmountIn(B) = AmountIn(History(l)) /\ AmountIn(B \cup {r}) = AmountIn(History(l)) + r.amount
    BY <1>3, <1>4, HandAmount
  <2> QED
    BY <1>5, <2>1, <2>2, <2>3
<1> QED
  BY <1>9, <1>10

LEMMA HandOthers ==
  ASSUME EntriesOk, OpenLast, BalancesOk, NEW old, NEW r, HandAdded(old, r)
  PROVE  OpenLast' /\ BalancesOk'
<1>1. /\ logs' = old \cup {r} /\ open' = open /\ r \in Entry /\ r.id = NextId /\ r.at < now
      /\ old \subseteq Entry /\ Twins(logs, old)
      /\ r.balance = AmountIn(Until(r.user, r.at)) + r.amount
      /\ \A o \in open : o.user # r.user
  BY DEF HandAdded, Busy
<1>2. OpenLast'
  <2>1. \A o \in open : \A m \in old : m.user = o.user => m.at <= o.at /\ m.id < o.id
    BY <1>1 DEF OpenLast, Twins, Kept
  <2> QED
    BY <1>1, <2>1 DEF OpenLast
<1>3. r.balance = AmountIn(History(r)')
  <2> DEFINE A == Until(r.user, r.at)
             B == {x \in old : x.user = r.user /\ x.at <= r.at}
  <2>1. A \subseteq logs /\ B \subseteq old
    BY DEF Until, LogsOf
  <2>2. Twins(A, B)
    BY <1>1 DEF Twins, Until, LogsOf, Kept
  <2>3. History(r)' = B \cup {r}
    <3>1. \A x \in old : x.id < NextId /\ x \in Entry
      BY <1>1 DEF Twins, Kept, EntriesOk
    <3>2. \A x \in old : Precedes(x, r) <=> x.at <= r.at
      BY <1>1, <3>1, NextIdType DEF Precedes, Entry
    <3>3. Precedes(r, r)
      BY <1>1 DEF Precedes, Entry
    <3>4. History(r)' = {x \in old \cup {r} : x.user = r.user /\ Precedes(x, r)}
      BY <1>1 DEF History, LogsOf, Precedes
    <3> QED
      BY <3>2, <3>3, <3>4
  <2> HIDE DEF A, B
  <2>4. AmountIn(B \cup {r}) = AmountIn(A) + r.amount
    BY <2>1, <2>2, HandAmount
  <2> QED
    BY <1>1, <2>3, <2>4 DEF A
<1>4. \A l \in logs' : l.balance = AmountIn(History(l)')
  BY <1>1, <1>3, HandHistory
<1>5. \A o \in open' : o.balance = AmountIn(LogsOf(o.user)') + o.amount
  <2> TAKE o \in open'
  <2>1. o \in open /\ o.user # r.user
    BY <1>1
  <2> DEFINE B == {x \in old : x.user = o.user}
  <2>2. LogsOf(o.user)' = B
    BY <1>1, <2>1 DEF LogsOf
  <2>3. LogsOf(o.user) \subseteq logs /\ B \subseteq old
    BY DEF LogsOf
  <2>4. Twins(LogsOf(o.user), B)
    BY <1>1 DEF Twins, LogsOf, Kept
  <2> HIDE DEF B
  <2>5. /\ AmountIn(B) = AmountIn(LogsOf(o.user))
        /\ AmountIn(B \cup {r}) = AmountIn(LogsOf(o.user)) + r.amount
    BY <2>3, <2>4, HandAmount
  <2> QED
    BY <2>1, <2>2, <2>5 DEF BalancesOk
<1>6. BalancesOk'
  BY <1>4, <1>5 DEF BalancesOk, AmountIn
<1> QED
  BY <1>2, <1>6

(* The tables: nothing else changes them. *)
Untouched == UNCHANGED <<logs, open>> /\ now' \in Nat /\ now <= now'

LEMMA UntouchedRows ==
  ASSUME TablesOk, Untouched
  PROVE  TablesOk'
<1>1. EntriesOk'
  <2>1. NextId' = NextId
    BY DEF NextId, Untouched
  <2>2. \A l \in logs \cup open : l.at \in Nat
    BY DEF EntriesOk, Entry, TablesOk
  <2>3. \A l \in logs \cup open : l.at <= now'
    BY <2>2 DEF EntriesOk, TablesOk, Untouched
  <2> QED
    BY <2>1, <2>3 DEF EntriesOk, TablesOk, Untouched
<1>2. OpenLast'
  BY DEF OpenLast, TablesOk, Untouched
<1>3. BalancesOk'
  <2>1. /\ \A l \in logs : History(l)' = History(l)
        /\ \A o \in open : LogsOf(o.user)' = LogsOf(o.user)
    BY DEF History, LogsOf, Precedes, Untouched
  <2>2. \A l \in logs' : l.balance = AmountIn(History(l)')
    BY <2>1 DEF BalancesOk, TablesOk, Untouched
  <2>3. \A o \in open' : o.balance = AmountIn(LogsOf(o.user)') + o.amount
    BY <2>1 DEF BalancesOk, TablesOk, Untouched
  <2> QED
    BY <2>2, <2>3 DEF BalancesOk, AmountIn
<1> QED
  BY <1>1, <1>2, <1>3 DEF TablesOk

(* A step of the tables. *)
LEMMA RowSteps ==
  ASSUME EntriesOk, [NextReports]_reportVars
  PROVE  \/ \E r \in Entry : Written(r) /\ sponsored' = sponsored
         \/ \E o \in open : Commit(o)
         \/ \E old \in SUBSET Entry, r \in Entry :
              HandAdded(old, r) /\ Late(r.user, r.at) /\ sponsored' = sponsored
         \/ UNCHANGED <<logs, open, q>> /\ now' \in Nat /\ now <= now' /\ sponsored \subseteq sponsored'
         \/ UNCHANGED <<logs, open, sponsored, now>> /\ (Changes \/ Strays \/ Lists \/ QueryFails)
<1>0. now \in Nat
  BY DEF EntriesOk
<1>1. ASSUME Writes PROVE
         \/ \E r \in Entry : Written(r) /\ sponsored' = sponsored
         \/ \E o \in open : Commit(o)
         \/ \E old \in SUBSET Entry, r \in Entry :
              HandAdded(old, r) /\ Late(r.user, r.at) /\ sponsored' = sponsored
         \/ UNCHANGED <<logs, open, q>> /\ now' \in Nat /\ now <= now' /\ sponsored \subseteq sponsored'
  <2>1. CASE \E p \in Postings : Insert(p)
    <3>1. \E r \in Entry : Written(r)
      BY <2>1, InsertWrites
    <3>2. sponsored' = sponsored
      BY <2>1 DEF Insert
    <3> QED
      BY <3>1, <3>2
  <2>2. CASE \E p \in Postings : \E t \in 1 .. MaxTime : AddByHand(p, t)
    <3>1. PICK p \in Postings : \E t \in 1 .. MaxTime : AddByHand(p, t)
      BY <2>2
    <3>2. PICK t \in 1 .. MaxTime : AddByHand(p, t)
      BY <3>1
    <3>3. PICK old \in SUBSET Entry, r \in Entry : HandAdded(old, r) /\ r.user = p.user /\ r.at = t
      BY <3>2, HandStep
    <3>4. Late(r.user, r.at) /\ sponsored' = sponsored
      BY <3>2, <3>3 DEF AddByHand
    <3> QED
      BY <3>3, <3>4
  <2>3. CASE \E b \in logs : RefundSponsor(b)
    <3>1. \E r \in Entry : Written(r)
      BY <2>3, RefundWrites
    <3>2. sponsored' = sponsored
      BY <2>3 DEF RefundSponsor
    <3> QED
      BY <3>1, <3>2
  <2>4. CASE \E b \in logs : Sponsor(b)
    BY <1>0, <2>4 DEF Sponsor
  <2>5. CASE \E l \in open : Commit(l)
    BY <2>5
  <2> QED
    BY <1>1, <2>1, <2>2, <2>3, <2>4, <2>5 DEF Writes
<1>2. ASSUME Tick PROVE
         UNCHANGED <<logs, open, q>> /\ now' \in Nat /\ now <= now' /\ sponsored \subseteq sponsored'
  BY <1>0, <1>2 DEF Tick
<1>3. ASSUME Changes PROVE UNCHANGED <<logs, open, sponsored, now>>
  BY <1>3 DEF Changes, Statement, MonthSummary, LastTimes, AllRead, ReadStart, ReadEnd, ReadFails
<1>4. ASSUME Strays PROVE UNCHANGED <<logs, open, sponsored, now>>
  BY <1>4 DEF Strays, Search, Candidates, Match
<1>5. ASSUME Lists PROVE UNCHANGED <<logs, open, sponsored, now>>
  BY <1>5 DEF Lists, Walk, TurnPage
<1>6. ASSUME QueryFails PROVE UNCHANGED <<logs, open, sponsored, now>>
  BY <1>6 DEF QueryFails
<1>7. CASE UNCHANGED reportVars
  BY <1>0, <1>7 DEF reportVars
<1>8. CASE NextReports
  <2>1. CASE Writes
    BY <1>1, <2>1
  <2>2. CASE Tick
    BY <1>2, <2>2
  <2>3. CASE Changes \/ Strays \/ Lists \/ QueryFails
    BY <1>3, <1>4, <1>5, <1>6, <2>3
  <2> QED
    BY <1>8, <2>1, <2>2, <2>3 DEF NextReports
<1> QED
  BY <1>7, <1>8
LEMMA NextTablesOk == TablesOk /\ [NextReports]_reportVars => TablesOk'
<1> SUFFICES ASSUME TablesOk, [NextReports]_reportVars PROVE TablesOk'
  OBVIOUS
<1>1. EntriesOk /\ OpenLast /\ BalancesOk
  BY DEF TablesOk
<1>2. CASE \E r \in Entry : Written(r)
  <2>1. EntriesOk'
    BY <1>1, <1>2, WrittenEntries
  <2>2. OpenLast' /\ BalancesOk'
    BY <1>1, <1>2, WrittenOthers
  <2> QED
    BY <2>1, <2>2 DEF TablesOk
<1>3. CASE \E o \in open : Commit(o)
  <2>1. EntriesOk'
    BY <1>1, <1>3, CommitEntries
  <2>2. OpenLast' /\ BalancesOk'
    BY <1>1, <1>3, CommitOthers
  <2> QED
    BY <2>1, <2>2 DEF TablesOk
<1>4. CASE \E old \in SUBSET Entry, r \in Entry : HandAdded(old, r)
  <2>1. EntriesOk'
    BY <1>1, <1>4, HandEntries
  <2>2. OpenLast' /\ BalancesOk'
    BY <1>1, <1>4, HandOthers
  <2> QED
    BY <2>1, <2>2 DEF TablesOk
<1>5. CASE Untouched
  BY <1>5, UntouchedRows
<1>6. now \in Nat
  BY <1>1 DEF EntriesOk
<1> QED
  BY <1>1, <1>2, <1>3, <1>4, <1>5, <1>6, RowSteps DEF Untouched

LEMMA InitTablesOk == InitReports => TablesOk
<1> SUFFICES ASSUME InitReports PROVE TablesOk
  OBVIOUS
<1>1. logs = {} /\ open = {} /\ now = 1
  BY DEF InitReports
<1>2. IsFiniteSet({})
  BY FS_EmptySet
<1> QED
  BY <1>1, <1>2 DEF TablesOk, EntriesOk, OpenLast, BalancesOk, UniqueIds

(* A query under way sees the rows it has seen, and others. *)
LEMMA LogsGrow ==
  ASSUME EntriesOk, [NextReports]_reportVars
  PROVE  (\A l \in logs : \E m \in logs' : Kept(l, m)) /\ sponsored \subseteq sponsored'
<1>1. CASE \E r \in Entry : Written(r) /\ sponsored' = sponsored
  BY <1>1 DEF Written, Kept
<1>2. CASE \E o \in open : Commit(o)
  BY <1>2 DEF Commit, Kept
<1>3. CASE \E old \in SUBSET Entry, r \in Entry :
             HandAdded(old, r) /\ Late(r.user, r.at) /\ sponsored' = sponsored
  BY <1>3 DEF HandAdded, Twins
<1>4. CASE UNCHANGED logs /\ sponsored \subseteq sponsored'
  BY <1>4 DEF Kept
<1> QED
  BY <1>1, <1>2, <1>3, <1>4, RowSteps

LEMMA QuerySteps ==
  ASSUME EntriesOk, [NextReports]_reportVars
  PROVE  \/ q' = q
         \/ q.kind = "changes" /\ \E u \in Owner : q' = [q EXCEPT !.late = @ \cup {u}]
         \/ UNCHANGED <<logs, open, sponsored, now>> /\ (Changes \/ Strays \/ Lists \/ QueryFails)
<1>1. CASE \E r \in Entry : Written(r)
  BY <1>1 DEF Written
<1>2. CASE \E o \in open : Commit(o)
  BY <1>2 DEF Commit, Late, EntriesOk, Entry
<1>3. CASE \E old \in SUBSET Entry, r \in Entry : HandAdded(old, r) /\ Late(r.user, r.at)
  BY <1>3 DEF Late, Entry
<1> QED
  BY <1>1, <1>2, <1>3, RowSteps

LEMMA WindowType ==
  ASSUME NEW w \in Windows
  PROVE  w[1] \in Nat /\ w[2] \in Nat /\ w[1] < w[2]
BY ReportsAssumption

LEMMA SearchBegins ==
  ASSUME EntriesOk, NEW w \in Windows, Search(w[1], w[2]), UNCHANGED <<logs, sponsored>>
  PROVE  SearchInv'
<1> DEFINE s == w[1]
           e == w[2]
           refunded == Ids(FindSponsorFiatlogsRefunded(s, e))
           astray == {b \in Purchases(s, e) : Stray(b)}
<1>1. s \in Nat /\ e \in Nat
  BY WindowType
<1>2. logs \subseteq Entry
  BY DEF EntriesOk
<1>3. refunded \subseteq Nat /\ astray \subseteq Entry
  BY <1>2 DEF Ids, FindSponsorFiatlogsRefunded, Purchases, Entry
<1>4. \A b \in astray : b.id \notin refunded
  BY DEF Ids, FindSponsorFiatlogsRefunded, Purchases, Stray, EntriesOk, UniqueIds
<1>5. astray \subseteq Purchases(s, e)
  OBVIOUS
<1>6. q' = [kind |-> "strays", pc |-> "candidates", s |-> s, e |-> e,
            refunded |-> refunded, found |-> {}, before |-> astray]
  BY DEF Search
<1> HIDE DEF s, e, refunded, astray
<1>7. q' \in Searches
  BY <1>1, <1>3, <1>6 DEF Searches
<1>8. q'.s = s /\ q'.e = e /\ q'.pc = "candidates" /\ q'.before = astray /\ q'.refunded = refunded
  BY <1>6
<1>9. \A b \in astray :
         /\ \E p \in logs' : (p.type \in Bought /\ Within(p, s, e)) /\ p.id = b.id
         /\ b.id \notin refunded
  BY <1>4, <1>5 DEF Purchases
<1> QED
  BY <1>7, <1>8, <1>9 DEF SearchInv, Purchases, Within
LEMMA SearchGoesOn ==
  ASSUME EntriesOk, SearchInv, q.kind = "strays", Candidates \/ Match
  PROVE  SearchInv'
<1>1. /\ q \in Searches /\ q.pc \in {"candidates", "match", "done"}
      /\ logs' = logs /\ sponsored' = sponsored
      /\ \A b \in q.before :
           /\ \E p \in Purchases(q.s, q.e) : p.id = b.id
           /\ b.id \notin q.refunded
           /\ q.pc # "candidates" /\ q.refunded # {} /\ Stray(b) => b.id \in q.found
  BY DEF SearchInv, Searches, Candidates, Match
<1>2. PICK pc \in {"match", "done"}, found \in SUBSET Nat :
        /\ q' = [q EXCEPT !.pc = pc, !.found = found]
        /\ \A b \in q.before : q.refunded # {} /\ Stray(b) => b.id \in found
  <2>0. logs \subseteq Entry
    BY DEF EntriesOk
  <2>1. CASE Candidates
    <3> DEFINE found == {b.id : b \in {p \in Purchases(q.s, q.e) :
                           p.id \notin sponsored /\ NotIn(p.id, q.refunded)}}
    <3>1. q' = [q EXCEPT !.pc = "match", !.found = found]
      BY <2>1 DEF Candidates
    <3>2. found \subseteq Nat
      BY <2>0 DEF Purchases, Entry
    <3>3. \A b \in q.before : q.refunded # {} /\ Stray(b) => b.id \in found
      BY <1>1 DEF Stray, NotIn
    <3> HIDE DEF found
    <3> QED
      BY <3>1, <3>2, <3>3
  <2>2. CASE Match
    <3> DEFINE found == {b.id : b \in {p \in logs : p.id \in q.found /\ RefundLog(p) = {}}}
    <3>1. q' = [q EXCEPT !.pc = "done", !.found = found] /\ q.pc = "match"
      BY <2>2 DEF Match
    <3>2. found \subseteq Nat
      BY <2>0 DEF Entry
    <3>3. \A b \in q.before : q.refunded # {} /\ Stray(b) => b.id \in found
      <4> SUFFICES ASSUME NEW b \in q.before, q.refunded # {}, Stray(b) PROVE b.id \in found
        OBVIOUS
      <4>1. PICK p \in logs : p.id = b.id
        BY <1>1 DEF Purchases
      <4>2. RefundLog(p) = {} /\ p.id \in q.found
        BY <1>1, <3>1, <4>1 DEF Stray, RefundLog
      <4> QED
        BY <4>1, <4>2
    <3> HIDE DEF found
    <3> QED
      BY <3>1, <3>2, <3>3
  <2> QED
    BY <2>1, <2>2
<1>3. /\ q' \in Searches /\ q'.s = q.s /\ q'.e = q.e /\ q'.before = q.before
      /\ q'.refunded = q.refunded /\ q'.found = found
  BY <1>1, <1>2 DEF Searches
<1>4. \A b : Stray(b)' = Stray(b)
  BY <1>1 DEF Stray, RefundLog
<1>5. \A b \in q'.before :
        /\ \E p \in logs' : (p.type \in Bought /\ Within(p, q'.s, q'.e)) /\ p.id = b.id
        /\ b.id \notin q'.refunded
        /\ q'.refunded # {} /\ Stray(b)' => b.id \in q'.found
  <2>1. \A b \in q.before : \E p \in logs : (p.type \in Bought /\ Within(p, q.s, q.e)) /\ p.id = b.id
    BY <1>1 DEF Purchases
  <2> QED
    BY <1>1, <1>2, <1>3, <1>4, <2>1
<1> QED
  BY <1>3, <1>5 DEF SearchInv, Purchases, Within, Stray, RefundLog

LEMMA SearchWaits ==
  ASSUME EntriesOk, [NextReports]_reportVars, SearchInv, q' = q
  PROVE  SearchInv'
<1>1. /\ \A l \in logs : \E m \in logs' : Kept(l, m)
      /\ sponsored \subseteq sponsored'
  BY LogsGrow
<1>2. SUFFICES ASSUME q.kind = "strays" PROVE SearchInv'
  BY DEF SearchInv
<1>3. /\ q \in Searches
      /\ \A b \in q.before :
           /\ \E p \in Purchases(q.s, q.e) : p.id = b.id
           /\ b.id \notin q.refunded
           /\ q.pc # "candidates" /\ q.refunded # {} /\ Stray(b) => b.id \in q.found
  BY <1>2 DEF SearchInv
<1>4. \A b : Stray(b)' => Stray(b)
  BY <1>1 DEF Stray, RefundLog, Kept
<1>5. \A b \in q.before : \E p \in logs' : (p.type \in Bought /\ Within(p, q.s, q.e)) /\ p.id = b.id
  BY <1>1, <1>3 DEF Purchases, Within, Kept
<1>6. \A b \in q.before : \E p \in Purchases(q.s, q.e)' : p.id = b.id
  BY <1>5 DEF Purchases, Within
<1> QED
  BY <1>3, <1>4, <1>6 DEF SearchInv

(* Each query leaves the others over. *)
LEMMA ChangesKind ==
  ASSUME StatementInv, Changes
  PROVE  q'.kind \in {"changes", "none"}
<1>1. CASE \E w \in Windows, types \in Filters : Statement(w[1], w[2], types)
  BY <1>1 DEF Statement
<1>2. ASSUME q.kind = "changes" PROVE q \in Statements
  BY <1>2 DEF StatementInv
<1>3. CASE q.kind = "changes" /\ MonthSummary
  BY <1>2, <1>3 DEF MonthSummary, Statements
<1>4. CASE q.kind = "changes" /\ (LastTimes("start", "starts", q.s) \/ LastTimes("end", "ends", q.e))
  BY <1>2, <1>4 DEF LastTimes, Statements
<1>5. CASE q.kind = "changes" /\ (AllRead("starts", "end") \/ AllRead("ends", "done"))
  BY <1>2, <1>5 DEF AllRead, Statements
<1>6. CASE q.kind = "changes" /\ \E u \in Owner : ReadStart(u) \/ ReadEnd(u) \/ ReadFails(u)
  <2>1. PICK u \in Owner : ReadStart(u) \/ ReadEnd(u) \/ ReadFails(u)
    BY <1>6
  <2>2. CASE ReadStart(u) \/ ReadEnd(u)
    BY <1>2, <1>6, <2>2 DEF ReadStart, ReadEnd, Statements
  <2>3. CASE ReadFails(u)
    <3>1. CASE Checked(q.users, u)
      <4>1. q' = [kind |-> "none", pc |-> "done"]
        BY <2>3, <3>1 DEF ReadFails, NoQuery
      <4> QED
        BY <4>1
    <3>2. CASE ~Checked(q.users, u)
      <4>1. q' = [q EXCEPT !.todo = @ \ {u}, !.lost = @ \cup {u}]
        BY <2>3, <3>2 DEF ReadFails
      <4> QED
        BY <1>2, <1>6, <4>1 DEF Statements
    <3> QED
      BY <3>1, <3>2
  <2> QED
    BY <2>1, <2>2, <2>3
<1> QED
  BY <1>1, <1>3, <1>4, <1>5, <1>6 DEF Changes

LEMMA StraysKind ==
  ASSUME SearchInv, Strays
  PROVE  q'.kind = "strays"
<1>1. CASE \E w \in Windows : Search(w[1], w[2])
  BY <1>1 DEF Search
<1>2. CASE q.kind = "strays" /\ (Candidates \/ Match)
  BY <1>2 DEF SearchInv, Searches, Candidates, Match
<1> QED
  BY <1>1, <1>2 DEF Strays

LEMMA ListsKind ==
  ASSUME Lists
  PROVE  q'.kind \in Listing
<1>1. CASE \E kind \in Listing, u \in Askers : Walk(kind, u)
  BY <1>1 DEF Walk
<1>2. CASE q.kind \in Listing /\ TurnPage
  BY <1>2 DEF TurnPage
<1> QED
  BY <1>1, <1>2 DEF Lists

LEMMA FailsKind == QueryFails => q'.kind = "none"
BY DEF QueryFails, NoQuery

LEMMA LateKind ==
  ASSUME StatementInv, q.kind = "changes", NEW u, q' = [q EXCEPT !.late = @ \cup {u}]
  PROVE  q'.kind = "changes"
BY DEF StatementInv, Statements

LEMMA NextSearchInv ==
  TablesOk /\ StatementInv /\ SearchInv /\ [NextReports]_reportVars => SearchInv'
<1> SUFFICES ASSUME TablesOk, StatementInv, SearchInv, [NextReports]_reportVars
             PROVE  SearchInv'
  OBVIOUS
<1>1. EntriesOk
  BY DEF TablesOk
<1>2. CASE q' = q
  BY <1>1, <1>2, SearchWaits
<1>3. CASE q.kind = "changes" /\ \E u \in Owner : q' = [q EXCEPT !.late = @ \cup {u}]
  <2>1. q'.kind = "changes"
    BY <1>3, LateKind
  <2> QED
    BY <2>1 DEF SearchInv
<1>4. CASE UNCHANGED <<logs, open, sponsored, now>> /\ Strays
  <2>1. CASE \E w \in Windows : Search(w[1], w[2])
    BY <1>1, <1>4, <2>1, SearchBegins
  <2>2. CASE q.kind = "strays" /\ (Candidates \/ Match)
    BY <1>1, <2>2, SearchGoesOn
  <2> QED
    BY <1>4, <2>1, <2>2 DEF Strays
<1>5. CASE Changes \/ Lists \/ QueryFails
  <2>1. q'.kind # "strays"
    BY <1>5, ChangesKind, ListsKind, FailsKind DEF Listing
  <2> QED
    BY <2>1 DEF SearchInv
<1> QED
  BY <1>1, <1>2, <1>3, <1>4, <1>5, QuerySteps
-----------------------------------------------------------------------------
(* The order of a listing leaves open only which of the rows of a time comes first. *)
LEMMA ListingOrder ==
  ASSUME EntriesOk, NEW kind \in Listing, NEW l \in logs, ~(kind = "details" /\ Tied(l.id))
  PROVE  /\ ~Before(kind, l, l)
         /\ \A x \in logs : x # l => Before(kind, x, l) \/ Before(kind, l, x)
<1>1. \A x \in logs : x.at \in Nat /\ x.id \in Nat
  BY DEF EntriesOk, Entry
<1>2. \A x \in logs : x # l => x.id # l.id
  BY DEF EntriesOk, UniqueIds
<1>3. kind = "details" => \A x \in logs : x # l => x.at # l.at
  BY <1>2 DEF Tied
<1>4. CASE kind = "list"
  BY <1>1, <1>2, <1>4 DEF Before
<1>5. CASE kind = "details"
  BY <1>1, <1>3, <1>5 DEF Before
<1>6. CASE kind = "own"
  BY <1>1, <1>2, <1>6 DEF Before
<1> QED
  BY <1>4, <1>5, <1>6 DEF Listing

LEMMA SeenLogs ==
  ASSUME EntriesOk
  PROVE  \A u : Seen(u) \subseteq logs /\ IsFiniteSet(Seen(u))
<1>1. \A u : Seen(u) \subseteq logs
  BY DEF Seen, LogsOf
<1> QED
  BY <1>1, FS_Subset DEF EntriesOk

Foregoing(l) == {m \in Seen(q.user) : Before(q.kind, m, l)}

LEMMA RankType ==
  ASSUME EntriesOk, NEW l
  PROVE  IsFiniteSet(Foregoing(l)) /\ Rank(l) = Cardinality(Foregoing(l)) /\ Rank(l) \in Nat
<1>1. Foregoing(l) \subseteq Seen(q.user)
  BY DEF Foregoing
<1>2. IsFiniteSet(Foregoing(l))
  BY <1>1, SeenLogs, FS_Subset
<1>3. Rank(l) = Cardinality(Foregoing(l))
  BY DEF Rank, Foregoing
<1> QED
  BY <1>2, <1>3, FS_CardinalityType

(* A page shows a row that is still to come, or is full and leaves it to later pages. *)
LEMMA PageShows ==
  ASSUME EntriesOk, q \in Walks, NEW S \in Pages(Seen(q.user), q.offset),
         NEW l \in Seen(q.user), Rank(l) >= q.offset, ~(q.kind = "details" /\ Tied(l.id))
  PROVE  l \in S \/ (Cardinality(S) >= Page /\ Rank(l) >= q.offset + Page)
<1> DEFINE chosen == Seen(q.user)
           n == Cardinality(chosen)
<1>1. /\ chosen \subseteq logs /\ IsFiniteSet(chosen) /\ n \in Nat
      /\ q.offset \in Nat /\ q.kind \in Listing /\ Page \in Nat \ {0}
      /\ l \in chosen /\ Rank(l) \in Nat
  BY SeenLogs, FS_CardinalityType, RankType, ReportsAssumption DEF Walks
<1>2. Foregoing(l) \subseteq chosen /\ l \notin Foregoing(l)
  BY <1>1, ListingOrder DEF Foregoing
<1>3. Rank(l) < n
  <2>1. Cardinality(Foregoing(l) \cup {l}) = Rank(l) + 1
    BY <1>2, RankType, FS_AddElement
  <2>2. Foregoing(l) \cup {l} \subseteq chosen
    BY <1>1, <1>2
  <2>3. Cardinality(Foregoing(l) \cup {l}) <= n
    BY <1>1, <2>2, FS_Subset
  <2> QED
    BY <1>1, <2>1, <2>3
<1>4. PICK above \in kSubset(Min({q.offset, n}), chosen \ S) :
        /\ \A x \in above : ~\E m \in chosen \ above : Before(q.kind, m, x)
        /\ \A x \in S : ~\E m \in chosen \ (above \cup S) : Before(q.kind, m, x)
  BY DEF Pages
<1>5. above \subseteq chosen \ S /\ Cardinality(above) = q.offset
  <2>1. Min({q.offset, n}) = q.offset
    BY <1>1, <1>3, MinOfTwo
  <2> QED
    BY <2>1, <1>4 DEF kSubset
<1>6. S \subseteq chosen /\ Cardinality(S) = IF Page <= n - q.offset THEN Page ELSE n - q.offset
  <2>1. S \subseteq chosen /\ Cardinality(S) = Min({Page, Max({0, n - q.offset})})
    BY DEF Pages
  <2>2. Max({0, n - q.offset}) = n - q.offset
    BY <1>1, <1>3, MaxOfTwo
  <2>3. Min({Page, n - q.offset}) = IF Page <= n - q.offset THEN Page ELSE n - q.offset
    BY <1>1, MinOfTwo
  <2> QED
    BY <2>1, <2>2, <2>3
<1>7. IsFiniteSet(above) /\ IsFiniteSet(S)
  BY <1>1, <1>5, <1>6, FS_Subset
<1> HIDE DEF chosen, n
<1>8. l \notin above
  <2> SUFFICES ASSUME l \in above PROVE FALSE
    OBVIOUS
  <2>1. Foregoing(l) \cup {l} \subseteq above
    BY <1>2, <1>4 DEF Foregoing, chosen
  <2>2. Cardinality(Foregoing(l) \cup {l}) = Rank(l) + 1
    BY <1>2, RankType, FS_AddElement
  <2>3. Cardinality(Foregoing(l) \cup {l}) <= Cardinality(above)
    BY <1>7, <2>1, FS_Subset
  <2> QED
    BY <1>1, <1>5, <2>2, <2>3
<1>9. ASSUME l \notin S PROVE Cardinality(S) >= Page /\ Rank(l) >= q.offset + Page
  <2>1. \A x \in above \cup S : x # l /\ x \in logs /\ ~Before(q.kind, l, x)
    BY <1>1, <1>4, <1>5, <1>6, <1>8, <1>9
  <2>2. above \cup S \subseteq Foregoing(l)
    BY <1>1, <1>5, <1>6, <2>1, ListingOrder DEF Foregoing, chosen
  <2>3. Cardinality(above \cup S) = q.offset + Cardinality(S)
    <3>1. above \cap S = {}
      BY <1>5
    <3>2. Cardinality(above \cup S) = Cardinality(above) + Cardinality(S) - Cardinality(above \cap S)
      BY <1>7, FS_Union
    <3>3. Cardinality(above \cap S) = 0
      BY <3>1, FS_EmptySet
    <3>4. Cardinality(S) \in Nat
      BY <1>7, FS_CardinalityType
    <3> QED
      BY <1>1, <1>5, <3>2, <3>3, <3>4
  <2>4. q.offset + Cardinality(S) <= Rank(l)
    BY <2>2, <2>3, RankType, FS_Subset
  <2> QED
    BY <1>1, <1>3, <1>6, <2>4
<1> QED
  BY <1>9
LEMMA WalkBegins ==
  ASSUME EntriesOk, NEW kind \in Listing, NEW u \in Owner, Walk(kind, u), logs' = logs
  PROVE  WalkInv'
<1> DEFINE chosen == IF kind = "own" THEN LogsOf(u) ELSE logs
<1>1. q' = [kind |-> kind, pc |-> "page", user |-> u, offset |-> 0, shown |-> {},
            before |-> Ids(chosen)]
  BY DEF Walk
<1>2. chosen \subseteq logs /\ logs \subseteq Entry
  BY DEF EntriesOk, LogsOf
<1>3. Seen(u)' = chosen
  <2>1. LogsOf(u)' = LogsOf(u)
    BY DEF LogsOf
  <2> QED
    BY <1>1, <2>1 DEF Seen
<1> HIDE DEF chosen
<1>4. Ids(chosen) \subseteq Nat
  BY <1>2 DEF Ids, Entry
<1>5. q' \in Walks
  BY <1>1, <1>4 DEF Walks
<1>6. ASSUME NEW i \in Ids(chosen) PROVE Awaited(i)'
  <2>1. PICK l \in chosen : l.id = i
    BY DEF Ids
  <2>2. {m \in chosen : Before(kind, m, l)} \subseteq logs
    BY <1>2
  <2>3. IsFiniteSet({m \in chosen : Before(kind, m, l)})
    BY <2>2, FS_Subset DEF EntriesOk
  <2>4. Rank(l)' = Cardinality({m \in chosen : Before(kind, m, l)})
    BY <1>1, <1>3 DEF Rank, Before
  <2>5. Rank(l)' >= 0
    BY <2>3, <2>4, FS_CardinalityType
  <2> QED
    BY <1>1, <1>3, <2>1, <2>5 DEF Awaited
<1> QED
  BY <1>1, <1>5, <1>6 DEF WalkInv, Awaited

LEMMA WalkTurns ==
  ASSUME EntriesOk, WalkInv, q.kind \in Listing, TurnPage
  PROVE  WalkInv'
<1>1. /\ q \in Walks /\ q.pc = "page" /\ logs' = logs
      /\ \A i \in q.before : Awaited(i)
  BY DEF WalkInv, Awaited, TurnPage
<1>2. PICK S \in Pages(Seen(q.user), q.offset) :
        q' = [q EXCEPT !.shown = @ \cup Ids(S), !.offset = @ + Page,
                       !.pc = IF Cardinality(S) < Page THEN "done" ELSE "page"]
  BY DEF TurnPage
<1>3. S \subseteq Seen(q.user) /\ S \subseteq logs /\ logs \subseteq Entry
  BY SeenLogs DEF Pages, EntriesOk
<1>4. Ids(S) \subseteq Nat /\ q.offset + Page \in Nat
  BY <1>1, <1>3, ReportsAssumption DEF Ids, Entry, Walks
<1>5. /\ q' \in Walks /\ q'.kind = q.kind /\ q'.user = q.user /\ q'.before = q.before
      /\ q'.shown = q.shown \cup Ids(S) /\ q'.offset = q.offset + Page
      /\ Cardinality(S) < Page \/ q'.pc = "page"
  BY <1>1, <1>2, <1>4 DEF Walks
<1>6. Seen(q.user)' = Seen(q.user) /\ \A i : Tied(i)' = Tied(i)
  <2>1. \A u : LogsOf(u)' = LogsOf(u)
    BY <1>1 DEF LogsOf
  <2> QED
    BY <1>1, <1>5, <2>1 DEF Seen, Tied
<1>7. \A l : Rank(l)' = Rank(l)
  <2>1. \A l : {m \in Seen(q.user) : Before(q.kind, m, l)}' = {m \in Seen(q.user) : Before(q.kind, m, l)}
    BY <1>5, <1>6 DEF Before
  <2> QED
    BY <2>1 DEF Rank
<1>8. ASSUME NEW i \in q.before PROVE Awaited(i)'
  <2>1. PICK l \in Seen(q.user) :
          /\ l.id = i
          /\ \/ i \in q.shown \/ (q.kind = "details" /\ Tied(i))
             \/ Rank(l) >= q.offset
    BY <1>1 DEF Awaited
  <2>2. CASE i \in q.shown \/ (q.kind = "details" /\ Tied(i))
    BY <1>5, <1>6, <2>1, <2>2 DEF Awaited
  <2>3. CASE Rank(l) >= q.offset /\ ~(q.kind = "details" /\ Tied(l.id))
    <3>1. l \in S \/ (Cardinality(S) >= Page /\ Rank(l) >= q.offset + Page)
      BY <1>1, <2>3, PageShows
    <3>2. CASE l \in S
      <4>1. i \in q'.shown
        BY <1>5, <2>1, <3>2 DEF Ids
      <4> QED
        BY <1>5, <1>6, <2>1, <4>1 DEF Awaited
    <3>3. CASE Cardinality(S) >= Page /\ Rank(l) >= q.offset + Page
      <4>1. q'.pc = "page"
        <5>1. Cardinality(S) \in Nat
          BY <1>3, FS_Subset, FS_CardinalityType DEF EntriesOk
        <5> QED
          BY <1>5, <3>3, <5>1, ReportsAssumption
      <4>2. Rank(l)' >= q'.offset
        BY <1>5, <1>7, <3>3
      <4> QED
        BY <1>5, <1>6, <2>1, <4>1, <4>2 DEF Awaited
    <3> QED
      BY <3>1, <3>2, <3>3
  <2> QED
    BY <2>1, <2>2, <2>3
<1> QED
  BY <1>5, <1>8 DEF WalkInv, Awaited

LEMMA WalkWaits ==
  ASSUME EntriesOk, EntriesOk', [NextReports]_reportVars, WalkInv, q' = q
  PROVE  WalkInv'
<1>1. \A l \in logs : \E m \in logs' : Kept(l, m)
  BY LogsGrow
<1>2. SUFFICES ASSUME q.kind \in Listing PROVE WalkInv'
  BY DEF WalkInv
<1>3. q \in Walks /\ \A i \in q.before : Awaited(i)
  BY <1>2 DEF WalkInv, Awaited
<1>4. \A l \in Seen(q.user), m \in logs' : Kept(l, m) => m \in Seen(q.user)'
  BY DEF Seen, LogsOf, Kept
<1>5. Seen(q.user) \subseteq logs /\ Seen(q.user)' \subseteq logs'
  BY DEF Seen, LogsOf
<1>6. \A i : Tied(i) => Tied(i)'
  BY <1>1 DEF Tied, Kept
<1>7. ASSUME NEW l \in Seen(q.user), NEW m \in logs', Kept(l, m) PROVE Rank(m)' >= Rank(l) /\ Rank(l) \in Nat
  <2> DEFINE F == Foregoing(l)
             G == {x \in Seen(q.user)' : Before(q.kind, x, m)}
             g == [x \in F |-> CHOOSE y \in logs' : Kept(x, y)]
  <2>1. IsFiniteSet(F) /\ Rank(l) = Cardinality(F) /\ Rank(l) \in Nat
    BY RankType
  <2>2. Rank(m)' = Cardinality(G)
    BY DEF Rank, Before
  <2>3. IsFiniteSet(G)
    <3>1. G \subseteq logs'
      BY <1>5
    <3> QED
      BY <3>1, FS_Subset DEF EntriesOk
  <2>4. \A x \in F : x \in Seen(q.user) /\ x \in logs /\ Before(q.kind, x, l)
    BY <1>5 DEF Foregoing
  <2>5. \A x \in F : g[x] \in logs' /\ Kept(x, g[x])
    BY <1>1, <2>4
  <2>6. \A x \in F : Before(q.kind, g[x], m)
    <3> SUFFICES ASSUME NEW x \in F PROVE Before(q.kind, g[x], m)
      OBVIOUS
    <3>1. g[x].at = x.at /\ g[x].id = x.id /\ m.at = l.at /\ m.id = l.id
      BY <1>7, <2>5 DEF Kept
    <3>2. Before(q.kind, x, l)
      BY <2>4
    <3> HIDE DEF F, g
    <3> QED
      BY <3>1, <3>2 DEF Before
  <2>7. g \in [F -> G]
    BY <1>4, <2>4, <2>5, <2>6
  <2>8. \A x, y \in F : g[x] = g[y] => x = y
    BY <2>4, <2>5 DEF Kept, EntriesOk, UniqueIds
  <2> HIDE DEF F, G, g
  <2>9. g \in Injection(F, G)
    BY <2>7, <2>8 DEF Injection, IsInjective
  <2>10. Cardinality(F) <= Cardinality(G)
    BY <2>3, <2>9, FS_Injection
  <2>11. Cardinality(G) \in Nat
    BY <2>3, FS_CardinalityType
  <2> QED
    BY <2>1, <2>2, <2>10, <2>11
<1>8. ASSUME NEW i \in q.before PROVE Awaited(i)'
  <2>1. PICK l \in Seen(q.user) :
          /\ l.id = i
          /\ \/ i \in q.shown \/ (q.kind = "details" /\ Tied(i))
             \/ q.pc = "page" /\ Rank(l) >= q.offset
    BY <1>3 DEF Awaited
  <2>2. PICK m \in logs' : Kept(l, m)
    BY <1>1, <1>5
  <2>3. m \in Seen(q.user)' /\ m.id = i
    BY <1>4, <2>1, <2>2 DEF Kept
  <2>4. Rank(l) >= q.offset => Rank(m)' >= q.offset
    <3>1. Rank(m)' >= Rank(l) /\ Rank(l) \in Nat
      BY <1>7, <2>2
    <3>2. Rank(m)' \in Int
      <4>1. {x \in Seen(q.user) : Before(q.kind, x, m)}' \subseteq logs'
        BY <1>5
      <4>2. IsFiniteSet({x \in Seen(q.user) : Before(q.kind, x, m)}')
        BY <4>1, FS_Subset DEF EntriesOk
      <4>3. Cardinality({x \in Seen(q.user) : Before(q.kind, x, m)}') \in Nat
        BY <4>2, FS_CardinalityType
      <4> QED
        BY <4>3 DEF Rank
    <3>3. q.offset \in Nat
      BY <1>3 DEF Walks
    <3> QED
      BY <3>1, <3>2, <3>3
  <2> QED
    BY <1>6, <2>1, <2>3, <2>4 DEF Awaited
<1> QED
  BY <1>3, <1>8 DEF WalkInv, Awaited
LEMMA NextWalkInv ==
  TablesOk /\ TablesOk' /\ StatementInv /\ SearchInv /\ WalkInv /\ [NextReports]_reportVars => WalkInv'
<1> SUFFICES ASSUME TablesOk, TablesOk', StatementInv, SearchInv, WalkInv, [NextReports]_reportVars
             PROVE  WalkInv'
  OBVIOUS
<1>1. EntriesOk /\ EntriesOk'
  BY DEF TablesOk
<1>2. CASE q' = q
  BY <1>1, <1>2, WalkWaits
<1>3. CASE q.kind = "changes" /\ \E u \in Owner : q' = [q EXCEPT !.late = @ \cup {u}]
  <2>1. q'.kind = "changes"
    BY <1>3, LateKind
  <2> QED
    BY <2>1 DEF WalkInv, Listing
<1>4. CASE UNCHANGED <<logs, open, sponsored, now>> /\ Lists
  <2>1. CASE \E kind \in Listing, u \in Askers : Walk(kind, u)
    BY <1>1, <1>4, <2>1, WalkBegins, ReportsAssumption
  <2>2. CASE q.kind \in Listing /\ TurnPage
    BY <1>1, <2>2, WalkTurns
  <2> QED
    BY <1>4, <2>1, <2>2 DEF Lists
<1>5. CASE Changes \/ Strays \/ QueryFails
  <2>1. q'.kind \notin Listing
    BY <1>5, ChangesKind, StraysKind, FailsKind DEF Listing
  <2> QED
    BY <2>1 DEF WalkInv
<1> QED
  BY <1>1, <1>2, <1>3, <1>4, <1>5, QuerySteps
-----------------------------------------------------------------------------
(* What a statement reads. *)
LEMMA UntilLogs ==
  ASSUME EntriesOk, NEW u, NEW t
  PROVE  Until(u, t) \subseteq logs /\ IsFiniteSet(Until(u, t)) /\ AmountIn(Until(u, t)) \in Int
<1>1. Until(u, t) \in SUBSET logs
  BY DEF Until, LogsOf
<1> QED
  BY <1>1, PartAmount

LEMMA LastTimeFacts ==
  ASSUME EntriesOk, NEW u, NEW t
  PROVE  /\ LastTime(u, t) \in Nat
         /\ \A l \in Until(u, t) : l.at <= LastTime(u, t)
         /\ Until(u, t) # {} => \E l \in Until(u, t) : l.at = LastTime(u, t)
<1> DEFINE chosen == Until(u, t)
           f == [l \in chosen |-> l.at]
           T == {0} \cup {f[l] : l \in chosen}
<1>1. IsFiniteSet(chosen) /\ \A l \in chosen : l.at \in Nat
  BY UntilLogs DEF EntriesOk, Entry
<1>2. LastTime(u, t) = Max(T)
  <2>1. T = {0} \cup {l.at : l \in Until(u, t)}
    OBVIOUS
  <2> QED
    BY <2>1 DEF LastTime
<1>3. T \subseteq Nat /\ T # {}
  BY <1>1
<1>4. IsFiniteSet(T)
  <2> HIDE DEF f
  <2>1. IsFiniteSet({f[l] : l \in chosen})
    BY <1>1, FiniteImage
  <2> QED
    BY <2>1, FS_Singleton, FS_Union
<1>5. \A l \in chosen : l.at \in T
  OBVIOUS
<1>6. \A n \in T : n = 0 \/ \E l \in chosen : l.at = n
  OBVIOUS
<1> HIDE DEF T, f, chosen
<1>7. \E m \in T : \A n \in T : n <= m
  BY <1>3, <1>4, GreatestNumber
<1>8. Max(T) \in T /\ \A n \in T : Max(T) >= n
  BY <1>3, <1>7 DEF Max
<1>9. \A l \in chosen : l.at <= Max(T)
  BY <1>1, <1>3, <1>5, <1>8
<1>10. chosen # {} => \E l \in chosen : l.at = Max(T)
  <2> SUFFICES ASSUME chosen # {} PROVE \E l \in chosen : l.at = Max(T)
    OBVIOUS
  <2>1. PICK k \in chosen : TRUE
    OBVIOUS
  <2>2. CASE Max(T) = 0
    BY <1>1, <1>9, <2>1, <2>2
  <2> QED
    BY <1>6, <1>8, <2>2
<1> QED
  BY <1>2, <1>3, <1>8, <1>9, <1>10 DEF chosen

LEMMA LastAtThere ==
  ASSUME EntriesOk, NEW u, NEW t, TimeThere(u, t)
  PROVE  /\ LastAt(u, t) \in LogsOf(u) /\ LastAt(u, t).at = t
         /\ \A m \in LogsOf(u) : m.at = t => m.id <= LastAt(u, t).id
<1> DEFINE same == {l \in LogsOf(u) : l.at = t}
           f == [l \in same |-> l.id]
<1>1. same # {} /\ same \subseteq logs
  BY DEF TimeThere, LogsOf
<1>2. \A l \in logs : l.id \in Nat
  BY DEF EntriesOk, Entry
<1>3. PICK k \in same : \A m \in same : m.id <= k.id
  <2>1. IsFiniteSet(same)
    BY <1>1, PartAmount
  <2>2. \A l \in same : f[l] = l.id /\ f[l] \in Nat
    BY <1>1, <1>2
  <2>3. {f[l] : l \in same} \subseteq Nat /\ {f[l] : l \in same} # {}
    BY <1>1, <2>2
  <2> HIDE DEF f, same
  <2>4. IsFiniteSet({f[l] : l \in same})
    BY <2>1, FiniteImage
  <2>5. \E m \in {f[l] : l \in same} : \A n \in {f[l] : l \in same} : n <= m
    BY <2>3, <2>4, GreatestNumber
  <2> QED
    BY <2>2, <2>5
<1>4. LastAt(u, t) \in same /\ \A m \in same : m.id <= LastAt(u, t).id
  BY <1>3 DEF LastAt
<1> QED
  BY <1>4

(* GetUserBalanceAtDate: the last row of a time has the balance of the date. *)
LEMMA BalanceAtDate ==
  ASSUME TablesOk, NEW u, NEW t \in Nat, Until(u, t) # {}
  PROVE  LastAt(u, LastTime(u, t)).balance = AmountIn(Until(u, t))
<1> DEFINE last == LastTime(u, t)
           k == LastAt(u, last)
<1>1. EntriesOk /\ BalancesOk
  BY DEF TablesOk
<1>2. /\ last \in Nat
      /\ \A l \in Until(u, t) : l.at <= last
  BY <1>1, LastTimeFacts
<1>3. \E l \in Until(u, t) : l.at = last
  BY <1>1, LastTimeFacts
<1>4. last <= t /\ TimeThere(u, last)
  BY <1>3 DEF Until, TimeThere
<1>5. \A l \in logs : l.id \in Nat /\ l.at \in Nat
  BY <1>1 DEF EntriesOk, Entry
<1> HIDE DEF last
<1>6. /\ k \in LogsOf(u) /\ k.at = last
      /\ \A m \in LogsOf(u) : m.at = last => m.id <= k.id
  BY <1>1, <1>4, LastAtThere
<1> HIDE DEF k
<1>7. k \in logs /\ k.user = u
  BY <1>6 DEF LogsOf
<1>8. History(k) = Until(u, t)
  <2>1. \A m \in LogsOf(u) : Precedes(m, k) <=> m.at <= t
    <3> SUFFICES ASSUME NEW m \in LogsOf(u) PROVE Precedes(m, k) <=> m.at <= t
      OBVIOUS
    <3>1. m \in logs /\ m.at \in Nat
      BY <1>5 DEF LogsOf
    <3>2. m.at <= t => m.at <= last
      BY <1>2 DEF Until
    <3>3. m.at = last => m.id <= k.id
      BY <1>6
    <3> QED
      BY <1>2, <1>4, <1>6, <3>1, <3>2, <3>3 DEF Precedes
  <2> QED
    BY <1>7, <2>1 DEF History, Until
<1>9. k.balance = AmountIn(History(k))
  BY <1>1, <1>7 DEF BalancesOk
<1> QED
  BY <1>8, <1>9 DEF last, k

(* What a statement has read of a user without later rows stays as it is. *)
LEMMA ReadStays ==
  ASSUME EntriesOk, q \in Statements, NEW u \in Owner, NEW t \in Nat, t <= q.e,
         \/ UNCHANGED logs
         \/ \E o \in open : Commit(o)
         \/ \E old \in SUBSET Entry, r \in Entry : HandAdded(old, r) /\ Late(r.user, r.at),
         u \notin q'.late
  PROVE  Until(u, t)' = Until(u, t)
<1>0. q.kind = "changes" /\ q.e \in Nat
  BY DEF Statements
<1>1. CASE UNCHANGED logs
  BY <1>1 DEF Until, LogsOf
<1>2. CASE \E o \in open : Commit(o)
  <2>1. PICK o \in open : logs' = logs \cup {o} /\ Late(o.user, o.at)
    BY <1>2 DEF Commit
  <2>2. o.at \in Nat
    BY DEF EntriesOk, Entry
  <2>3. CASE o.at <= q.e
    <3>1. q' = [q EXCEPT !.late = @ \cup {o.user}]
      BY <1>0, <2>1, <2>3 DEF Late
    <3>2. o.user # u
      BY <3>1 DEF Statements
    <3> QED
      BY <2>1, <3>2 DEF Until, LogsOf
  <2>4. CASE ~(o.at <= q.e)
    BY <1>0, <2>1, <2>2, <2>4 DEF Until, LogsOf
  <2> QED
    BY <2>3, <2>4
<1>3. CASE \E old \in SUBSET Entry, r \in Entry : HandAdded(old, r) /\ Late(r.user, r.at)
  <2>1. PICK old \in SUBSET Entry, r \in Entry : HandAdded(old, r) /\ Late(r.user, r.at)
    BY <1>3
  <2>2. /\ logs' = old \cup {r} /\ r.at \in Nat
        /\ \A m \in old : \E l \in logs : Kept(l, m)
        /\ \A l \in logs : \E m \in old : Kept(l, m)
        /\ \A l \in logs, m \in old : Kept(l, m) =>
             m.balance = l.balance + IF l.user = r.user /\ l.at > r.at THEN r.amount ELSE 0
    BY <2>1 DEF HandAdded, Twins, Entry
  <2>3. ~(r.user = u /\ r.at <= t)
    <3> SUFFICES ASSUME r.user = u, r.at <= t PROVE FALSE
      OBVIOUS
    <3>1. r.at <= q.e
      BY <1>0, <2>2
    <3>2. q' = [q EXCEPT !.late = @ \cup {r.user}]
      BY <1>0, <2>1, <3>1 DEF Late
    <3> QED
      BY <3>2 DEF Statements
  <2>4. ASSUME NEW l \in logs, NEW m \in old, Kept(l, m), l.user = u, l.at <= t PROVE m = l
    <3>1. l \in Entry /\ m \in Entry
      BY DEF EntriesOk
    <3>2. ~(l.user = r.user /\ l.at > r.at)
      BY <2>2, <2>3, <2>4, <3>1 DEF Entry
    <3>3. m.balance = l.balance
      BY <2>2, <2>4, <3>1, <3>2 DEF Entry
    <3>4. /\ l.id = m.id /\ l.user = m.user /\ l.type = m.type /\ l.amount = m.amount
          /\ l.of = m.of /\ l.at = m.at
      BY <2>4 DEF Kept
    <3> QED
      BY <3>1, <3>3, <3>4 DEF Entry
  <2>5. ASSUME NEW m \in Until(u, t)' PROVE m \in Until(u, t)
    <3>1. m \in old \cup {r} /\ m.user = u /\ m.at <= t
      BY <2>2 DEF Until, LogsOf
    <3>2. m \in old
      BY <2>3, <3>1
    <3>3. PICK l \in logs : Kept(l, m)
      BY <2>2, <3>2
    <3> QED
      BY <2>4, <3>1, <3>2, <3>3 DEF Until, LogsOf, Kept
  <2>6. ASSUME NEW l \in Until(u, t) PROVE l \in Until(u, t)'
    <3>1. l \in logs /\ l.user = u /\ l.at <= t
      BY DEF Until, LogsOf
    <3>2. PICK m \in old : Kept(l, m)
      BY <2>2, <3>1
    <3>3. m = l
      BY <2>4, <3>1, <3>2
    <3> QED
      BY <2>2, <3>1, <3>2, <3>3 DEF Until, LogsOf
  <2> QED
    BY <2>5, <2>6
<1> QED
  BY <1>1, <1>2, <1>3
LEMMA PeriodUntil ==
  ASSUME EntriesOk, q \in Statements, NEW u
  PROVE  Period(u) = {l \in Until(u, q.e) : Within(l, q.s, q.e)} /\ AmountIn(Period(u)) \in Int
<1>1. \A l \in logs : l.at \in Nat
  BY DEF EntriesOk, Entry
<1>2. q.s \in Nat /\ q.e \in Nat
  BY DEF Statements
<1>3. Period(u) = {l \in Until(u, q.e) : Within(l, q.s, q.e)}
  BY <1>1, <1>2 DEF Period, Until, LogsOf, Within
<1>4. Period(u) \in SUBSET logs
  BY DEF Period, LogsOf
<1> QED
  BY <1>3, <1>4, PartAmount

(* The history of a user for a statement, and the record of the statement. *)
SameHistory(u) ==
  /\ Until(u, q.s)' = Until(u, q.s) /\ Until(u, q.e)' = Until(u, q.e)
  /\ Period(u)' = Period(u)

LEMMA HistoryStays ==
  ASSUME EntriesOk, EntriesOk', q \in Statements, q.s < q.e, NEW u \in Owner,
         \/ UNCHANGED logs
         \/ \E o \in open : Commit(o)
         \/ \E old \in SUBSET Entry, r \in Entry : HandAdded(old, r) /\ Late(r.user, r.at),
         u \notin q'.late, q'.s = q.s, q'.e = q.e
  PROVE  SameHistory(u)
<1>1. q.s \in Nat /\ q.e \in Nat /\ q.s <= q.e /\ q.e <= q.e
  BY DEF Statements
<1> DEFINE s == q.s
           e == q.e
<1>2. Until(u, s)' = Until(u, s)
  <2>1. {l \in LogsOf(u)' : l.at <= q.s} = {l \in LogsOf(u) : l.at <= q.s}
    BY <1>1, ReadStays DEF Until
  <2> QED
    BY <2>1 DEF Until
<1>3. Until(u, e)' = Until(u, e)
  BY <1>1, ReadStays DEF Until
<1>4. Period(u)' = Period(u)
  <2>1. \A l \in logs \cup logs' : l.at \in Nat
    BY DEF EntriesOk, Entry
  <2>2. \A l : l \in Until(u, e)' <=> l \in logs' /\ l.user = u /\ l.at <= q.e
    BY DEF Until, LogsOf
  <2>3. \A l : l \in Until(u, e) <=> l \in logs /\ l.user = u /\ l.at <= q.e
    BY DEF Until, LogsOf
  <2>4. \A l : l \in Period(u)' <=> l \in logs' /\ l.user = u /\ Within(l, q.s, q.e)
    BY DEF Period, LogsOf, Within
  <2>5. \A l : l \in Period(u) <=> l \in logs /\ l.user = u /\ Within(l, q.s, q.e)
    BY DEF Period, LogsOf
  <2>6. \A l \in logs \cup logs' : Within(l, q.s, q.e) => l.at <= q.e
    BY <1>1, <2>1 DEF Within
  <2> QED
    BY <1>3, <2>2, <2>3, <2>4, <2>5, <2>6
<1> QED
  BY <1>2, <1>3, <1>4 DEF SameHistory
LEMMA StatementWaits ==
  ASSUME EntriesOk, EntriesOk', StatementInv, q.kind = "changes",
         \/ UNCHANGED <<logs, q>>
         \/ \E o \in open : Commit(o)
         \/ \E old \in SUBSET Entry, r \in Entry : HandAdded(old, r) /\ Late(r.user, r.at)
  PROVE  StatementInv'
<1>1. /\ q \in Statements /\ q.s < q.e
      /\ \A u \in (q.users \ q.late) \ q.lost : StatementOk(u)
      /\ \A u \in q.lost : ~Checked(q.users, u)
      /\ \A u \in q.todo : TimeThere(u, q.max[u])
  BY DEF StatementInv
<1>2. q' = q \/ \E u \in Owner : q' = [q EXCEPT !.late = @ \cup {u}]
  BY DEF Commit, Late, EntriesOk, Entry
<1>3. /\ q' \in Statements /\ q.late \subseteq q'.late
      /\ q'.pc = q.pc /\ q'.s = q.s /\ q'.e = q.e /\ q'.types = q.types /\ q'.users = q.users
      /\ q'.lost = q.lost /\ q'.sum = q.sum /\ q'.max = q.max /\ q'.todo = q.todo
      /\ q'.start = q.start /\ q'.end = q.end
  <2>1. CASE q' = q
    BY <1>1, <2>1
  <2>2. CASE \E u \in Owner : q' = [q EXCEPT !.late = @ \cup {u}]
    BY <1>1, <2>2 DEF Statements
  <2> QED
    BY <1>2, <2>1, <2>2
<1>4. ASSUME NEW u \in (q'.users \ q'.late) \ q'.lost PROVE StatementOk(u)'
  <2>1. u \in Owner /\ u \notin q'.late /\ StatementOk(u)
    BY <1>1, <1>3 DEF Statements
  <2>2. SameHistory(u)
    <3>1. \/ UNCHANGED logs
          \/ \E o \in open : Commit(o)
          \/ \E old \in SUBSET Entry, r \in Entry : HandAdded(old, r) /\ Late(r.user, r.at)
      OBVIOUS
    <3> QED
      BY <1>1, <1>3, <2>1, <3>1, HistoryStays
  <2>3. LastTime(u, q.s)' = LastTime(u, q.s) /\ LastTime(u, q.e)' = LastTime(u, q.e)
    BY <2>2 DEF LastTime, SameHistory
  <2>4. /\ Reading(u, q.s, q.start[u])' <=> Reading(u, q.s, q.start[u])
        /\ Reading(u, q.e, q.end[u])' <=> Reading(u, q.e, q.end[u])
    BY <1>3, <2>2, <2>3 DEF Reading, SameHistory
  <2>5. /\ AmountIn(Until(u, q.s))' = AmountIn(Until(u, q.s))
        /\ AmountIn(Until(u, q.e))' = AmountIn(Until(u, q.e))
        /\ AmountIn(Period(u))' = AmountIn(Period(u))
    BY <2>2 DEF SameHistory
  <2> QED
    BY <1>3, <2>1, <2>4, <2>5 DEF StatementOk
<1>5. \A l \in logs : \E m \in logs' : Kept(l, m)
  BY DEF Commit, HandAdded, Twins, Kept
<1>6. \A u \in q'.todo : TimeThere(u, q.max[u])'
  <2>1. \A u, t : TimeThere(u, t) => TimeThere(u, t)'
    BY <1>5 DEF TimeThere, LogsOf, Kept
  <2> QED
    BY <1>1, <1>3, <2>1 DEF TimeThere
<1> QED
  BY <1>1, <1>3, <1>4, <1>6 DEF StatementInv

LEMMA StatementBegins ==
  ASSUME EntriesOk, NEW w \in Windows, NEW types \in Filters, Statement(w[1], w[2], types)
  PROVE  StatementInv'
<1> DEFINE s == w[1]
           e == w[2]
           owners == {l.user : l \in {m \in Matching(types) : m.at < e}}
           zero == [u \in Owner |-> 0]
<1>1. s \in Nat /\ e \in Nat /\ s < e
  BY WindowType
<1>2. owners \subseteq Owner
  BY DEF Matching, EntriesOk, Entry
<1>3. q' = [kind |-> "changes", pc |-> "summary", s |-> s, e |-> e, types |-> types,
            users |-> owners, sum |-> zero, max |-> zero, todo |-> {}, start |-> zero,
            end |-> zero, lost |-> {}, late |-> {}]
  BY DEF Statement
<1>4. zero \in [Owner -> Nat] /\ zero \in [Owner -> Int] /\ \A u \in Owner : zero[u] = 0
  OBVIOUS
<1> HIDE DEF s, e, owners, zero
<1>5. q' \in Statements
  BY <1>1, <1>2, <1>3, <1>4 DEF Statements
<1>6. ASSUME NEW u \in Owner PROVE StatementOk(u)'
  BY <1>3, <1>4 DEF StatementOk
<1>7. q'.users \subseteq Owner /\ q'.s < q'.e /\ q'.todo = {} /\ q'.lost = {}
  BY <1>1, <1>2, <1>3
<1> QED
  BY <1>5, <1>6, <1>7 DEF StatementInv

(* The queries of a statement. *)
LEMMA LogsAsTheyAre ==
  ASSUME q \in Statements, logs' = logs, q'.s = q.s, q'.e = q.e, NEW u
  PROVE  /\ Until(u, q.s)' = Until(u, q.s) /\ Until(u, q.e)' = Until(u, q.e)
         /\ Period(u)' = Period(u)
         /\ LastTime(u, q.s)' = LastTime(u, q.s) /\ LastTime(u, q.e)' = LastTime(u, q.e)
BY DEF Until, LogsOf, Period, Within, LastTime

LEMMA StatementSummary ==
  ASSUME EntriesOk, StatementInv, q.kind = "changes", MonthSummary
  PROVE  StatementInv'
<1>1. /\ q \in Statements /\ q.s < q.e /\ q.pc = "summary" /\ logs' = logs
      /\ \A u \in (q.users \ q.late) \ q.lost : StatementOk(u)
      /\ \A u \in q.lost : ~Checked(q.users, u)
      /\ \A u \in q.todo : TimeThere(u, q.max[u])
  BY DEF StatementInv, MonthSummary
<1> DEFINE chosen(u) == {l \in Matching(q.types) :
                         l.user = u /\ u \in q.users /\ l.type \in Columns /\ Within(l, q.s, q.e)}
           sum == [u \in Owner |-> AmountIn(chosen(u))]
<1>2. q' = [q EXCEPT !.pc = "start", !.sum = sum]
  BY DEF MonthSummary
<1>3. sum \in [Owner -> Int]
  <2>1. \A u \in Owner : chosen(u) \in SUBSET logs
    BY DEF Matching
  <2> HIDE DEF chosen
  <2>2. \A u \in Owner : AmountIn(chosen(u)) \in Int
    BY <2>1, PartAmount
  <2> QED
    BY <2>2
<1>4. ASSUME NEW u \in q.users, q.types = {} PROVE chosen(u) = Period(u) /\ u \in Owner
  BY <1>1, <1>4 DEF Matching, Period, LogsOf, EntriesOk, Entry, Statements
<1>5. ASSUME NEW u \in q.users, q.types = {} PROVE sum[u] = AmountIn(Period(u))
  BY <1>4, <1>5
<1> HIDE DEF sum, chosen
<1>6. /\ q' \in Statements /\ q'.pc = "start" /\ q'.sum = sum /\ q'.s = q.s /\ q'.e = q.e
      /\ q'.types = q.types /\ q'.users = q.users /\ q'.late = q.late /\ q'.lost = q.lost
      /\ q'.start = q.start /\ q'.end = q.end /\ q'.todo = q.todo /\ q'.max = q.max
  BY <1>1, <1>2, <1>3 DEF Statements
<1>7. ASSUME NEW u \in (q.users \ q.late) \ q.lost PROVE StatementOk(u)'
  <2>1. q.start[u] = 0 /\ q.end[u] = 0
    BY <1>1 DEF StatementOk
  <2>2. Period(u)' = Period(u)
    BY <1>1, <1>6, LogsAsTheyAre
  <2>3. q.types = {} => sum[u] = AmountIn(Period(u))
    BY <1>5
  <2> QED
    BY <1>6, <2>1, <2>2, <2>3 DEF StatementOk
<1>8. \A u \in q'.todo : TimeThere(u, q.max[u])'
  BY <1>1, <1>6 DEF TimeThere, LogsOf
<1> QED
  BY <1>1, <1>6, <1>7, <1>8 DEF StatementInv
LEMMA TimesRead ==
  ASSUME EntriesOk, q \in Statements, NEW date, NEW pc, NEW next, LastTimes(pc, next, date),
         next \in {"starts", "ends"}
  PROVE  /\ q' \in Statements /\ q'.pc = next /\ q'.sum = q.sum /\ q'.s = q.s /\ q'.e = q.e
         /\ q'.types = q.types /\ q'.users = q.users /\ q'.late = q.late /\ q'.lost = q.lost
         /\ q'.start = q.start /\ q'.end = q.end /\ logs' = logs
         /\ \A u \in q.users : u \in q'.todo <=> Until(u, date) # {}
         /\ \A u \in q.users : q'.max[u] = LastTime(u, date)
         /\ \A u \in q'.todo : TimeThere(u, q.max[u])'
<1> DEFINE max == [u \in Owner |-> Max({0} \cup {l.at : l \in Until(u, date)})]
           todo == {u \in q.users : Until(u, date) # {}}
<1>1. q' = [q EXCEPT !.pc = next, !.max = max, !.todo = todo] /\ logs' = logs
  BY DEF LastTimes
<1>2. \A u \in Owner : max[u] = LastTime(u, date)
  BY DEF LastTime
<1>3. max \in [Owner -> Nat]
  BY <1>2, LastTimeFacts
<1>4. todo \subseteq Owner /\ q.users \subseteq Owner
  BY DEF Statements
<1>5. \A u \in q.users : u \in todo <=> Until(u, date) # {}
  OBVIOUS
<1> HIDE DEF max, todo
<1>6. q' \in Statements /\ q'.max = max /\ q'.todo = todo
  BY <1>1, <1>3, <1>4 DEF Statements
<1>7. /\ q'.pc = next /\ q'.sum = q.sum /\ q'.s = q.s /\ q'.e = q.e
      /\ q'.types = q.types /\ q'.users = q.users /\ q'.late = q.late /\ q'.lost = q.lost
      /\ q'.start = q.start /\ q'.end = q.end
  BY <1>1 DEF Statements
<1>8. \A u \in todo : TimeThere(u, max[u])
  <2> SUFFICES ASSUME NEW u \in todo PROVE TimeThere(u, max[u])
    OBVIOUS
  <2>1. u \in Owner /\ Until(u, date) # {}
    BY <1>4 DEF todo
  <2>2. \E l \in Until(u, date) : l.at = LastTime(u, date)
    BY <2>1, LastTimeFacts
  <2> QED
    BY <1>2, <2>1, <2>2 DEF TimeThere, Until
<1>9. \A u \in q'.todo : TimeThere(u, q.max[u])'
  BY <1>1, <1>6, <1>8 DEF TimeThere, LogsOf
<1>10. \A u \in q.users : u \in q'.todo <=> Until(u, date) # {}
  BY <1>5, <1>6
<1>11. \A u \in q.users : q'.max[u] = LastTime(u, date)
  BY <1>2, <1>4, <1>6
<1> QED
  BY <1>1, <1>6, <1>7, <1>9, <1>10, <1>11

LEMMA StatementTimes ==
  ASSUME EntriesOk, StatementInv, q.kind = "changes",
         LastTimes("start", "starts", q.s) \/ LastTimes("end", "ends", q.e)
  PROVE  StatementInv'
<1>1. /\ q \in Statements /\ q.s < q.e
      /\ \A u \in (q.users \ q.late) \ q.lost : StatementOk(u)
      /\ \A u \in q.lost : ~Checked(q.users, u)
  BY DEF StatementInv
<1>2. CASE LastTimes("start", "starts", q.s)
  <2>1. /\ q' \in Statements /\ q'.pc = "starts" /\ q'.sum = q.sum /\ q'.s = q.s /\ q'.e = q.e
        /\ q'.types = q.types /\ q'.users = q.users /\ q'.late = q.late /\ q'.lost = q.lost
        /\ q'.start = q.start /\ q'.end = q.end /\ logs' = logs
        /\ \A u \in q.users : u \in q'.todo <=> Until(u, q.s) # {}
        /\ \A u \in q.users : q'.max[u] = LastTime(u, q.s)
        /\ \A u \in q'.todo : TimeThere(u, q.max[u])'
    BY <1>1, <1>2, TimesRead
  <2>2. q.pc = "start"
    BY <1>2 DEF LastTimes
  <2>3. ASSUME NEW u \in (q.users \ q.late) \ q.lost PROVE StatementOk(u)'
    <3>1. /\ Until(u, q.s)' = Until(u, q.s) /\ Period(u)' = Period(u)
          /\ LastTime(u, q.s)' = LastTime(u, q.s)
      BY <1>1, <2>1, LogsAsTheyAre
    <3>2. /\ q.start[u] = 0 /\ q.end[u] = 0
          /\ q.types = {} => q.sum[u] = AmountIn(Period(u))
      BY <1>1, <2>2 DEF StatementOk
    <3>3. Reading(u, q.s, q.start[u])'
      <4>1. CASE Until(u, q.s) = {}
        BY <2>1, <3>1, <3>2, <4>1, AmountNone DEF Reading
      <4>2. CASE Until(u, q.s) # {}
        BY <2>1, <3>1, <4>2 DEF Reading
      <4> QED
        BY <4>1, <4>2
    <3> QED
      BY <2>1, <3>1, <3>2, <3>3 DEF StatementOk
  <2> QED
    BY <1>1, <2>1, <2>3 DEF StatementInv
<1>3. CASE LastTimes("end", "ends", q.e)
  <2>1. /\ q' \in Statements /\ q'.pc = "ends" /\ q'.sum = q.sum /\ q'.s = q.s /\ q'.e = q.e
        /\ q'.types = q.types /\ q'.users = q.users /\ q'.late = q.late /\ q'.lost = q.lost
        /\ q'.start = q.start /\ q'.end = q.end /\ logs' = logs
        /\ \A u \in q.users : u \in q'.todo <=> Until(u, q.e) # {}
        /\ \A u \in q.users : q'.max[u] = LastTime(u, q.e)
        /\ \A u \in q'.todo : TimeThere(u, q.max[u])'
    BY <1>1, <1>3, TimesRead
  <2>2. q.pc = "end"
    BY <1>3 DEF LastTimes
  <2>3. ASSUME NEW u \in (q.users \ q.late) \ q.lost PROVE StatementOk(u)'
    <3>1. /\ Until(u, q.s)' = Until(u, q.s) /\ Until(u, q.e)' = Until(u, q.e)
          /\ Period(u)' = Period(u) /\ LastTime(u, q.e)' = LastTime(u, q.e)
      BY <1>1, <2>1, LogsAsTheyAre
    <3>2. /\ q.end[u] = 0 /\ q.start[u] = AmountIn(Until(u, q.s))
          /\ q.types = {} => q.sum[u] = AmountIn(Period(u))
      BY <1>1, <2>2 DEF StatementOk
    <3>3. Reading(u, q.e, q.end[u])'
      <4>1. CASE Until(u, q.e) = {}
        BY <2>1, <3>1, <3>2, <4>1, AmountNone DEF Reading
      <4>2. CASE Until(u, q.e) # {}
        BY <2>1, <3>1, <4>2 DEF Reading
      <4> QED
        BY <4>1, <4>2
    <3> QED
      BY <2>1, <3>1, <3>2, <3>3 DEF StatementOk
  <2> QED
    BY <1>1, <2>1, <2>3 DEF StatementInv
<1> QED
  BY <1>2, <1>3

LEMMA StatementStarts ==
  ASSUME TablesOk, StatementInv, q.kind = "changes", NEW v \in Owner, ReadStart(v)
  PROVE  StatementInv'
<1>1. /\ q \in Statements /\ q.s < q.e /\ EntriesOk
      /\ \A u \in (q.users \ q.late) \ q.lost : StatementOk(u)
      /\ \A u \in q.lost : ~Checked(q.users, u)
      /\ \A u \in q.todo : TimeThere(u, q.max[u])
      /\ q.pc = "starts" /\ v \in q.todo /\ logs' = logs
  BY DEF StatementInv, TablesOk, ReadStart
<1> DEFINE b == LastAt(v, q.max[v]).balance
<1>2. b \in Int
  <2>1. LastAt(v, q.max[v]) \in logs
    BY <1>1, LastAtThere DEF LogsOf
  <2> QED
    BY <1>1, <2>1 DEF EntriesOk, Entry
<1>3. ASSUME v \in (q.users \ q.late) \ q.lost PROVE b = AmountIn(Until(v, q.s))
  <2>1. Until(v, q.s) # {} /\ q.max[v] = LastTime(v, q.s)
    BY <1>1, <1>3 DEF StatementOk, Reading
  <2>2. q.s \in Nat
    BY <1>1 DEF Statements
  <2> QED
    BY <2>1, <2>2, BalanceAtDate
<1>4. q' = [q EXCEPT !.start[v] = b, !.todo = @ \ {v}]
  BY DEF ReadStart
<1> HIDE DEF b
<1>5. /\ q' \in Statements /\ q'.pc = q.pc /\ q'.sum = q.sum /\ q'.s = q.s /\ q'.e = q.e
      /\ q'.types = q.types /\ q'.users = q.users /\ q'.late = q.late /\ q'.lost = q.lost
      /\ q'.max = q.max /\ q'.todo = q.todo \ {v}
      /\ q'.start = [q.start EXCEPT ![v] = b] /\ q'.end = q.end
  BY <1>1, <1>2, <1>4 DEF Statements
<1>6. ASSUME NEW u \in (q.users \ q.late) \ q.lost PROVE StatementOk(u)'
  <2>1. /\ Until(u, q.s)' = Until(u, q.s) /\ Period(u)' = Period(u)
        /\ LastTime(u, q.s)' = LastTime(u, q.s)
    BY <1>1, <1>5, LogsAsTheyAre
  <2>2. /\ q.end[u] = 0 /\ Reading(u, q.s, q.start[u])
        /\ q.types = {} => q.sum[u] = AmountIn(Period(u))
    BY <1>1 DEF StatementOk
  <2>3. u \in Owner /\ q.start \in [Owner -> Int]
    BY <1>1 DEF Statements
  <2>4. Reading(u, q.s, q.start[u])'
    <3>1. CASE u = v
      BY <1>3, <1>5, <2>1, <2>3, <3>1 DEF Reading
    <3>2. CASE u # v
      BY <1>5, <2>1, <2>2, <2>3, <3>2 DEF Reading
    <3> QED
      BY <3>1, <3>2
  <2> QED
    BY <1>1, <1>5, <2>1, <2>2, <2>4 DEF StatementOk
<1>7. \A u \in q'.todo : TimeThere(u, q.max[u])'
  BY <1>1, <1>5 DEF TimeThere, LogsOf
<1> QED
  BY <1>1, <1>5, <1>6, <1>7 DEF StatementInv

LEMMA StatementEnds ==
  ASSUME TablesOk, StatementInv, q.kind = "changes", NEW v \in Owner, ReadEnd(v)
  PROVE  StatementInv'
<1>1. /\ q \in Statements /\ q.s < q.e /\ EntriesOk
      /\ \A u \in (q.users \ q.late) \ q.lost : StatementOk(u)
      /\ \A u \in q.lost : ~Checked(q.users, u)
      /\ \A u \in q.todo : TimeThere(u, q.max[u])
      /\ q.pc = "ends" /\ v \in q.todo /\ logs' = logs
  BY DEF StatementInv, TablesOk, ReadEnd
<1> DEFINE b == LastAt(v, q.max[v]).balance
<1>2. b \in Int
  <2>1. LastAt(v, q.max[v]) \in logs
    BY <1>1, LastAtThere DEF LogsOf
  <2> QED
    BY <1>1, <2>1 DEF EntriesOk, Entry
<1>3. ASSUME v \in (q.users \ q.late) \ q.lost PROVE b = AmountIn(Until(v, q.e))
  <2>1. Until(v, q.e) # {} /\ q.max[v] = LastTime(v, q.e)
    BY <1>1, <1>3 DEF StatementOk, Reading
  <2>2. q.e \in Nat
    BY <1>1 DEF Statements
  <2> QED
    BY <2>1, <2>2, BalanceAtDate
<1>4. q' = [q EXCEPT !.end[v] = b, !.todo = @ \ {v}]
  BY DEF ReadEnd
<1> HIDE DEF b
<1>5. /\ q' \in Statements /\ q'.pc = q.pc /\ q'.sum = q.sum /\ q'.s = q.s /\ q'.e = q.e
      /\ q'.types = q.types /\ q'.users = q.users /\ q'.late = q.late /\ q'.lost = q.lost
      /\ q'.max = q.max /\ q'.todo = q.todo \ {v}
      /\ q'.start = q.start /\ q'.end = [q.end EXCEPT ![v] = b]
  BY <1>1, <1>2, <1>4 DEF Statements
<1>6. ASSUME NEW u \in (q.users \ q.late) \ q.lost PROVE StatementOk(u)'
  <2>1. /\ Until(u, q.s)' = Until(u, q.s) /\ Until(u, q.e)' = Until(u, q.e)
        /\ Period(u)' = Period(u) /\ LastTime(u, q.e)' = LastTime(u, q.e)
    BY <1>1, <1>5, LogsAsTheyAre
  <2>2. /\ q.start[u] = AmountIn(Until(u, q.s)) /\ Reading(u, q.e, q.end[u])
        /\ q.types = {} => q.sum[u] = AmountIn(Period(u))
    BY <1>1 DEF StatementOk
  <2>3. u \in Owner /\ q.end \in [Owner -> Int]
    BY <1>1 DEF Statements
  <2>4. Reading(u, q.e, q.end[u])'
    <3>1. CASE u = v
      BY <1>3, <1>5, <2>1, <2>3, <3>1 DEF Reading
    <3>2. CASE u # v
      BY <1>5, <2>1, <2>2, <2>3, <3>2 DEF Reading
    <3> QED
      BY <3>1, <3>2
  <2> QED
    BY <1>1, <1>5, <2>1, <2>2, <2>4 DEF StatementOk
<1>7. \A u \in q'.todo : TimeThere(u, q.max[u])'
  BY <1>1, <1>5 DEF TimeThere, LogsOf
<1> QED
  BY <1>1, <1>5, <1>6, <1>7 DEF StatementInv

(* A failed read ends the statement or leaves the balance as it is. *)
LEMMA StatementFails ==
  ASSUME EntriesOk, StatementInv, q.kind = "changes", NEW v \in Owner, ReadFails(v)
  PROVE  StatementInv'
<1>1. /\ q \in Statements /\ q.s < q.e
      /\ \A u \in (q.users \ q.late) \ q.lost : StatementOk(u)
      /\ \A u \in q.lost : ~Checked(q.users, u)
      /\ \A u \in q.todo : TimeThere(u, q.max[u])
      /\ v \in q.todo /\ logs' = logs
  BY DEF StatementInv, ReadFails
<1>2. CASE Checked(q.users, v)
  BY <1>2 DEF ReadFails, NoQuery, StatementInv
<1>3. CASE ~Checked(q.users, v)
  <2>1. q' = [q EXCEPT !.todo = @ \ {v}, !.lost = @ \cup {v}]
    BY <1>3 DEF ReadFails
  <2>2. /\ q' \in Statements /\ q'.pc = q.pc /\ q'.sum = q.sum /\ q'.s = q.s /\ q'.e = q.e
        /\ q'.types = q.types /\ q'.users = q.users /\ q'.late = q.late
        /\ q'.max = q.max /\ q'.todo = q.todo \ {v} /\ q'.lost = q.lost \cup {v}
        /\ q'.start = q.start /\ q'.end = q.end
    BY <1>1, <2>1 DEF Statements
  <2>3. ASSUME NEW u \in (q.users \ q.late) \ q'.lost PROVE StatementOk(u)'
    <3>1. /\ Until(u, q.s)' = Until(u, q.s) /\ Until(u, q.e)' = Until(u, q.e)
          /\ Period(u)' = Period(u)
          /\ LastTime(u, q.s)' = LastTime(u, q.s) /\ LastTime(u, q.e)' = LastTime(u, q.e)
      BY <1>1, <2>2, LogsAsTheyAre
    <3>2. u # v /\ StatementOk(u)
      BY <1>1, <2>2, <2>3
    <3>3. /\ Reading(u, q.s, q.start[u])' <=> Reading(u, q.s, q.start[u])
          /\ Reading(u, q.e, q.end[u])' <=> Reading(u, q.e, q.end[u])
      BY <2>2, <3>1, <3>2 DEF Reading
    <3> QED
      BY <2>2, <3>1, <3>2, <3>3 DEF StatementOk
  <2>4. \A u \in q'.todo : TimeThere(u, q.max[u])'
    BY <1>1, <2>2 DEF TimeThere, LogsOf
  <2> QED
    BY <1>1, <1>3, <2>2, <2>3, <2>4 DEF StatementInv
<1> QED
  BY <1>2, <1>3

LEMMA StatementRead ==
  ASSUME EntriesOk, StatementInv, q.kind = "changes",
         AllRead("starts", "end") \/ AllRead("ends", "done")
  PROVE  StatementInv'
<1>1. /\ q \in Statements /\ q.s < q.e /\ q.todo = {} /\ logs' = logs
      /\ \A u \in (q.users \ q.late) \ q.lost : StatementOk(u)
      /\ \A u \in q.lost : ~Checked(q.users, u)
  BY DEF StatementInv, AllRead
<1>2. PICK pc \in {"end", "done"} :
        /\ q' = [q EXCEPT !.pc = pc]
        /\ q.pc = IF pc = "end" THEN "starts" ELSE "ends"
  <2>1. CASE AllRead("starts", "end")
    BY <2>1 DEF AllRead
  <2>2. CASE AllRead("ends", "done")
    BY <2>2 DEF AllRead
  <2> QED
    BY <2>1, <2>2
<1>3. /\ q' \in Statements /\ q'.pc = pc /\ q'.sum = q.sum /\ q'.s = q.s /\ q'.e = q.e
      /\ q'.types = q.types /\ q'.users = q.users /\ q'.late = q.late /\ q'.lost = q.lost
      /\ q'.todo = {} /\ q'.start = q.start /\ q'.end = q.end
  BY <1>1, <1>2 DEF Statements
<1>4. ASSUME NEW u \in (q.users \ q.late) \ q.lost PROVE StatementOk(u)'
  <2>1. /\ Until(u, q.s)' = Until(u, q.s) /\ Until(u, q.e)' = Until(u, q.e)
        /\ Period(u)' = Period(u)
    BY <1>1, <1>3, LogsAsTheyAre
  <2>2. CASE pc = "end"
    <3>1. /\ q.end[u] = 0 /\ q.start[u] = AmountIn(Until(u, q.s))
          /\ q.types = {} => q.sum[u] = AmountIn(Period(u))
      BY <1>1, <1>2, <2>2 DEF StatementOk, Reading
    <3> QED
      BY <1>3, <2>1, <2>2, <3>1 DEF StatementOk
  <2>3. CASE pc = "done"
    <3>1. /\ q.end[u] = AmountIn(Until(u, q.e)) /\ q.start[u] = AmountIn(Until(u, q.s))
          /\ q.types = {} => q.sum[u] = AmountIn(Period(u))
      BY <1>1, <1>2, <2>3 DEF StatementOk, Reading
    <3> QED
      BY <1>3, <2>1, <2>3, <3>1 DEF StatementOk
  <2> QED
    BY <2>2, <2>3
<1> QED
  BY <1>1, <1>3, <1>4 DEF StatementInv

LEMMA NextStatementInv ==
  TablesOk /\ TablesOk' /\ StatementInv /\ SearchInv /\ [NextReports]_reportVars => StatementInv'
<1> SUFFICES ASSUME TablesOk, TablesOk', StatementInv, SearchInv, [NextReports]_reportVars
             PROVE  StatementInv'
  OBVIOUS
<1>1. EntriesOk /\ EntriesOk'
  BY DEF TablesOk
<1>2. CASE \/ UNCHANGED <<logs, q>>
           \/ \E o \in open : Commit(o)
           \/ \E old \in SUBSET Entry, r \in Entry : HandAdded(old, r) /\ Late(r.user, r.at)
  <2>1. CASE q.kind = "changes"
    BY <1>1, <1>2, <2>1, StatementWaits
  <2>2. CASE q.kind # "changes"
    <3>1. q' = q
      BY <1>2, <2>2 DEF Commit, Late
    <3> QED
      BY <2>2, <3>1 DEF StatementInv
  <2> QED
    BY <2>1, <2>2
<1>3. CASE Changes
  <2>1. CASE \E w \in Windows, types \in Filters : Statement(w[1], w[2], types)
    BY <1>1, <2>1, StatementBegins
  <2>2. CASE q.kind = "changes" /\ MonthSummary
    BY <1>1, <2>2, StatementSummary
  <2>3. CASE q.kind = "changes" /\ (LastTimes("start", "starts", q.s) \/ LastTimes("end", "ends", q.e))
    BY <1>1, <2>3, StatementTimes
  <2>4. CASE q.kind = "changes" /\ (AllRead("starts", "end") \/ AllRead("ends", "done"))
    BY <1>1, <2>4, StatementRead
  <2>5. CASE q.kind = "changes" /\ \E u \in Owner : ReadStart(u) \/ ReadEnd(u) \/ ReadFails(u)
    BY <1>1, <2>5, StatementStarts, StatementEnds, StatementFails
  <2> QED
    BY <1>3, <2>1, <2>2, <2>3, <2>4, <2>5 DEF Changes
<1>4. CASE Strays \/ Lists \/ QueryFails
  <2>1. q'.kind # "changes"
    BY <1>4, StraysKind, ListsKind, FailsKind DEF Listing
  <2> QED
    BY <2>1 DEF StatementInv
<1>5. \/ UNCHANGED <<logs, q>>
      \/ \E o \in open : Commit(o)
      \/ \E old \in SUBSET Entry, r \in Entry : HandAdded(old, r) /\ Late(r.user, r.at)
      \/ Changes \/ Strays \/ Lists \/ QueryFails
  BY <1>1, RowSteps DEF Written
<1> QED
  BY <1>2, <1>3, <1>4, <1>5
-----------------------------------------------------------------------------
LEMMA InitQueries == InitReports => StatementInv /\ SearchInv /\ WalkInv
BY DEF InitReports, NoQuery, StatementInv, SearchInv, WalkInv, Listing

(* Rows keep their numbers, times and running balances, and the queries what they have
   seen of them: db transactions and fiat_log.go. *)
THEOREM ReportsInvariant == SpecReports => []ReportsInv
<1>1. InitReports => ReportsInv
  BY InitTablesOk, InitQueries DEF ReportsInv
<1>2. ReportsInv /\ [NextReports]_reportVars => ReportsInv'
  BY NextTablesOk, NextStatementInv, NextSearchInv, NextWalkInv DEF ReportsInv
<1> QED
  BY <1>1, <1>2, PTL DEF SpecReports
(* The balances at two dates differ by the changes between them. *)
LEMMA BalancesDiffer ==
  ASSUME EntriesOk, NEW u, NEW s \in Nat, NEW e \in Nat, s < e
  PROVE  LET period == {l \in LogsOf(u) : Within(l, s, e)}
         IN  AmountIn(Until(u, e)) - AmountIn(Until(u, s)) = AmountIn(period) - At(u, s) + At(u, e)
<1> DEFINE chosen == LogsOf(u)
           earlier == {l \in chosen : l.at < s}
           first == {l \in chosen : l.at = s}
           period == {l \in chosen : Within(l, s, e)}
           last == {l \in chosen : l.at = e}
<1>1. chosen \subseteq logs /\ \A l \in chosen : l.at \in Nat /\ l.amount \in Int
  BY DEF LogsOf, EntriesOk, Entry
<1>2. /\ Until(u, s) = earlier \cup first /\ earlier \cap first = {}
      /\ Until(u, e) = (earlier \cup period) \cup last
      /\ earlier \cap period = {} /\ (earlier \cup period) \cap last = {}
  BY <1>1 DEF Until, Within
<1>3. /\ {earlier, first, period, last} \subseteq SUBSET logs
      /\ \A l \in earlier \cup first \cup period \cup last : l.amount \in Int
  BY <1>1
<1>4. At(u, s) = AmountIn(first) /\ At(u, e) = AmountIn(last)
  BY DEF At
<1> HIDE DEF earlier, first, period, last, chosen
<1>5. /\ IsFiniteSet(earlier) /\ AmountIn(earlier) \in Int
      /\ IsFiniteSet(first) /\ AmountIn(first) \in Int
  BY <1>3, PartAmount
<1>6. /\ IsFiniteSet(period) /\ AmountIn(period) \in Int
      /\ IsFiniteSet(last) /\ AmountIn(last) \in Int
  BY <1>3, PartAmount
<1>7. AmountIn(earlier \cup first) = AmountIn(earlier) + AmountIn(first)
  BY <1>2, <1>3, <1>5, AmountUnion
<1>8. AmountIn(earlier \cup period) = AmountIn(earlier) + AmountIn(period)
  BY <1>2, <1>3, <1>5, <1>6, AmountUnion
<1>9. IsFiniteSet(earlier \cup period)
  BY <1>5, <1>6, FS_Union
<1>10. AmountIn((earlier \cup period) \cup last) = AmountIn(earlier \cup period) + AmountIn(last)
  BY <1>2, <1>3, <1>6, <1>9, AmountUnion
<1>11. AmountIn(Until(u, e)) - AmountIn(Until(u, s)) = AmountIn(period) - At(u, s) + At(u, e)
  BY <1>2, <1>4, <1>5, <1>6, <1>7, <1>8, <1>10
<1> QED
  BY <1>11 DEF period, chosen

(* Statements add up for any users, postings and windows, but for a user whose failed read
   is not checked: fiat_log.go:344-427, 509-533. *)
THEOREM StatementsAddUp == SpecReports => []StatementAddsUp
<1>1. ReportsInv => StatementAddsUp
  <2> SUFFICES ASSUME ReportsInv, q.kind = "changes", q.pc = "done", q.types = {},
                      NEW u \in q.users \ q.late, ~Dropped(u)
               PROVE  q.end[u] - q.start[u] = q.sum[u] - At(u, q.s) + At(u, q.e)
    BY DEF StatementAddsUp
  <2>0. u \notin q.lost
    BY DEF ReportsInv, StatementInv, Dropped
  <2>1. EntriesOk /\ q.s \in Nat /\ q.e \in Nat /\ q.s < q.e /\ StatementOk(u)
    BY <2>0 DEF ReportsInv, TablesOk, StatementInv, Statements
  <2>2. /\ q.end[u] = AmountIn(Until(u, q.e)) /\ q.start[u] = AmountIn(Until(u, q.s))
        /\ q.sum[u] = AmountIn(Period(u))
    BY <2>1 DEF StatementOk
  <2>3. AmountIn(Until(u, q.e)) - AmountIn(Until(u, q.s)) = AmountIn(Period(u)) - At(u, q.s) + At(u, q.e)
    BY <2>1, BalancesDiffer DEF Period
  <2> QED
    BY <2>2, <2>3
<1> QED
  BY <1>1, ReportsInvariant, PTL

(* A search finds the purchases that came to nothing: fiat_log.go:428-468. *)
THEOREM StraysAreFound == SpecReports => []StraysFound
<1>1. ReportsInv => StraysFound
  BY DEF ReportsInv, SearchInv, StraysFound
<1> QED
  BY <1>1, ReportsInvariant, PTL

(* Whoever turns all pages has seen every row: fiat_log.go:223-251, 82-87. *)
THEOREM WalksAreComplete == SpecReports => []WalkComplete
<1>1. ReportsInv => WalkComplete
  BY DEF ReportsInv, WalkInv, Awaited, WalkComplete
<1> QED
  BY <1>1, ReportsInvariant, PTL
=============================================================================
