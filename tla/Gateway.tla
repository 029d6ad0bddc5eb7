------------------------------- MODULE Gateway -------------------------------
(***************************************************************************)
(* What lets the gateway count a call: the rows of a user and the rich     *)
(* flag. UserCreated of server/settle.go and the start of the server make  *)
(* the rows (user_api_quota.go, user_settled.go); refreshRichFlag copies   *)
(* to redis, for each user, which cost types it can pay (redis_rich.go);   *)
(* the gateway counts a call if CheckIsRich; the settle loop charges it,   *)
(* and panics when it does not find the row it notes the charge on.        *)
(*                                                                         *)
(* Users are created by another program, with their row of user_balances.  *)
(* A statement is a step; Settle has the steps of the loop.                *)
(***************************************************************************)
EXTENDS Integers, FiniteSets, FiniteSetsExt

CONSTANTS
  User, CostType,
  Mint,              \* COST_TYPE_RAINBOW_MINT
  Old,               \* users created long ago, with their rows
  Post,              \* users of USER_PAY_TYPE_POST
  Price, MintPrice,  \* of the API profiles, and of POST users
  DefaultQuota,      \* what the default plan gives
  Funds,             \* balance plus arrears quota users may start with
  Handler,           \* goroutines of gRPC
  MaxCalls, MaxMoves, MaxRequests, MaxFaults  \* bounds on calls, deposits,
                                              \* UserCreated, and faults

ASSUME GatewayAssumption ==
  /\ Mint \in CostType /\ Old \subseteq User /\ Post \subseteq User
  /\ {Price, DefaultQuota} \subseteq [CostType -> Nat] /\ MintPrice \in Nat
  /\ Funds \subseteq Nat
  /\ {MaxCalls, MaxMoves, MaxRequests, MaxFaults} \subseteq Nat

VARIABLES
  users,        \* the rows of users
  quotaRows,    \* how many rows each cost type of a user has in user_api_quota,
  settledRows,  \* and in user_settleds: all cost types are inserted at once
  quota,        \* count_reset plus count_rollover
  funds,        \* balance plus arrears quota
  count,        \* redis: calls not settled yet
  flag,         \* redis: the cost types of RichKey; no key is no cost type
  server,       \* "down", "models" while it starts, "up"
  handler,      \* UserCreated in progress
  refresh,      \* refreshRichFlag
  calls, moves, requests, faults,
  created,      \* history: users whose UserCreated has returned without error
  overlapped,   \* history: users with two UserCreated at a time
  panics,       \* history: panics of the loop over each user
  recent, before,  \* history: what a user could pay at some time since the last
                   \* refresh began, and in the period of the one before
  broken        \* history: refreshes have failed since the last complete one

rows == <<users, quotaRows, settledRows>>
money == <<quota, funds, count>>
bounds == <<calls, moves, requests, faults>>
history == <<created, overlapped, panics, recent, before, broken>>
vars == <<rows, money, flag, server, handler, refresh, bounds, history>>

Idle == [pc |-> "idle", users |-> {}]
NoRefresh == [flags |-> << >>, todo |-> {}]

Init ==
  /\ users = Old
  /\ quotaRows = [u \in User |-> IF u \in Old THEN 1 ELSE 0]
  /\ settledRows = quotaRows
  /\ quota = [u \in User |-> [c \in CostType |-> 0]]
  /\ funds \in [User -> Funds]
  /\ count = [u \in User |-> [c \in CostType |-> 0]]
  /\ flag = [u \in User |-> {}]
  /\ server = "up"
  /\ handler = [h \in Handler |-> Idle]
  /\ refresh = NoRefresh
  /\ calls = 0 /\ moves = 0 /\ requests = 0 /\ faults = 0
  /\ created = Old /\ overlapped = {} /\ panics = [u \in User |-> 0]
  /\ recent = [u \in User |-> {}] /\ before = recent /\ broken = FALSE

GetApiPrice(u, c) == IF u \notin Post THEN Price[c] ELSE IF c = Mint THEN MintPrice ELSE 0
-----------------------------------------------------------------------------
(* calcRichFlag over the joined rows of a user.  Only mints of POST users must be
   paid for. *)
RichTypes(u) ==
  {c \in CostType :
     \/ quota[u][c] > 0
     \/ funds[u] >= GetApiPrice(u, c)
     \/ u \in Post /\ c # Mint}

(* Without quota rows the cost type of the join is 0: it has no price, an error, but
   for POST users, who get the bit of cost type 0. *)
Failing(u) == quotaRows[u] = 0 /\ u \notin Post
CalcRichFlag(u) ==
  [fails |-> Failing(u), value |-> IF quotaRows[u] = 0 THEN {} ELSE RichTypes(u)]

(* The SELECT.  The flag is a function of what it finds. *)
RefreshStart ==
  /\ server = "up" /\ refresh = NoRefresh
  /\ refresh' = [flags |-> [u \in users |-> CalcRichFlag(u)],
                 todo |-> users]
  /\ before' = recent
  /\ recent' = [u \in User |-> RichTypes(u)]
  /\ UNCHANGED <<rows, money, flag, server, handler, bounds, created, overlapped, panics,
                 broken>>

(* Faulty variant: only the flags of the rich are set. *)
SetRich(u) ==
  IF refresh.flags[u].value = {} THEN flag ELSE [flag EXCEPT ![u] = refresh.flags[u].value]
Set(u) == [flag EXCEPT ![u] = refresh.flags[u].value]

(* One SET for each user, in the order of a Go map. *)
RefreshUser(u) ==
  /\ u \in refresh.todo
  /\ ~refresh.flags[u].fails
  /\ flag' = Set(u)
  /\ LET left == refresh.todo \ {u} IN
     /\ refresh' = IF left = {} THEN NoRefresh ELSE [refresh EXCEPT !.todo = left]
     /\ broken' = (broken /\ left # {})
  /\ UNCHANGED <<rows, money, server, handler, bounds, created, overlapped, panics, recent,
                 before>>

(* Faulty variant: an error ends the loop, too. *)
ReturnForGood ==
  /\ refresh' = [refresh EXCEPT !.todo = {}]
  /\ broken' = TRUE
  /\ UNCHANGED <<rows, money, flag, server, handler, calls, moves, requests, created,
                 overlapped, panics, recent, before>>
(* An error returns: the users not reached yet keep their flags. *)
Return ==
  /\ refresh' = NoRefresh
  /\ broken' = TRUE
  /\ UNCHANGED <<rows, money, flag, server, handler, calls, moves, requests, created,
                 overlapped, panics, recent, before>>
RefreshNoPrice(u) ==
  /\ u \in refresh.todo
  /\ refresh.flags[u].fails
  /\ Return
  /\ UNCHANGED faults
RefreshFails ==
  /\ refresh.todo # {}
  /\ faults < MaxFaults /\ faults' = faults + 1
  /\ Return
-----------------------------------------------------------------------------
(* A user who can pay more than before can pay it from now on. *)
Remember == recent' = [u \in User |-> recent[u] \cup RichTypes(u)']

(* The gateway counts a call. *)
ApiCall(u, c) ==
  /\ calls < MaxCalls
  /\ c \in flag[u]
  /\ calls' = calls + 1
  /\ count' = [count EXCEPT ![u][c] = @ + 1]
  /\ UNCHANGED <<rows, quota, funds, flag, server, handler, refresh, moves, requests,
                 faults, history>>

DepositBalance(u) ==
  /\ u \in users
  /\ moves < MaxMoves
  /\ moves' = moves + 1
  /\ funds' = [funds EXCEPT ![u] = @ + 1]
  /\ UNCHANGED <<rows, quota, count, flag, server, handler, refresh, calls, requests,
                 faults, created, overlapped, panics, before, broken>>
  /\ Remember

(* What settle takes from the quota and from the balance for the calls of a key. *)
InQuota(u, c) == Min({count[u][c], quota[u][c]})
InBalance(u, c) ==
  LET rest == count[u][c] - InQuota(u, c)
      price == GetApiPrice(u, c)
  IN IF price = 0 THEN rest ELSE Min({rest, funds[u] \div price})
Due(u, c) == InQuota(u, c) + InBalance(u, c)

SettleKey(u, c) ==
  /\ server = "up"
  /\ Due(u, c) > 0
  /\ settledRows[u] > 0
  /\ quota' = [quota EXCEPT ![u][c] = @ - InQuota(u, c)]
  /\ funds' = [funds EXCEPT ![u] = @ - GetApiPrice(u, c) * InBalance(u, c)]
  /\ count' = [count EXCEPT ![u][c] = @ - Due(u, c)]
  /\ UNCHANGED <<rows, flag, server, handler, refresh, bounds, created, overlapped, panics,
                 before, broken>>
  /\ Remember

(* The server dies, with what its goroutines were doing. *)
Die ==
  /\ server' = "down"
  /\ handler' = [h \in Handler |-> Idle]
  /\ refresh' = NoRefresh
  /\ broken' = (broken \/ refresh.todo # {})
  /\ UNCHANGED <<rows, money, flag, calls, moves, requests, created, overlapped, recent,
                 before>>

(* Faulty variant: the panic is recovered, and the key is left for later. *)
SettleSkips(u, c) ==
  /\ server = "up" /\ Due(u, c) > 0 /\ settledRows[u] = 0
  /\ UNCHANGED vars
(* us.Stack of a row that is not there: the transaction is rolled back, and nothing
   recovers the panic. *)
SettlePanics(u, c) ==
  /\ server = "up"
  /\ Due(u, c) > 0
  /\ settledRows[u] = 0
  /\ Die
  /\ panics' = [panics EXCEPT ![u] = @ + 1]
  /\ UNCHANGED faults

Crash ==
  /\ server # "down"
  /\ faults < MaxFaults /\ faults' = faults + 1
  /\ Die
  /\ UNCHANGED panics
-----------------------------------------------------------------------------
(* CreateIfNotExists: the rows that a user lacks. *)
(* Faulty variant: rows are inserted without a look. *)
MissingUnchecked(n) == n \in Nat
Missing(n) == n = 0
(* Faulty variant: the start does not look for users without rows. *)
WithoutRow(table, us) == table
WithRow(table, us) ==
  [u \in User |-> IF u \in us /\ Missing(table[u]) THEN table[u] + 1 ELSE table[u]]

(* models.Init, then services.Init.  The handlers are served after both. *)
InitUserSettleds ==
  /\ server = "down"
  /\ server' = "models"
  /\ settledRows' = WithRow(settledRows, users)
  /\ UNCHANGED <<users, quotaRows, money, flag, handler, refresh, bounds, history>>

InitUserApiQuota ==
  /\ server = "models"
  /\ server' = "up"
  /\ quotaRows' = WithRow(quotaRows, users)
  /\ UNCHANGED <<users, settledRows, money, flag, handler, refresh, bounds, history>>

(* The other program creates a user. *)
CreateUser(u) ==
  /\ u \notin users
  /\ users' = users \cup {u}
  /\ UNCHANGED <<quotaRows, settledRows, money, flag, server, handler, refresh, bounds,
                 history>>

To(h, pc, u) == handler' = [handler EXCEPT ![h] = [pc |-> pc, users |-> {u}]]

(* UserCreated: the quota rows are looked for ... *)
UserCreated(h, u) ==
  /\ server = "up"
  /\ u \in users \ Old
  /\ handler[h] = Idle
  /\ requests < MaxRequests
  /\ requests' = requests + 1
  /\ To(h, IF Missing(quotaRows[u]) THEN "insert quota" ELSE "find settled", u)
  /\ overlapped' = IF \E g \in Handler : u \in handler[g].users
                   THEN overlapped \cup {u} ELSE overlapped
  /\ UNCHANGED <<rows, money, flag, server, refresh, calls, moves, faults, created, panics,
                 recent, before, broken>>

(* ... and inserted, *)
InsertQuota(h, u) ==
  /\ handler[h] = [pc |-> "insert quota", users |-> {u}]
  /\ quotaRows' = [quotaRows EXCEPT ![u] = @ + 1]
  /\ To(h, "find settled", u)
  /\ UNCHANGED <<users, settledRows, money, flag, server, refresh, bounds, history>>

(* then those of user_settleds are, *)
FindSettled(h, u) ==
  /\ handler[h] = [pc |-> "find settled", users |-> {u}]
  /\ To(h, IF Missing(settledRows[u]) THEN "insert settled" ELSE "reset", u)
  /\ UNCHANGED <<rows, money, flag, server, refresh, bounds, history>>

InsertSettled(h, u) ==
  /\ handler[h] = [pc |-> "insert settled", users |-> {u}]
  /\ settledRows' = [settledRows EXCEPT ![u] = @ + 1]
  /\ To(h, "reset", u)
  /\ UNCHANGED <<users, quotaRows, money, flag, server, refresh, bounds, history>>

(* and the quota of the default plan is given, unless it has been. *)
ResetQuotaOnUserCreated(h, u) ==
  /\ handler[h] = [pc |-> "reset", users |-> {u}]
  /\ handler' = [handler EXCEPT ![h] = Idle]
  /\ quota' = IF u \in created THEN quota ELSE [quota EXCEPT ![u] = DefaultQuota]
  /\ created' = created \cup {u}
  /\ UNCHANGED <<rows, funds, count, flag, server, refresh, bounds, overlapped, panics,
                 before, broken>>
  /\ Remember

HandlerFails(h) ==
  /\ handler[h] # Idle
  /\ faults < MaxFaults /\ faults' = faults + 1
  /\ handler' = [handler EXCEPT ![h] = Idle]
  /\ UNCHANGED <<rows, money, flag, server, refresh, calls, moves, requests, history>>
-----------------------------------------------------------------------------
Refresh == RefreshStart \/ \E u \in User : RefreshUser(u) \/ RefreshNoPrice(u)
Settle(u) == \E c \in CostType : SettleKey(u, c) \/ SettlePanics(u, c)
Start == InitUserSettleds \/ InitUserApiQuota
Create(h) ==
  \E u \in User : \/ InsertQuota(h, u) \/ FindSettled(h, u) \/ InsertSettled(h, u)
                  \/ ResetQuotaOnUserCreated(h, u)

Next ==
  \/ Refresh \/ Start
  \/ \E u \in User : DepositBalance(u) \/ CreateUser(u) \/ Settle(u)
  \/ \E u \in User, c \in CostType : ApiCall(u, c)
  \/ \E h \in Handler, u \in User : UserCreated(h, u)
  \/ \E h \in Handler : Create(h) \/ HandlerFails(h)
  \/ RefreshFails \/ Crash

Spec == Init /\ [][Next]_vars

(* Both loops go on, a handler goes on, and the server is started again.  A pass
   comes to every key; a refresh comes to every user it does not fail before. *)
FairSpec ==
  /\ Spec
  /\ WF_vars(Refresh) /\ WF_vars(Start)
  /\ \A u \in User : WF_vars(Settle(u))
  /\ \A h \in Handler : WF_vars(Create(h))
-----------------------------------------------------------------------------
(* redis_rich.go:11-16: the gateway lets a user call only what it could pay at some
   time since the refresh before the last one began, unless refreshes have failed
   since; then its flag is older. *)
FlagRecent == ~broken => \A u \in User : flag[u] \subseteq recent[u] \cup before[u]

(* settle.go:163, 203: the loop panics over the missing rows of a user at most once,
   the next start makes them; never over one whose UserCreated was answered; and never
   over a quota row, for no call is counted for a user who has none yet. *)
PanicsOnce ==
  /\ [](\A u \in User :
          panics[u] <= 1 /\ \A c \in CostType : count[u][c] > 0 => quotaRows[u] > 0)
  /\ [][\A u \in User : panics[u] # panics'[u] => u \notin created]_vars

(* user_api_quota.go:59 and user_settled.go:54 "CreateIfNotExists": however often
   UserCreated fails and is called again, and wherever the server is started anew, a
   user has one row of each cost type, unless two calls overlap. *)
OneRowEach ==
  \A u \in User \ overlapped : quotaRows[u] <= 1 /\ settledRows[u] <= 1

(* redis_rich.go:34-80: when balances and quotas change no more, the flag of each
   user becomes what calcRichFlag makes of them, however often refreshes were cut off:
   quota left, or a balance with arrears quota that pays one call, or a post-paid user
   and no mint; unless some user lacks its quota rows for good.  The comment of :31 has
   another rule (not both balance and quota 0), which the code does not follow. *)
FlagFollows ==
  []<>(\/ \E u \in users : Failing(u)
       \/ \A u \in users : flag[u] = CalcRichFlag(u).value)

(* settle.go:24-36: every counted call that can be paid is charged at last, panics and
   crashes notwithstanding. *)
CallsCharged == []<>(server = "up" /\ \A u \in User, c \in CostType : Due(u, c) = 0)
=============================================================================
