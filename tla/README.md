# Formal verification of rainbow-settle

rainbow-settle charges the users of the NFT-Rainbow platform for API calls. A
gateway counts calls in redis; a settle server turns the counts into charges
against quotas and balances in MySQL, sells quotas, plans and gas, takes
deposits, pays refunds, and keeps the logs that invoices are made from. This
directory holds TLA+ models of that server, TLC configurations that check them
on small instances, and TLAPS proofs of what holds for all instances. Line
numbers below are lines of the repository.

## 1. Inventory

| component | state | operations | what makes it correct |
|---|---|---|---|
| balance ledger `server/services/balance.go` | `user_balances.balance`, `fiat_log_caches`, `balanceMu` | `updateUserBalanceWithTx`, called by deposits, withdrawals, gas, storage, bundles, plans, API fees, refunds, quota resets | the balance is the initial one plus what is logged; checked postings never pass the arrears quota; fractions of a fen are neither lost nor paid twice; every request ends |
| settle loop `server/services/settle.go` | redis `count-*`, `user_settleds.stack`, `settleLock`, maps in memory | `settle` every 2 s, `RefundApiCost` | each counted call is charged once; nothing is lost or charged twice when MySQL or redis fails; refunds go back to where the charge came from |
| API quotas `user_api_quota.go` | `user_api_quota` (count_reset, count_rollover) | `Pay`, `Refund`, `Reset`, `depositRollover`, `ConsumeDataBundle` | a quota is not spent twice, and a reset does not undo a payment |
| bill plans `bill_plan.go`, `models/user_bill_plan.go` | `user_bill_plans`, redis `userplan-*` | `BuyBillPlan`, `RenewPlans`, `UpdateRenew`, `ResetUsersQuotas`, the handler `ResetQuotaOnPlanUpdated` | a plan is in force only if it was paid; quotas and redis follow the plan in force |
| deposits `conflux_pay.go`, `cli/finalize_deposit` | `deposit_orders`, conflux-pay | `CreateWechatOrder`, `StartWxOrderPolling`, `UpdateDepositOrder`, `StartCmbOrderPolling`, `saveCmbDepositOrder`, `finalizeDeposit` | a paid order is credited exactly once |
| fiat logs `models/fiat_log.go`, `fiat_log_cache.go` | `fiat_logs`, `balance_on_fiatlog`, `mergeFiatLogLock` | `AfterCreate`, `MergeToFiatlog` and the merges of each type | every cache row is in exactly one fiat log; running balances add up |
| bank accounts `conflux_pay.go:130-178` | accounts and bindings at the CMB bank, `cmb_deposit_nos` | `CreateCmcDepositNo`, `UpdateCmcDepositNoRelation` | a transfer finds its user; the card shown pays him |
| reports `models/fiat_log.go:180-510` | none | statements of balance changes, search for purchases that came to nothing, listings | what is read by several queries while rows are added is true of some moment, or says where it is not |
| rich flag `redis_rich.go` | redis `rich-*` | `refreshRichFlag` every 10 s | the gateway stops a user who cannot pay, after a bounded delay, and only such a user |
| users and their rows `server/settle.go` `UserCreated`, `user_settled.go`, `models.go` | `users`, the rows each of them needs | `UserCreated`, the start of the server | each user has each row once, before anything needs it |
| redis copies `redis_plan.go`, `redis_apiprofiles.go`, `apikey.go`, `common/redis` | redis | set on start and on change | the copy follows MySQL; keys are read as they are written |
| gRPC and REST servers, proxy, tools | none of their own | call the above | |

The parts meet in MySQL, redis, and a few mutexes. The settle loop, each gRPC
handler, each polling loop, the merge and the daily plan run are goroutines of
one process; `cli/*` are processes of their own on the same database, so that
`balanceMu` and `settleLock` mean nothing to them. A purchase of a plan calls a
handler (`user_bill_plan.go:151`) which resets quotas on another connection.
MySQL and redis do not commit together: between the two lies every crash
hazard of the settle loop.

Hard behaviours, in the order in which this project takes them on:
transactions that outlive the mutex that protects them; a mutex and a row lock
taken in both orders; rows read once and used for the rest of a pass;
counters and stacks updated in two stores; read-modify-save against relative
updates; operations of several steps outside of any transaction; polling
against a tool that does the same by hand.

## 2. Modules

| module | models | role |
|---|---|---|
| `FiatAmount` | `calcLeftover`, `checkDecimalQualified` | arithmetic of money: integers, `Fen` of them to a fen |
| `BalanceLedger` | `updateUserBalanceWithTx` over InnoDB | the detailed ledger |
| `AccountBook` | what callers of the ledger rely on | abstract specification: postings whole and at one instant |
| `LedgerBook` | | refinement mapping from `BalanceLedger` to `AccountBook` |
| `Settle` | `settle`, `RefundApiCost`, quotas and their resets | the settle loop over redis and MySQL |
| `Metering` | what counting and settling promise | abstract specification: a call is owed, then charged once |
| `Deposit` | `conflux_pay.go`, `cli/deposit`, `cli/finalize_deposit` | orders, pollers and tools over `deposit_orders` |
| `Cashier` | what depositing promises | abstract specification: a payment is posted after it was made, and once |
| `CmbAccounts` | `CreateCmcDepositNo`, `UpdateCmcDepositNoRelation` | whose account at the bank a card pays into |
| `FiatLogMerge` | `fiat_log_cache.go`, `fiat_log.go:60-175`, `fiatlog.go` | rows become fiat logs with running balances |
| `Reports` | `fiat_log.go:180-510` | what readers of fiat logs are told |
| `BillPlan` | `user_bill_plan.go`, `services/bill_plan.go`, `Reset` of `user_api_quota.go`, `redis_plan.go` | purchases, renewals, quotas of plans |
| `Gateway` | `redis_rich.go`, `UserCreated`, `CreateIfNotExists`, `GetApiPrice` | what lets the gateway count a call, and the settle loop charge it |
| `RedisKeys` | `common/redis/redis.go` | keys and values, and what parsing gives |
| `RedisCopies` | `apikey.go`, `redis_plan.go`, `redis_apiprofiles.go`, `main.go` | redis as the copy of MySQL; extends `RedisKeys` |
| `MC...` | | one for each of the models above: workloads, prices and bounds for TLC; `MCStatementwise` is the workload to which the theorems on sums and on the refinement of the ledger apply |
| `AmountProofs` | | lemmas about whole fen, about sums over finite sets, and about finite sets of rows with ids |
| `BalanceLedgerProofs`, `SettleProofs`, `BillPlanProofs`, `RedisCopiesProofs` | | theorems about the module of that name |
| `FiatLogProofs` | | theorems about `FiatLogMerge` |
| `DepositProofs` | | theorems about `Deposit` and `CmbAccounts` (which for that reason share no name) |
| `ServerProofs` | | theorems about `Gateway` and `Reports` (which share no name either) |

Three forms are chosen for the provers. `AccountBook` gives the page after a
number of calls by a recursive function; sums are `SumFunctionOnSet` of the
community modules, about which `AmountProofs` proves what is needed; and
`RedisCopies` merges functions by an operator of its own, `Over`. No module
declares a RECURSIVE operator.

Two modules speak of the same thing only where each abstracts what the other
details: a posting to the ledger is one step everywhere but in `BalanceLedger`;
`Settle` has the statements of a pass, `Gateway` only that a key is charged;
`BillPlan` has the halves of a copy to redis, `RedisCopies` makes it one step and
adds the start of the server and the other copies.

### BalanceLedger

One worker per goroutine or tool; `pc` walks through the statements of
`updateUserBalanceWithTx`:

| action | code |
|---|---|
| `Start` | a handler, the loop or a tool begins a request: a sequence of calls, in one transaction or outside |
| `LockBalanceMu`, `UnlockBalanceMu` | `balance.go:187-188` (the unlock is deferred: it comes *before* the caller's commit) |
| `FindLastFiatLogCache` | `:190-204`, last row of the type, its remainder joins the amount, `calcLeftover` |
| `GetUserBalance` | `:206-219`, with both checks |
| `CreateFiatLogCache` | `:221-235` |
| `UpdateUserBalance` / `LockWaitTimeout` | `:238`, waits for the row lock; MySQL may end the wait |
| `Commit`, `Rollback` | the end of gorm's `Transaction` (`:176-184`) or of bare statements |
| `Crash` | a process dies; MySQL rolls back |

The database is external and modelled as InnoDB at REPEATABLE READ: a view
fixed by the first consistent read, private writes, row locks held until the
end of a transaction, an UPDATE that works on the latest version. `Requests`
gives each worker what it may be asked; the operators `WithdrawBalance`,
`BuyDataBundle`, `SettleKey` ... translate the callers. Histories are not
needed: the row keeps the amount asked for (`raw`).

Left out of the ledger: the copy of a row into `fiat_logs` by `AfterCreate`
(`FiatLogMerge`), the creation of a missing `user_balances` row, order
numbers and metadata. `UpdateUserArrearsQuota` and `UpdateUserCfxPrice` have no
caller.

### Settle

| action | code |
|---|---|
| `ApiCall` | the gateway's INCRBY (external) |
| `BeginPass` | `settle.go:42-63`, lock, read the counters |
| `PickKey` / `SkipKey` | `:63-141`, rows of a user read once in a pass, `DueOf` splits the count between quotas and balance; a failed read skips the key |
| `PayKey` / `PayFails` | `:143-200`, one transaction, then the rows in memory |
| `DecrCount` / `DecrFails` / `DecrRepeated` | `:208`; go-redis sends a command again when the reply is lost |
| `EndPass`, `Rest` | `:211-213`, and the sleep of `LoopSettle` |
| `RefundBegin`, `RefundItem`, `RefundSave`, `RefundFails` | `RefundApiCost`, `:215-264`: items are paid back one by one, outside of a transaction, and the stack is saved last |
| `MoveBalance`, `DepositRollover` | deposits, withdrawals, bought quotas, while a pass runs |
| `ResetQuotaByPlan`, `ResetQuotaOnPlanUpdated`, `ResetFind`, `ResetSave` | a reset of quotas: read rows, then save them whole |
| `Crash` | the server dies; MySQL and redis stay |

A posting to the ledger is one step here (its detail is `BalanceLedger`), and so
are the reads of the rows of one user: every later step that uses one of them
would find the same if the reads were apart. `GetUserCounts` reads the counters
in one step; calls counted between its GETs are calls counted after it.
Times are abstracted: a reset may become due at any moment. `used`, `charged`,
`refunded` and `forgiven` are histories that no action reads.

### Deposit

`orders[p]` is the sequence of rows of `deposit_orders` made for the payment
`p`, and `credits[p]` counts the postings that name each row in their metadata.
A row is named `<<p, n>>`.

| action | code |
|---|---|
| `CreateWechatOrder`, `CreateFails` | `conflux_pay.go:94-110`; the error of the insertion is dropped |
| `WechatDecides`, `TransferArrives` | outside: wechat pays or closes an order for good; the bank keeps its records, newest first |
| `WxBegin`, `WxQuery`, `WxUpdate`, `WxCredit`, `WxEnd` | `StartWxOrderPolling`, `:189-215`, with the two transactions of `UpdateDepositOrder`, `:112-128` (`Limit(10)` follows `Find` and limits nothing) |
| `CmbBegin`, `CmbStop`, `CmbSave`, `CmbCredit`, `CmbTurnPage` | `StartCmbOrderPolling`, `:217-248`, with the row and the credit of `saveCmbDepositOrder`, `:252-286` |
| `ManualDeposit`, `ManualCredit` | `cli/deposit`, `:23-48` |
| `ToolCheck`, `ToolPost` | `cli/finalize_deposit`, `:25-55` and the transaction `:57-73` |
| `WxQueryFails` ... `ToolFails`, `Crash` | an error at each of these steps, with the reply of the update of a row possibly lost; the death of the server |

Staff run the tool on an order whose payment they have looked up, so that the
status they give is the true one. `LIMIT` and `OFFSET` are exact on the records
of the bank, which a new transfer moves back while a pass turns pages. What a
credit does to the balance is `BalanceLedger`; here it happens or fails as one
step, as `DepositBalance` is one transaction.

Three histories say what is excused, and no more: `raced` holds the orders
that the tool had checked while a poller or `cli/deposit` had them in hand
(`NoteRace`, a conjunct of `Next`), `unseen` the transfers whose look-up
returned an error, and `mishap` the payments on whose own way an error or a
crash has come. A transfer that has no row yet also counts as met by a mishap
when the pass that was to reach it ends early, or when a newer transfer arrives
while the pass turns pages: the newer one then stands between it and the
poller, which stops at the first record that has a row.

`Cashier` sees of all this which payments were made (`Paid`), the postings that
name any row of a payment (`Postings`), and the payments excused by `raced` and
`unseen`: the marking of rows, pages and retries are steps that it does not see.

### CmbAccounts

The bank is external: it opens accounts and keeps one account a card. `depositNos`
are the rows of `cmb_deposit_nos`; an account is `[user, digits]`, since its number is made from
the id of the user and random digits. `CreateCmcDepositNo` and
`UpdateCmcDepositNoRelation` begin a call; `Add`, `Relate` and `Save` are its
steps (open, bind, save the row), each of which may fail, with the bank having
done what it gave an error for. `orphaned` (accounts whose row could not be
saved) and `taken` (cards another user has bound since) are histories.

### FiatLogMerge

| action | code |
|---|---|
| `PostApi` | an API row of `fiat_log_caches`: not copied |
| `PostBegin`, `PostInsert`, `PostCommit` | `AfterCreate`, `fiat_log_cache.go:39-75`: the reads of a transaction, the insert of the log (which draws its id), the update of `balance_on_fiatlog` with the commit |
| `PostBalance` | the balance of a posting that is not one transaction (`RefundSponsor`, `balance.go:135`) |
| `MergeStart`, `MergeRead`, `MergeInsert`, `MergeCommit` | `MergeToFiatlog`, `:96-160` and `:299-382`: a transaction takes up to `Page` rows of one user and type |
| `RefundsRead` | `:155-295`: the refunds of fees, all users in one transaction: held back until the payments can bear them, and split over them |
| `NextDay`, `MergeFails`, `Crash` | the next night; a failed statement; the start takes `balance_on_fiatlog` from the last log |
| `UpdateCreated` | `cli/update_fiat_log_created` |

The commit has what `FiatLog.AfterCreate` does to `balance_on_fiatlog`
(`OnFiatlogOf`): it stores the balance of each log that is created, and of each
payment that `tx.Save(&_payFls)` (`:245`) writes again after a refund was split,
since gorm runs the hooks of a creation when it saves a slice.

`astray` says, user by user, what has led the running balance astray, and
`LogSynced` leaves such users out. Of the others it excuses one thing:
`balance_on_fiatlog` while a refund of API fees is the last log.

### BillPlan

A worker is a call or the nightly run (`Cron`); `job[w]` is what it has read and
is going to save.

| action | code |
|---|---|
| `BuyBillPlan`, `SavePlan`, `PayPlan` / `Insufficient` / `BuyFails`, | `balance.go` `BuyBillPlan` and `user_bill_plan.go:83-156`, one transaction: check and row, then the payment and the commit |
| `RaiseQuota` / `HandlerFails` | `ResetQuotaOnPlanUpdated` called from `user_bill_plan.go:151`, on a connection of its own |
| `CopyRead`, `CopyToRedis` / `CopyFails` | `SetUserPlansToRedis` after the commit |
| `UpdateRenew`, `SaveRenew` | `user_bill_plan.go:158`: reads the row, saves all of it |
| `RunStart`, `Renew` | `RenewPlans`, `services/bill_plan.go`: due rows listed once, then bought again, `Tries` times at most |
| `ResetAllUsersQuotas`, `ResetFind`, `ResetSave` / `RunFails` | the refresh of quotas by plan: rows read, then saved whole |
| `NextDay`, `Crash` | the calendar, in days; the start copies all plans to redis |

How much of a quota is left when the handler looks is any number: the settle loop
takes from it (`Settle`). Plans are of one server type and quotas of one cost
type, as other types have rows of their own. `bought` and `astray` are histories.

### Gateway

`users`, `quotaRows` and `settledRows` count rows. `ApiCall` is the gateway
(external); `RefreshStart`, `RefreshUser`, `RefreshNoPrice`, `RefreshFails` are
`refreshRichFlag` with its one SELECT and one SET for each user; `SettleKey` and
`SettlePanics` are what a pass does to a key; `CreateUser` is the other program
that creates users, `UserCreated` ... `ResetQuotaOnUserCreated` the handler
(`server/settle.go`), statement by statement; `InitUserSettleds` and
`InitUserApiQuota` are the start. `Crash` and `HandlerFails` are faults. The
histories `recent` and `before` are what a user could pay at some time in the last
two refresh periods.

### RedisKeys, RedisCopies

A key is the sequence of its parts between hyphens, and a parser gives a set with
one result or none. `RedisCopies` starts the server in steps (`SetAllUserPlans`,
`SetPlansToRedis`, `SetApiprofilesToRedis`, `LoadFind`, `LoadSet`), while calls are
served already (`main.go:34`): `NewKey` is the change of an API key by the other
program, with the call that reports it (`DelOldKey`, `SetNewKey`, `UpdateFails`),
which may be late, repeated or lost; `BuyBillPlan` and `EditPlan` change plans,
`SetUserPlansToRedis` / `CopyFails` copies one; `Call` is the gateway; `Restart`
starts the server anew.

### Reports

Rows are inserted with the time at which their transaction began to write and seen
when it commits (`Insert`, `RefundSponsor`, `Commit`), or by hand with an earlier
time (`AddByHand`). `Statement`, `MonthSummary`, `LastTimes`, `ReadStart`,
`ReadEnd` are the queries of `FiatlogOfBalanceChanges` (`fiat_log.go:344-427`).
Of these the balances of users are read by goroutines (`:505-534`): users are
numbers, in whose order they are launched (`Launched`), and `ReadFails` is the
failure of one read, which ends the statement only if its error is looked at
(`Checked`: every fifth user from the first, and the last one), and otherwise
leaves 0. `lost` has the users of such reads. `QueryFails` is the failure of any
other query, whose error is returned.
`Search`, `Candidates`, `Match` are those of `FindFiatlogsWithoutSponsorlog`
(`:428-468`); `Walk`, `TurnPage` a reader of the three listings, in the order of
their ORDER BY and any order where that leaves one.

## 3. What is checked

Constants are small on purpose: ten units to a fen and prices of 15 and 8 units,
so that fractions appear with the second call; one user where users share nothing
(in `Settle` only the lock, in `FiatLogMerge`, `BillPlan` and `RedisCopies`
nothing at all), two where they do. Every bound on how often something comes from
outside, or fails, is a constant named `Max...`.

| run | question | properties | bounds and why they are enough |
|---|---|---|---|
| `ledger_mixed` | What does the ledger keep when transactions, bare statements and a tool without the mutex post to one user, with lock timeouts and a crash? | `TypeOK`, `FractionsConserved`, `BalanceFromLog`, `NoOverdraft`, `RequestsEnd` | 3 requests: enough for a stale snapshot, for a mutex/row-lock cycle, and for a remainder to be carried twice; 4 workers in 2 processes |
| `ledger_statementwise` | Do postings outside of transactions, serialised by the mutex, and the transactions of one process that may crash, each count as one posting of an account book? | `LedgerBalanced`, `ImplementsBook` | 3 requests of 3 workers, 1 crash between any two statements |
| `settle_meter` | Is the loop an exact meter without faults, resets and withdrawals? | `TypeOK`, `RefundsCovered`, `NeverOverdraws`, `ImplementsMeter` | 4 calls a key, so that quota, rollover and balance are all used up; a deposit or bundle; a refund of 1 or 2 |
| `settle_faults` | With a failure or crash anywhere, resets of both kinds, a refund and a deposit or withdrawal: is any call free, is every call settled at last? | `NoFreeCalls`, `EverythingSettled` | 2 calls a key, 1 fault, 1 reset; post-paid prices |
| `deposit` | Which payments are credited, how often, and which are left behind? Are pollers and tools together one cashier? | `OneCredit`, `OneOrder`, `CreditedIsPaid`, `EveryPaymentCredited`, `ImplementsCashier` | one payment at wechat, one by hand, two transfers on pages of one record, so that a pass turns a page and is shifted by a transfer; one run of the tool against every other worker; one error or crash, enough to leave a row without its credit, or a transfer behind another |
| `cmbaccounts` | Whose account does a card pay into, and is the row of an account found, when calls overlap and fail at the bank or in MySQL? | `TransferFindsUser`, `ShownCardPays` | 2 users, 2 cards, 2 numbers a user, so that a number is drawn twice; 3 calls that open, 2 failures; symmetric in users and cards |
| `fiatlog` | Is each row merged once, are refunds matched with payments, and do the running balances add up, while postings and merges overlap and fail? | `MergedOnce`, `RefundsMatched`, `AmountsKept`, `LogSynced`, `EverythingMerged` | pages of 2 of 5 rows, so that a type takes two transactions; two nights; a refund of two calls over payments of one call, so that it is split and rounded; 1 fault |
| `billplan` | Does the plan bought last stand, with its quota and its copy in redis, while purchases, switches and the nightly run overlap? | `PurchaseKept`, `PaidQuotaGiven`, `RedisPlanCurrent`, `NightlyRunsCatchUp` | 2 calls of two plans or a switch, over 3 days, with months of a day and years of two, so that plans expire, renew and are out of money; 2 attempts; 1 fault |
| `billplan_unpaid` | *violation*: a purchase that cannot be paid | `QuotaPaidFor` | no faults, funds below every price |
| `gateway` | What may a stale flag and a missing row do, with users created while the server runs, is down or panics? | `FlagRecent`, `OneRowEach`, `PanicsOnce`, `FlagFollows`, `CallsCharged` | an old post-paid user and a new one; 2 `UserCreated`, so that one fails and is repeated, or two overlap; 1 call, 1 deposit, 1 crash |
| `redis` | What do the gateway and the settle loop read, while the server starts and calls are lost, repeated or reordered? | `KeysFollow`, `PlanServed`, `CountsAreCalls` | 2 key changes, so that one overtakes the other; one plan changed and one added; 2 losses or restarts |
| `reports` | Does a statement add up, is every stray purchase found, and is every row listed, while rows commit late or are added by hand, and queries fail? | `StatementAddsUp`, `StraysFound`, `WalkComplete` | 3 users, so that a statement has one whose read is not checked; 3 rows, 3 moments, pages of one row; windows from the first moment and past the last; any query may fail, without a bound |

`MaxCount` bounds the counters from which a pass starts: it matters only where a
balance lies below the arrears quota, when the loop raises a counter itself (see
Known facts).

Several runs set `CHECK_DEADLOCK FALSE`: once their bounds are used up and the
loops are idle, those models stop.

**Fairness.** `RequestsEnd` assumes that each worker that can proceed does: Go
schedules its goroutines, and MySQL ends every lock wait
(`innodb_lock_wait_timeout`); without the timeout the cycle of mutex and row
lock is a deadlock. `EverythingSettled` assumes that `LoopSettle` runs for ever
and that a refund in progress is scheduled; it has a premise, that no withdrawal
has overtaken a pass (`[]Solvent`). `EveryPaymentCredited` assumes that both
pollers run for ever. `EverythingMerged` and `NightlyRunsCatchUp` assume that cron
starts its runs again and again, and that goroutines go on. `FlagFollows` and
`CallsCharged` assume that both loops go on, that a pass comes to every key, and
that the server is started again after it has died. Nothing is assumed of calls,
deposits, withdrawals, staff, resets asked for by others, days, or faults.

**Excuses.** A property names what it excuses, and no more, by a history that no
action reads. Without the excuse of `raced`, `OneCredit` fails without any fault:
`finalize_deposit` looks for postings before its transaction, without a lock, and
credits an order that `cli/deposit` or a poller credits meanwhile. Without
`unseen`, `OneOrder` fails: a look-up error of a transfer that has been saved
gives it a second row and credit. `astray` in `FiatLogMerge` and `BillPlan`,
`overlapped` and `broken` in `Gateway`, `stale`, `undone` and `revoked` in
`RedisCopies`, `late` and `lost` in `Reports`, `orphaned` and `taken` in `CmbAccounts` are of
the same kind; the comment above each property says when it is excused.

### The violation

`billplan_unpaid`: `UpdateUserBillPlan` calls the handlers of a changed plan
inside the transaction of `BuyBillPlan` (`user_bill_plan.go:151`), but they raise
the quotas by `models.GetDB()`, on another connection, and before the payment. A
user without the money for a plan asks for it, the purchase is rolled back, and
the quota of the plan stays: against `bill_plan.go:62`, by which who has bought no
plan has the default one.

### Known facts

Behaviours met while modelling. The models contain them, and the properties are
stated so that they hold in spite of them.

*Money.*
* `balanceMu` is released when `updateUserBalanceWithTx` returns, and the
  transaction commits later (`balance.go:188`). Two withdrawals of one user in
  transactions of their own may so lose one another's update of the balance, and
  the balance is then not the initial one plus the log. This is why
  `ledger_statementwise` lets one worker only post to bob in transactions. Even
  so no checked posting passes the arrears quota (`NoOverdraft`) and every
  balance is one that was logged (`BalanceFromLog`); both are proved.
* `append(us.Stack.Data(), ...)` at `settle.go:179` and `:187` starts from the
  stack of the database and drops what `:171` has appended: of a pass that charges
  two kinds, only the last can be refunded.
* Calls may be charged more than once: when DECRBY fails or the server dies after
  the commit (`settle.go:208`); when the balance is below the arrears quota, and
  the negative affordable count is subtracted from what the quota has paid
  (`:130`), which also raises the counter; when a reset lies between the read and
  the payment of a quota (`user_api_quota.go:124`), which leaves the row negative.
* `RefundApiCost` saves the stack last (`settle.go:253`): items that were paid back
  before a failure are paid back again when the refund is tried again.
  `RefundsCovered` is checked without faults for that reason, and it is an upper
  bound only: no property covers this, nor the item dropped at `:171`.
* `BuyDataBundle` charges the price once for any count (`balance.go:100`).

*Deposits.* `finalize_deposit` reports success when its transaction has failed
(`main.go:57-82`); a failed order is stored as -1 in a column read into an
unsigned field (`deposit_order.go:9,24`). An account that was opened or bound at
the bank and whose row was not saved can never be credited. A card that another
user has bound since cannot be bound back by asking for the same card
(`conflux_pay.go:167` does not ask the bank). The amount of a CMB record is taken
in the unit it comes in.

*Fiat logs.* The first log of a user whose API fees wait to be merged starts from
a balance that holds them already, and they are counted twice
(`fiat_log.go:124-128`). A copy and a merge may both start from the same last log
(`fiat_log_cache.go:65`). `count` of RESET rows is not in the column that is
merged, so that their logs have count 0. `RefundSponsor` is not idempotent, and
`RefundedAmount` is overwritten (`fiat_log.go:168`). Pay logs are saved whole, so
that another column changed meanwhile may be lost. And as they are saved as a slice
(`fiat_log_cache.go:242-245`), each merge of refunds stores their old balances as
`balance_on_fiatlog` once more, after the balances of the new logs
(`fiat_log.go:81`; the rows of `FiatLogCache` are guarded against the same thing at
`fiat_log_cache.go:48`): the column has the balance of the oldest payment read,
until the next log of the user or the next start, against `user_balance.go:16`. The
model reads all payments of a user and cost type, the code in pages of 100 until
they can bear the refund; which of them is the oldest differs, that it is an old
balance does not.

*Plans.* A yearly plan ends in January of the next year, whenever it is bought
(`bill_plan.go:40`). Two first
purchases that overlap make two rows, and two purchases both pass the check for the
same priority. A renewal listed before a purchase or a cancelled renewal
overrides it. An expired plan stays in redis until the next purchase or start. The
RESET logs of quotas may be lost after the quotas are saved.

*Users and redis.* The comment of `refreshRichFlag` (`redis_rich.go:31`) says that
a flag is false if balance and quota are 0, and otherwise true. `calcRichFlag`
(`:61-80`) differs twice: a balance above 0 that, with the arrears quota, is below
the price gives false, and a post-paid user who has nothing gets true for every
type but mint. `FlagFollows` states what `calcRichFlag` does. A user without quota rows who is not post-paid makes
`calcRichFlag` fail, and the refresh of all users after him in the map ends
(`redis_rich.go:50`). Keys that were replaced while the server was down stay valid:
the load never deletes (`apikey.go:11-37`). Calls are served before the copies are
made (`main.go:34-36`). The buyer of a plan added while the server runs has no
limits until the next start.

*Reports.* A search for stray purchases finds nothing while no purchase of the
window has been refunded (`fiat_log.go:443`, NOT IN (NULL)); the premise of
`StraysFound` leaves this case out. In a statement of three users or more, one whose
balance could not be read is shown with 0 and no error is returned, unless he is the
first, the last, or every fifth after the first: `err` is declared anew for each
user and looked at for these only (`:509`, `:528-533`). `GetUserBalanceAtDate` takes rows
up to its date (`<=`, `:500`), although its comment has `created_at<date` (`:498`) and
the sums of the statement end before it (`:308`): StartBalance holds the rows of the
very first moment, which are in the sums too, and EndBalance those of the very last,
which are not. A statement is not of one moment either: rows that come between its
queries are in some of its numbers only. The listing with
details is ordered by time only, and may skip one of two rows of the same time.
`protoUserBalance` returns the balance as `BalanceOnFiatlog`
(`server/settle.go:310`).

## 4. What is proved

For every set of users, workers, processes and requests, every `Fen`, price,
quota and bound allowed by the `ASSUME`s. Each assumption says what the code or
the database gives: `WholeFenAssumption` of `Settle`, for one, that balances and
deposits are whole fen, since the columns are `decimal(20,2)`
(`user_balance.go:15-17`). TLC evaluates the assumptions on every run.

| theorem | property | argument |
|---|---|---|
| `CalcLeftoverSplits` | | remainder and quotient of a division, by sign; `SplitKeepsSign`, `WholeSum`, `WholeNotBelow` go with it |
| `TypeCorrect` | `TypeOK` of the ledger | with `Engaged`: a worker that is not idle has a call left, otherwise `Current` has no value |
| `LeftoverStaysBounded` | `LeftoverBounded`, in no run: `FractionsConserved` depends on it | `SplitsBounded`: also the split computed but not yet inserted, and rows not yet committed |
| `CheckedNeverOverdraws` | `NoOverdraft` | `EverythingSolvent`: every copy of the balance that may be stored (committed, in a snapshot, uncommitted, about to be stored) is solvent by itself, so that it does not matter which one wins |
| `BalanceIsLogged` | `BalanceFromLog` | `EverythingLogged`: every such copy has a row in the log, or in the writes that commit together with it |
| `FractionsAreConserved` | `FractionsConserved` | `FractionsInv`: of a type that one worker posts, a view may be stale in everything but the rows of that type (`ViewsInv`), so that a split continues the last row (`SplitsInv`), committed or not (`CarriedInv`) |
| `BalancesAddUp` | `LedgerBalanced` | `LocksInv` (mutex and row locks exclude) and `BalancedInv`: a worker's balance is the initial one and all rows, its own uncommitted ones included |
| `LedgerImplementsBook` | `ImplementsBook` | the commit of a transaction, or the UPDATE of a bare statement, is the posting of `AccountBook`, all else stutters: after k calls a transaction has reached the page that the book has after k calls (`PagesInv`), a request that fails only has its ends left (`FailedInv`), ids are given once (`IdsInv`) |
| `SettleTypeCorrect` | `TypeOK` of the loop | one lemma per action |
| `NoCallGoesFree` | `NoFreeCalls` | `Metered`: between commit and DECRBY (`ChargedAhead`) the key is charged ahead of its counter by at least what will be taken off, even when that is negative |
| `LoopNeverOverdraws` | `NeverOverdraws` | `FundsInv`: all the keys that a pass still has to pay from one balance are covered together by what was read, less what the pass has paid; others only add to it while nobody withdraws. Remainders below a fen (`LeftoversSmall`) cannot take a balance of whole fen below |
| `RefundsStayCovered` | `RefundsCovered` | the stack of a key, and the items of a refund under way, never say more than was charged and is not paid back |
| `SettleImplementsMeter` | `ImplementsMeter` | with `CountersKept` (a counter is never below what a pass has read of it) the commit of a charge is `Metering`'s charge, and the DECRBY stutters |
| `DepositTypeCorrect` | `TypeOK` of the deposits, in no run | the rows that workers hold are rows of the tables, which only grow |
| `CreditedAtMostOnce` | `OneCredit` | `CreditInv`: an order that may still be credited, because its status is initial, a worker has it in hand, or the tool has checked it, has no credit yet or is raced over; the workers' orders are disjoint by their kind of payment |
| `CreditsArePaid` | `CreditedIsPaid` | `PaidInv`: a payment, once made or closed, stays so (`Decided`), so what a worker holds of it is true when it is used: the answer of wechat (`WxPaid`), the records of a page and the rows of transfers (`Arrived`), the choice of the tool (`ToolPaid`); no row of a payment that was made is marked otherwise (`RowsLawful`) |
| `RecordsHaveOneRow` | `OneOrder` | `RowsInv`: besides, an order that was not made at wechat has no row; an insert follows a new order, or a look-up that found no row, or one that failed and left its payment in `unseen` |
| `DepositImplementsCashier` | `ImplementsCashier` | a step pays one payment, or posts one (`Posts`), or neither (`NobodyPosts`); that a payment which is not excused has one posting at most (`PostedOnce`) follows from `OneCredit` and `OneOrder` of the state after the step, that it was made from `CreditedIsPaid` |
| `CashierPostsOnce` | | of `Cashier` by itself: what has postings was paid, and what is not excused has one at most |
| `AccountsTypeCorrect` | `AccountsTypeOK` | row ids are distinct, and calls hold ids of rows |
| `TransfersFindUsers` | `TransferFindsUser` | `AccountsFound`: an opened account has its row, has lost it, or has a call under way that will save it; `CallsOk`: what a call has done at the bank and which row it has read |
| `ShownCardsPay` | `ShownCardPays` | `RowsPay` for rows and `CallsOk` for a call about to save: the binding it has made still holds, or its card is in `taken` |
| `GatewayTypeCorrect` | `TypeOK` of the gateway | `RowsOk`, `MoneyOk`, `FlagsOk`, `ServerOk`, `RefreshOk`: a refresh and a handler are about users that exist |
| `FlagsStayRecent` | `FlagRecent` | `FlagInv`: users a refresh has come to have flags of the time since it began, the others those of the one before |
| `RowsStaySingle` | `OneRowEach` | `RowsInv`: handlers for different users are apart, and what one has found missing stays missing until it inserts it (`FoundStill`) |
| `PanicsAtMostOnce` | `PanicsOnce` (an action property) | `CountInv`: only who has a quota row can have a flag or a counter, and who the loop has died of has its row at the next start |
| `BillPlanTypeCorrect` | `TypeOK` of the plans | one lemma per action |
| `PurchasesAreKept` | `PurchaseKept` | `IdsOk` (a row in hand is of the user whose row it replaces) and `RowsInv`: one row a user, the last purchase |
| `PaidQuotasAreGiven` | `PaidQuotaGiven` | `QuotaInv`: between the raise of a quota and the commit of the purchase the quota is already there (`RaiseKept`), and no other reset lowers it but those that the history names |
| `RedisPlansAreCurrent` | `RedisPlanCurrent` | `RedisInv`: outside of a copy under way, redis has the plan in effect |
| `CopiesTypeCorrect` | | `Typed`, and what a call that reports a key says of it: each replaces the key before (`UpdatesInv`) |
| `KeysFollowCalls` | `KeysFollow` | `KeysInv`: the current key is in redis or a call or the load will set it (`SetInv`); any older one is not there or a call will delete it (`DeletedInv`). Which keys a step leaves alone follows from their first word |
| `PlansAreServed` | `PlanServed` | `PlansInv`: what each stage of the start has copied stays true of MySQL, but for a purchase being copied and what is `stale` |
| `CountsStayCalls` | `CountsAreCalls` | `OnlyCounts`: a key that the pattern of counters finds is one; `Counted`: what is parsed from it is the user and type it was made from |
| `BaseInvariant` (of `FiatLogMerge`) | | `Typed`, `RowsOk`, `IdsInv` (ids of rows and logs are unique, also those a transaction has drawn and not yet inserted), `OpenInv`: what an open transaction will mark or save is still as it was read |
| `NeverOver` (a step of the next ones) | | `AliveInv`: no payment shows more refunded than paid, in the table or in a transaction |
| `RowsMergedOnce` | `MergedOnce` | `MInv`: the rows a transaction has read fall into groups (`Groups`) of one user, type and cost type, each with its logs, whose counts make up those of the rows; no two transactions have a row in common. That the parts of a refund have its count together is `SharesOfAll`: payments are used from the newest on (`SharesOfNewest`, by the smallest set of newest payments that fails it) |
| `RefundsAlwaysMatched` | `RefundsMatched` | `RInv`: besides the tables, what a refund of the merge will save says of each payment what its new logs say (`TxRefunds`) |
| `LogsInSync` | `LogSynced` | `SInv`: a transaction has for each of its users a last log, whose balance is that of the last log it has seen plus its rows (`PostPrepared`, `MergePrepared`); for refunds the balances rounded half-way through come to whole fen at the last part of each group; the column has the balance of the last log, or that log is a refund (`RefundLast`) |
| `AmountsAlwaysKept` | `AmountsKept` | `PartsInv`: the logs made of the same rows (`LogsAlike`) together have the amount of their rows, exactly if it is one log, within half a fen for each log if they are several (`RoundedSum`, `PartsOfWhole`). Summed over all logs by taking out one such class after the other (`WithoutAlike`, `PartsAddUp`) |
| `ReportsInvariant` | | `EntriesOk`, `OpenLast`, `BalancesOk`: the balance of each row is the sum of its user's history up to it; an uncommitted row is behind all others of its user |
| `StatementsAddUp` | `StatementAddsUp` | `StatementInv`: what a statement has read of a user to whom no later row was added is what it would read now (`ReadStays`), unless a read of his that is not checked has failed (`StatementFails`), and the last row of the last time up to a date has the balance of that date (`BalanceAtDate`) |
| `StraysAreFound` | `StraysFound` | `SearchInv`: what each of the two queries has read, against the rows that may have come since |
| `WalksAreComplete` | `WalkComplete` | `WalkInv`: a row not shown yet has at least as many rows before it as the reader has passed over (`Rank`), which never falls because rows only come (`WalkWaits`), so a later page shows it (`PageShows`) |

Hypotheses that are not assumptions of the module are stated in the theorem:

* `BalancesAddUp` and `LedgerImplementsBook` ask `Undisturbed(u)` of every user:
  either one worker posts to him, in transactions, or all postings to him are
  bare statements in one process, which does not crash. The code gives this for
  no user whom two handlers serve at once (Known facts); `MCStatementwise` has
  the same statement as an assumption, which TLC evaluates to true.
* `RefundsStayCovered`: no plan resets quotas, all quotas begin in credit, and no
  failure breaks a refund off (`[][~BrokenOff]_vars`); any other failure or crash
  is allowed. Each of the three is needed, as Known facts says.
* `SettleImplementsMeter`: nobody withdraws, no plan resets quotas, balances and
  quotas begin in credit, and no DECRBY fails after its charge
  (`[][~DecrLost]_vars`). Without the last a call is charged twice.

Only model-checked is liveness: `RequestsEnd`, `EverythingSettled`,
`EveryPaymentCredited`, `EverythingMerged`, `NightlyRunsCatchUp`, `FlagFollows`
and `CallsCharged` are out of the prover's reach together with ENABLED. Every
invariant, refinement and action property of the passing runs has a theorem.

Induction over data is out of reach as a theorem of the library (its induction
theorems take an operator as a parameter). The lemmas about sums get around it:
a set for which one of them fails would have a smallest subset for which it
fails (`LeastSubset`, from well-foundedness of the numbers).

## 5. Not modelled

* Generated protobuf code and the proxy: no state of their own.
* Conversions between protobuf, JSON and the models, and plain queries of one
  SELECT: nothing in them overlaps or fails half-way. `cost.go` is commented out.
* `cli/tidy_post_user_fiatlog`, written for one state of one database and run by
  hand once. Reading it showed that it sums the caches of a split refund once for
  each part (`main.go:151-208`), does not expect NULL amounts (`:89-92`), compares
  `id` with an invoice id (`:262`) and names a column `refund_log_id` that no
  model has (`:302`, `:318`). `cli/relate_refund_fiatlogs` repeats
  `RelateBuySponsorFiatlog`, which changes nothing the second time.
* The record of a data bundle, and the columns of users, profiles and plans that
  other programs keep.
* That the nightly run gives post-paid users no quotas of rainbow plans
  (`services/bill_plan.go:64-80`): the users of `BillPlan` are pre-paid.
* `UpdateUserArrearsQuota` and `UpdateUserCfxPrice`: no caller.

## 6. Plan

1. done: `FiatAmount`, `BalanceLedger` with `AccountBook`, and proofs.
2. done: `Settle` with `Metering`, and proofs.
3. done: `Deposit`, and the proofs of its three safety properties.
4. done: `FiatLogMerge`, `BillPlan`, `Gateway`, `RedisKeys`, `RedisCopies`,
   `Reports`; `CmbAccounts` with proofs of both its properties.
5. done: a theorem for every invariant, refinement and action property that a run
   checks, the last ones being those of `FiatLogMerge` (`FiatLogProofs`), of
   `Gateway` and `Reports` (`ServerProofs`), of `BillPlan` and of `RedisCopies`.
6. done: `Cashier`, and the proof that `Deposit` implements it.

Nothing is left open that the prover can reach: the hypotheses of the theorems are
those without which they fail (Known facts), and liveness stays with TLC.
