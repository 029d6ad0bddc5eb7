------------------------------ MODULE Deposit ------------------------------
(***************************************************************************)
(* server/services/conflux_pay.go and the tools in server/cli.  Money      *)
(* comes in three ways: a user pays an order at wechat, which a poller     *)
(* asks about; a user transfers to an account at the CMB bank, whose       *)
(* records another poller reads in pages, newest first; staff deposit by   *)
(* hand.  Each payment has a row in deposit_orders, and is credited to     *)
(* the balance in a transaction that comes after the one that marks the    *)
(* row.  The tool finalize_deposit makes up for credits that got lost,     *)
(* from a process of its own.  What a credit does to the balance is in     *)
(* BalanceLedger.                                                          *)
(***************************************************************************)
EXTENDS Naturals, FiniteSets, Sequences, FiniteSetsExt, SequencesExt

CONSTANTS
  WxOrder,       \* orders at wechat
  Transfer,      \* transfers to CMB accounts
  Manual,        \* deposits by hand
  PageSize,      \* limit in StartCmbOrderPolling
  MaxFinalizes,  \* bound on the runs of finalize_deposit
  MaxFaults      \* bound on errors and crashes

ASSUME DepositAssumption ==
  /\ WxOrder \cap Transfer = {} /\ WxOrder \cap Manual = {} /\ Transfer \cap Manual = {}
  /\ PageSize \in Nat \ {0}
  /\ MaxFinalizes \in Nat /\ MaxFaults \in Nat

VARIABLES
  trade,      \* wechat: state of each order
  transfers,  \* CMB: records of what has arrived, newest first
  orders,     \* MySQL: status of the rows of deposit_orders, by payment
  credits,    \* MySQL: how many postings name each of these rows
  wx,         \* StartWxOrderPolling
  cmb,        \* StartCmbOrderPolling
  manual,     \* cli/deposit
  tool,       \* cli/finalize_deposit
  raced,      \* history: ids that the tool and somebody else worked on at a time
  unseen,     \* history: transfers whose look-up met an error
  mishap,     \* history: payments that an error or a crash has come between
  finalizes, faults  \* how often each has happened

mysql == <<orders, credits>>
outside == <<trade, transfers>>
workers == <<wx, cmb, manual, tool>>
vars == <<outside, mysql, workers, raced, unseen, mishap, finalizes, faults>>

Payment == WxOrder \cup Transfer \cup Manual
TradeState == {"none", "NOTPAY", "SUCCESS", "CLOSED"}
Status == {"init", "success", "failed"}
(* A row of deposit_orders: the n-th of a payment. *)
Id == Payment \X (Nat \ {0})
NoId == << >>

NoWx == [at |-> "idle", todo |-> {}, order |-> NoId, status |-> "init"]
NoCmb == [at |-> "idle", page |-> << >>, offset |-> 0, inserted |-> TRUE, order |-> NoId]
Nobody == [at |-> "idle", order |-> NoId]

Init ==
  /\ trade = [o \in WxOrder |-> "none"]
  /\ transfers = << >>
  /\ orders = [p \in Payment |-> << >>]
  /\ credits = [p \in Payment |-> << >>]
  /\ wx = NoWx /\ cmb = NoCmb /\ manual = Nobody /\ tool = Nobody
  /\ raced = {} /\ unseen = {} /\ mishap = {}
  /\ finalizes = 0 /\ faults = 0
-----------------------------------------------------------------------------
Lesser(a, b) == IF a <= b THEN a ELSE b
Paid(p) ==
  \/ p \in WxOrder /\ trade[p] = "SUCCESS"
  \/ p \in Transfer /\ Contains(transfers, p)
  \/ p \in Manual
ClosedUnpaid(p) == p \in WxOrder /\ trade[p] = "CLOSED"
Ids == UNION {{p} \X DOMAIN orders[p] : p \in Payment}
StatusOf(i) == orders[i[1]][i[2]]
CreditsOf(i) == credits[i[1]][i[2]]

NewId(p) == <<p, Len(orders[p]) + 1>>
Insert(p, status) ==
  /\ orders' = [orders EXCEPT ![p] = Append(@, status)]
  /\ credits' = [credits EXCEPT ![p] = Append(@, 0)]
SetStatus(i, status) == orders' = [orders EXCEPT ![i[1]] = [@ EXCEPT ![i[2]] = status]]
(* DepositBalance: one transaction. *)
Credit(i) == credits' = [credits EXCEPT ![i[1]] = [@ EXCEPT ![i[2]] = CreditsOf(i) + 1]]

(* What has arrived and has no row yet. *)
Unsaved == {p \in ToSet(transfers) : orders[p] = << >>}
-----------------------------------------------------------------------------
(* CreateWechatOrder: an order at wechat, and its row. *)
CreateWechatOrder(p) ==
  /\ trade[p] = "none"
  /\ trade' = [trade EXCEPT ![p] = "NOTPAY"]
  /\ Insert(p, "init")
  /\ UNCHANGED <<transfers, workers, unseen, mishap, finalizes, faults>>

(* The user pays, or wechat closes the order; neither is taken back. *)
WechatDecides(p, state) ==
  /\ trade[p] = "NOTPAY"
  /\ trade' = [trade EXCEPT ![p] = state]
  /\ UNCHANGED <<transfers, mysql, workers, unseen, mishap, finalizes, faults>>

(* Another transfer arrives.  Pages are counted from the newest record: while
   the poller turns them it moves all the others back. *)
TransferArrives(p) ==
  /\ ~Contains(transfers, p)
  /\ transfers' = <<p>> \o transfers
  /\ mishap' = IF cmb.at = "idle" THEN mishap ELSE mishap \cup Unsaved
  /\ UNCHANGED <<trade, mysql, workers, unseen, finalizes, faults>>
-----------------------------------------------------------------------------
(* Faulty variant: whatever has not failed. *)
UnfailedOrders == {i \in Ids : i[1] \in WxOrder /\ StatusOf(i) # "failed"}

(* The orders of a pass: WHERE status = DEPOSIT_INIT. *)
InitialOrders == {i \in Ids : StatusOf(i) = "init"}

WxBegin ==
  /\ wx.at = "idle"
  /\ InitialOrders # {}
  /\ wx' = [NoWx EXCEPT !.at = "query", !.todo = InitialOrders]
  /\ UNCHANGED <<outside, mysql, cmb, manual, tool, unseen, mishap, finalizes, faults>>

(* What the answer of wechat makes of an order. *)
StatusFor(state) ==
  CASE state = "SUCCESS" -> "success"
    [] state = "CLOSED" -> "failed"
    [] OTHER -> "init"

(* The answer is used after it was given, whatever the row says by then. *)
WxQuery ==
  /\ wx.at = "query"
  /\ \E i \in wx.todo :
       LET status == StatusFor(trade[i[1]]) IN
       wx' = IF status = "init"
             THEN [wx EXCEPT !.todo = @ \ {i}]
             ELSE [wx EXCEPT !.at = "update", !.order = i, !.status = status]
  /\ UNCHANGED <<outside, mysql, cmb, manual, tool, unseen, mishap, finalizes, faults>>

WxNext == wx' = [NoWx EXCEPT !.at = "query", !.todo = wx.todo \ {wx.order}]

(* UpdateDepositOrder: the row first ... *)
WxUpdate ==
  /\ wx.at = "update"
  /\ SetStatus(wx.order, wx.status)
  /\ IF wx.status = "success" THEN wx' = [wx EXCEPT !.at = "credit"] ELSE WxNext
  /\ UNCHANGED <<outside, credits, cmb, manual, tool, unseen, mishap, finalizes, faults>>

(* ... then the balance. *)
WxCredit ==
  /\ wx.at = "credit"
  /\ Credit(wx.order)
  /\ WxNext
  /\ UNCHANGED <<outside, orders, cmb, manual, tool, unseen, mishap, finalizes, faults>>

WxEnd ==
  /\ wx.at = "query" /\ wx.todo = {}
  /\ wx' = NoWx
  /\ UNCHANGED <<outside, mysql, cmb, manual, tool, unseen, mishap, finalizes, faults>>
-----------------------------------------------------------------------------
(* queryRecentCmbHistory: a page of records. *)
Page(offset) == SubSeq(transfers, offset + 1, Lesser(offset + PageSize, Len(transfers)))

CmbBegin ==
  /\ cmb.at = "idle"
  /\ transfers # << >>
  /\ cmb' = [NoCmb EXCEPT !.at = "save", !.page = Page(0)]
  /\ UNCHANGED <<outside, mysql, wx, manual, tool, unseen, mishap, finalizes, faults>>

(* Faulty variant: a record whose credit failed is not taken to exist. *)
CreditExists(p) == \E n \in DOMAIN credits[p] : credits[p][n] > 0

(* FindDepositOrderByTradeNo finds one. *)
DepositOrderExists(p) == orders[p] # << >>

(* A record that exists ends the pass. *)
CmbStop ==
  /\ cmb.at = "save" /\ cmb.page # << >>
  /\ DepositOrderExists(Head(cmb.page))
  /\ cmb' = NoCmb
  /\ UNCHANGED <<outside, mysql, wx, manual, tool, unseen, mishap, finalizes, faults>>

CmbInsert ==
  /\ Insert(Head(cmb.page), "success")
  /\ cmb' = [cmb EXCEPT !.at = "credit", !.order = NewId(Head(cmb.page))]

(* saveCmbDepositOrder: the row first ... *)
CmbSave ==
  /\ cmb.at = "save" /\ cmb.page # << >>
  /\ ~DepositOrderExists(Head(cmb.page))
  /\ CmbInsert
  /\ UNCHANGED <<outside, wx, manual, tool, unseen, mishap, finalizes, faults>>

(* On with the next record of the page. *)
CmbNext(inserted) ==
  cmb' = [cmb EXCEPT !.at = "save", !.page = Tail(@), !.order = NoId,
                     !.inserted = @ /\ inserted]

(* ... then the balance. *)
CmbCredit ==
  /\ cmb.at = "credit"
  /\ Credit(cmb.order)
  /\ CmbNext(TRUE)
  /\ UNCHANGED <<outside, orders, wx, manual, tool, unseen, mishap, finalizes, faults>>

(* Faulty variant: the same page again. *)
CmbSamePage ==
  /\ cmb.at = "save" /\ cmb.page = << >>
  /\ cmb' = IF cmb.inserted THEN [NoCmb EXCEPT !.at = "save", !.page = Page(cmb.offset)]
                            ELSE NoCmb
  /\ UNCHANGED <<outside, mysql, wx, manual, tool, unseen, mishap, finalizes, faults>>

(* The page is done: if all of it was new, the next one is fetched. *)
CmbTurnPage ==
  LET next == cmb.offset + PageSize IN
  /\ cmb.at = "save" /\ cmb.page = << >>
  /\ cmb' = IF cmb.inserted /\ Page(next) # << >>
            THEN [NoCmb EXCEPT !.at = "save", !.page = Page(next), !.offset = next]
            ELSE NoCmb
  /\ UNCHANGED <<outside, mysql, wx, manual, tool, unseen, mishap, finalizes, faults>>
-----------------------------------------------------------------------------
(* cli/deposit: a row that is marked paid at once ... *)
ManualDeposit(p) ==
  /\ manual.at = "idle"
  /\ orders[p] = << >>
  /\ Insert(p, "success")
  /\ manual' = [at |-> "credit", order |-> NewId(p)]
  /\ UNCHANGED <<outside, wx, cmb, tool, unseen, mishap, finalizes, faults>>

(* ... and UpdateDepositOrder, which marks it again and credits it. *)
ManualCredit ==
  /\ manual.at = "credit"
  /\ Credit(manual.order)
  /\ manual' = Nobody
  /\ UNCHANGED <<outside, orders, wx, cmb, tool, unseen, mishap, finalizes, faults>>

(* Faulty variant: postings are not looked for. *)
ToolCheckPaid(i) ==
  /\ finalizes < MaxFinalizes
  /\ tool.at = "idle"
  /\ Paid(i[1]) \/ ClosedUnpaid(i[1])
  /\ finalizes' = finalizes + 1
  /\ tool' = [at |-> "post", order |-> i]
  /\ UNCHANGED <<outside, mysql, wx, cmb, manual, unseen, mishap, faults>>

(* finalizeDeposit: an order that no posting names.  Staff have looked up what
   became of the payment. *)
ToolCheck(i) ==
  /\ finalizes < MaxFinalizes
  /\ tool.at = "idle"
  /\ Paid(i[1]) \/ ClosedUnpaid(i[1])
  /\ CreditsOf(i) = 0
  /\ finalizes' = finalizes + 1
  /\ tool' = [at |-> "post", order |-> i]
  /\ UNCHANGED <<outside, mysql, wx, cmb, manual, unseen, mishap, faults>>

(* Row and balance, in one transaction; the look-up was before it. *)
ToolPost ==
  LET i == tool.order IN
  /\ tool.at = "post"
  /\ IF Paid(i[1]) THEN SetStatus(i, "success") /\ Credit(i)
                   ELSE SetStatus(i, "failed") /\ UNCHANGED credits
  /\ tool' = Nobody
  /\ UNCHANGED <<outside, wx, cmb, manual, unseen, mishap, finalizes, faults>>
-----------------------------------------------------------------------------
Fault == faults < MaxFaults /\ faults' = faults + 1

(* The row of a wechat order is not inserted: the error is dropped, and the
   user is sent to pay. *)
CreateFails(p) ==
  /\ Fault
  /\ trade[p] = "none"
  /\ trade' = [trade EXCEPT ![p] = "NOTPAY"]
  /\ mishap' = mishap \cup {p}
  /\ UNCHANGED <<transfers, mysql, workers, unseen, finalizes>>

(* Faulty variant: the order is treated as the one before. *)
WxQueryFailsUnnoticed ==
  /\ Fault
  /\ wx.at = "query"
  /\ \E i \in wx.todo :
       wx' = [wx EXCEPT !.at = "update", !.order = i, !.status = "success"]
  /\ UNCHANGED <<outside, mysql, cmb, manual, tool, unseen, mishap, finalizes>>

(* wechat does not answer: the order is left to a later pass. *)
WxQueryFails ==
  /\ Fault
  /\ wx.at = "query"
  /\ \E i \in wx.todo : wx' = [wx EXCEPT !.todo = @ \ {i}]
  /\ UNCHANGED <<outside, mysql, cmb, manual, tool, unseen, mishap, finalizes>>

(* The update of the row returns an error: it was not done, or its reply was
   lost. *)
WxUpdateFails ==
  /\ Fault
  /\ wx.at = "update"
  /\ \/ UNCHANGED <<mysql, mishap>>
     \/ /\ SetStatus(wx.order, wx.status)
        /\ mishap' = mishap \cup {wx.order[1]}
        /\ UNCHANGED credits
  /\ WxNext
  /\ UNCHANGED <<outside, cmb, manual, tool, unseen, finalizes>>

WxCreditFails ==
  /\ Fault
  /\ wx.at = "credit"
  /\ mishap' = mishap \cup {wx.order[1]}
  /\ WxNext
  /\ UNCHANGED <<outside, mysql, cmb, manual, tool, unseen, finalizes>>

(* The look-up of a record returns an error: it is taken for a new one. *)
CmbLookupFails ==
  /\ Fault
  /\ cmb.at = "save" /\ cmb.page # << >>
  /\ unseen' = unseen \cup {Head(cmb.page)}
  /\ CmbInsert
  /\ UNCHANGED <<outside, wx, manual, tool, mishap, finalizes>>

(* Another error on the way of a record.  The pass goes on to the end of the
   page and no further, so that what comes later may never be reached. *)
CmbRecordFails ==
  /\ Fault
  /\ cmb.at = "credit" \/ (cmb.at = "save" /\ cmb.page # << >>)
  /\ mishap' = mishap \cup Unsaved \cup {Head(cmb.page)}
  /\ CmbNext(FALSE)
  /\ UNCHANGED <<outside, mysql, wx, manual, tool, unseen, finalizes>>

(* The next page cannot be read. *)
CmbPageFails ==
  /\ Fault
  /\ cmb.at = "save" /\ cmb.page = << >> /\ cmb.inserted
  /\ mishap' = mishap \cup Unsaved
  /\ cmb' = NoCmb
  /\ UNCHANGED <<outside, mysql, wx, manual, tool, unseen, finalizes>>

ManualFails ==
  /\ Fault
  /\ manual.at = "credit"
  /\ mishap' = mishap \cup {manual.order[1]}
  /\ manual' = Nobody
  /\ UNCHANGED <<outside, mysql, wx, cmb, tool, unseen, finalizes>>

(* The transaction of the tool is rolled back; it reports success all the same. *)
ToolFails ==
  /\ Fault
  /\ tool.at = "post"
  /\ tool' = Nobody
  /\ UNCHANGED <<outside, mysql, wx, cmb, manual, unseen, mishap, finalizes>>

(* The server dies: what it had marked and not credited is not taken up again. *)
Crash ==
  /\ Fault
  /\ wx' = NoWx /\ cmb' = NoCmb
  /\ mishap' = mishap
       \cup (IF wx.at = "credit" THEN {wx.order[1]} ELSE {})
       \cup (IF cmb.at = "credit" THEN {cmb.order[1]} ELSE {})
       \cup (IF cmb.at # "idle" THEN Unsaved ELSE {})
  /\ UNCHANGED <<outside, mysql, manual, tool, unseen, finalizes>>
-----------------------------------------------------------------------------
Customers ==
  \/ \E p \in WxOrder :
       \/ CreateWechatOrder(p)
       \/ \E state \in {"SUCCESS", "CLOSED"} : WechatDecides(p, state)
  \/ \E p \in Transfer : TransferArrives(p)

WxStep == WxBegin \/ WxQuery \/ WxUpdate \/ WxCredit \/ WxEnd

CmbStep == CmbBegin \/ CmbStop \/ CmbSave \/ CmbCredit \/ CmbTurnPage

Staff ==
  \/ \E p \in Manual : ManualDeposit(p)
  \/ ManualCredit
  \/ \E i \in Ids : ToolCheck(i)
  \/ ToolPost

Faults ==
  \/ \E p \in WxOrder : CreateFails(p)
  \/ WxQueryFails \/ WxUpdateFails \/ WxCreditFails
  \/ CmbLookupFails \/ CmbRecordFails \/ CmbPageFails
  \/ ManualFails \/ ToolFails
  \/ Crash

(* Nobody has anything to do until something arrives. *)
Sleep == UNCHANGED <<outside, mysql, workers, unseen, mishap, finalizes, faults>>

(* The orders that somebody else than the tool is going to credit. *)
Pending ==
  wx.todo \cup (IF cmb.at = "credit" THEN {cmb.order} ELSE {})
          \cup (IF manual.at = "credit" THEN {manual.order} ELSE {})
Overlap == IF tool.at = "post" THEN Pending \cap {tool.order} ELSE {}
NoteRace == raced' = raced \cup Overlap'

Next ==
  /\ Customers \/ WxStep \/ CmbStep \/ Staff \/ Faults \/ Sleep
  /\ NoteRace

Spec == Init /\ [][Next]_vars

(* The pollers run for ever. *)
FairSpec == Spec /\ WF_vars(WxStep /\ NoteRace) /\ WF_vars(CmbStep /\ NoteRace)
-----------------------------------------------------------------------------
(* Every variable keeps its type. *)
TypeOK ==
  /\ trade \in [WxOrder -> TradeState]
  /\ transfers \in Seq(Transfer)
  /\ orders \in [Payment -> Seq(Status)]
  /\ credits \in [Payment -> Seq(Nat)]
  /\ \A p \in Payment : Len(credits[p]) = Len(orders[p])
  /\ wx \in [at : {"idle", "query", "update", "credit"}, todo : SUBSET Ids,
             order : Ids \cup {NoId}, status : Status]
  /\ cmb \in [at : {"idle", "save", "credit"}, page : Seq(Transfer), offset : Nat,
              inserted : BOOLEAN, order : Ids \cup {NoId}]
  /\ manual \in [at : {"idle", "credit"}, order : Ids \cup {NoId}]
  /\ tool \in [at : {"idle", "post"}, order : Ids \cup {NoId}]
  /\ raced \subseteq Ids
  /\ unseen \subseteq Transfer
  /\ mishap \subseteq Payment
  /\ finalizes \in Nat /\ faults \in Nat

(* conflux_pay.go:112: an order is credited at most once, through crashes,
   failed and lost updates, repeated polls and the manual tool, unless the tool
   works on an order that somebody is about to credit. *)
OneCredit == \A i \in Ids \ raced : CreditsOf(i) <= 1

(* conflux_pay.go:253: a record that is seen again and again gets one row, and
   so one credit, unless the look-up fails. *)
OneOrder == \A p \in Payment \ unseen : Len(orders[p]) <= 1

(* No credit without a payment: answers are used late and rows are marked by
   four programs, but what is credited has been paid and is marked so. *)
CreditedIsPaid ==
  \A i \in Ids : CreditsOf(i) > 0 => Paid(i[1]) /\ StatusOf(i) = "success"

Credited(p) == \E n \in DOMAIN credits[p] : credits[p][n] > 0

(* Every payment is credited at last, whatever goes wrong with other orders and
   at wechat: only what an error or a crash has come upon on its own way, or a
   transfer behind one, may be left to the tool. *)
EveryPaymentCredited ==
  \A p \in WxOrder \cup Transfer : Paid(p) ~> (Credited(p) \/ p \in mishap)

(* The postings of a payment: those that name one of its rows. *)
Postings(p) == UNION {{i} \X (1 .. CreditsOf(i)) : i \in {j \in Ids : j[1] = p}}

Desk == INSTANCE Cashier WITH
  paid <- {p \in Payment : Paid(p)},
  posted <- [p \in Payment |-> Postings(p)],
  excused <- {i[1] : i \in raced} \cup unseen

(* conflux_pay.go:112, :252, finalize_deposit: pollers, tools, errors and crashes
   together are one cashier: each step posts at most one payment, which has been
   made and was not posted before, through whichever row, and takes nothing
   back.  Excused are payments whose row was raced over, or whose look-up failed. *)
ImplementsCashier == Desk!CashierSpec
=============================================================================
