--------------------------- MODULE DepositProofs ---------------------------
(***************************************************************************)
(* Theorems about Deposit: its type invariant; an order is credited at     *)
(* most once unless the tool meets somebody else on it; what is credited   *)
(* has been paid; a payment has one row; and so Cashier is implemented.    *)
(*                                                                         *)
(* Then about CmbAccounts, for any users, cards, numbers and bounds: the   *)
(* row of an account is found unless it could not be saved, and the card   *)
(* that a row shows pays its user.  Neither is inductive: what a call      *)
(* under way has done at the bank, and which row it has read, must be      *)
(* known of every call.                                                    *)
(***************************************************************************)
EXTENDS Deposit, CmbAccounts, FiniteSetTheorems, TLAPS

(* The tables of deposit_orders and of the credits, with the same rows. *)
Tables ==
  /\ orders \in [Payment -> Seq(Status)]
  /\ credits \in [Payment -> Seq(Nat)]
  /\ \A p \in Payment : Len(credits[p]) = Len(orders[p])

(* The ids of a table: a payment and the number of a row. *)
LEMMA IdsOfTable ==
  ASSUME NEW t \in [Payment -> Seq(Status)]
  PROVE  \A i : i \in UNION {{p} \X DOMAIN t[p] : p \in Payment} <=>
           \E p \in Payment : \E n \in 1 .. Len(t[p]) : i = <<p, n>>
<1>1. \A p \in Payment : DOMAIN t[p] = 1 .. Len(t[p])
  OBVIOUS
<1> QED
  BY <1>1

(* A new row joins the others and changes none of them. *)
LEMMA Inserted ==
  ASSUME Tables, NEW p \in Payment, NEW s \in Status, NEW id,
         id = NewId(p), Insert(p, s)
  PROVE  /\ Tables'
         /\ Ids' = Ids \cup {id} /\ id \notin Ids
         /\ StatusOf(id)' = s /\ CreditsOf(id)' = 0
         /\ \A i \in Ids : StatusOf(i)' = StatusOf(i) /\ CreditsOf(i)' = CreditsOf(i)
<1>1. /\ orders' = [orders EXCEPT ![p] = Append(orders[p], s)]
      /\ credits' = [credits EXCEPT ![p] = Append(credits[p], 0)]
  BY DEF Insert
<1>2. /\ orders[p] \in Seq(Status) /\ credits[p] \in Seq(Nat)
      /\ Len(credits[p]) = Len(orders[p])
  BY DEF Tables
<1>3. /\ orders'[p] = Append(orders[p], s) /\ credits'[p] = Append(credits[p], 0)
      /\ \A q \in Payment \ {p} : orders'[q] = orders[q] /\ credits'[q] = credits[q]
  BY <1>1 DEF Tables
<1>4. /\ orders'[p] \in Seq(Status) /\ credits'[p] \in Seq(Nat)
      /\ Len(orders'[p]) = Len(orders[p]) + 1 /\ Len(credits'[p]) = Len(orders[p]) + 1
      /\ orders'[p][Len(orders[p]) + 1] = s
      /\ credits'[p][Len(orders[p]) + 1] = 0
      /\ \A n \in 1 .. Len(orders[p]) :
           orders'[p][n] = orders[p][n] /\ credits'[p][n] = credits[p][n]
  BY <1>2, <1>3
<1>5. Tables'
  BY <1>1, <1>3, <1>4 DEF Tables
<1>6. \A i : i \in Ids <=> \E q \in Payment : \E n \in 1 .. Len(orders[q]) : i = <<q, n>>
  BY IdsOfTable DEF Ids, Tables
<1>7. \A i : i \in Ids' <=> \E q \in Payment : \E n \in 1 .. Len(orders'[q]) : i = <<q, n>>
  BY <1>5, IdsOfTable DEF Ids, Tables
<1>8. id = <<p, Len(orders[p]) + 1>> /\ Len(orders[p]) \in Nat
  BY <1>2 DEF NewId
<1>9. Ids' = Ids \cup {id} /\ id \notin Ids
  <2>1. \A q \in Payment : q # p => Len(orders'[q]) = Len(orders[q])
    BY <1>3
  <2>2. \A n : n \in 1 .. Len(orders'[p]) <=> n \in 1 .. Len(orders[p]) \/ n = Len(orders[p]) + 1
    BY <1>4, <1>8
  <2>3. id \notin Ids
    BY <1>6, <1>8
  <2>4. \A i : i \in Ids' <=> i \in Ids \/ i = id
    BY <1>6, <1>7, <1>8, <2>1, <2>2
  <2> QED
    BY <2>3, <2>4
<1>10. orders'[p][Len(orders[p]) + 1] = s /\ credits'[p][Len(orders[p]) + 1] = 0
  BY <1>4
<1>11. ASSUME NEW i \in Ids
       PROVE  StatusOf(i)' = StatusOf(i) /\ CreditsOf(i)' = CreditsOf(i)
  <2>1. PICK q \in Payment, n \in Nat : i = <<q, n>> /\ n \in 1 .. Len(orders[q])
    BY <1>6
  <2>2. i[1] = q /\ i[2] = n
    BY <2>1
  <2>3. orders'[q][n] = orders[q][n] /\ credits'[q][n] = credits[q][n]
    BY <1>3, <1>4, <2>1
  <2> QED
    BY <2>2, <2>3 DEF StatusOf, CreditsOf
<1>12. id[1] = p /\ id[2] = Len(orders[p]) + 1
  BY <1>8
<1>13. StatusOf(id)' = s /\ CreditsOf(id)' = 0
  BY <1>10, <1>12 DEF StatusOf, CreditsOf
<1> QED
  BY <1>5, <1>9, <1>11, <1>13

(* What the tables say of a row. *)
LEMMA RowTyped ==
  ASSUME Tables, NEW i \in Ids
  PROVE  /\ i[1] \in Payment
         /\ i = <<i[1], i[2]>>
         /\ i[2] \in DOMAIN orders[i[1]] /\ i[2] \in DOMAIN credits[i[1]]
         /\ StatusOf(i) \in Status /\ CreditsOf(i) \in Nat
<1>1. PICK p \in Payment, n \in Nat : i = <<p, n>> /\ n \in 1 .. Len(orders[p])
  BY IdsOfTable DEF Ids, Tables
<1>2. i[1] = p /\ i[2] = n
  BY <1>1
<1>3. /\ orders[p] \in Seq(Status) /\ credits[p] \in Seq(Nat)
      /\ Len(credits[p]) = Len(orders[p])
  BY DEF Tables
<1>4. n \in DOMAIN orders[p] /\ n \in DOMAIN credits[p]
  BY <1>1, <1>3
<1>5. orders[p][n] \in Status /\ credits[p][n] \in Nat
  BY <1>1, <1>3
<1> QED
  BY <1>1, <1>2, <1>4, <1>5 DEF StatusOf, CreditsOf

(* SetStatus changes the status of one row. *)
LEMMA StatusSet ==
  ASSUME Tables, NEW i \in Ids, NEW s \in Status, SetStatus(i, s)
  PROVE  /\ orders' \in [Payment -> Seq(Status)]
         /\ \A p \in Payment : Len(orders'[p]) = Len(orders[p])
         /\ \A j \in Ids : StatusOf(j)' = IF j = i THEN s ELSE StatusOf(j)
<1> DEFINE p == i[1]
           row == [orders[p] EXCEPT ![i[2]] = s]
<1>1. p \in Payment /\ i = <<p, i[2]>> /\ i[2] \in DOMAIN orders[p]
  BY RowTyped
<1>2. orders' = [orders EXCEPT ![p] = row]
  BY DEF SetStatus
<1>3. orders[p] \in Seq(Status) /\ orders \in [Payment -> Seq(Status)]
  BY <1>1 DEF Tables
<1>4. row \in Seq(Status) /\ Len(row) = Len(orders[p]) /\ DOMAIN row = DOMAIN orders[p]
  BY <1>1, <1>3
<1>5. orders'[p] = row /\ \A q \in Payment \ {p} : orders'[q] = orders[q]
  BY <1>1, <1>2, <1>3
<1>6. orders' \in [Payment -> Seq(Status)]
  BY <1>1, <1>2, <1>3, <1>4
<1>7. \A q \in Payment : Len(orders'[q]) = Len(orders[q])
  BY <1>4, <1>5
<1>8. ASSUME NEW j \in Ids
      PROVE  StatusOf(j)' = IF j = i THEN s ELSE StatusOf(j)
  <2>1. j[1] \in Payment /\ j = <<j[1], j[2]>> /\ j[2] \in DOMAIN orders[j[1]]
    BY RowTyped
  <2>2. CASE j = i
    BY <2>2, <1>1, <1>4, <1>5 DEF StatusOf
  <2>3. CASE j[1] # p
    BY <2>1, <2>3, <1>5 DEF StatusOf
  <2>4. CASE j[1] = p /\ j[2] # i[2]
    <3>1. row[j[2]] = orders[p][j[2]]
      BY <2>1, <2>4
    <3> QED
      BY <3>1, <2>4, <1>5 DEF StatusOf
  <2> QED
    BY <2>1, <2>2, <2>3, <2>4, <1>1
<1> QED
  BY <1>6, <1>7, <1>8

(* Credit counts one more posting of one row. *)
LEMMA CreditGiven ==
  ASSUME Tables, NEW i \in Ids, Credit(i)
  PROVE  /\ credits' \in [Payment -> Seq(Nat)]
         /\ \A p \in Payment : Len(credits'[p]) = Len(credits[p])
         /\ \A j \in Ids : CreditsOf(j)' = IF j = i THEN CreditsOf(i) + 1 ELSE CreditsOf(j)
<1> DEFINE p == i[1]
           more == CreditsOf(i) + 1
           row == [credits[p] EXCEPT ![i[2]] = more]
<1>1. /\ p \in Payment /\ i = <<p, i[2]>> /\ i[2] \in DOMAIN credits[p]
      /\ more \in Nat
  BY RowTyped
<1>2. credits' = [credits EXCEPT ![p] = row]
  BY DEF Credit
<1> HIDE DEF more
<1>3. credits[p] \in Seq(Nat) /\ credits \in [Payment -> Seq(Nat)]
  BY <1>1 DEF Tables
<1>4. row \in Seq(Nat) /\ Len(row) = Len(credits[p]) /\ DOMAIN row = DOMAIN credits[p]
  BY <1>1, <1>3
<1>5. credits'[p] = row /\ \A q \in Payment \ {p} : credits'[q] = credits[q]
  BY <1>1, <1>2, <1>3
<1>6. credits' \in [Payment -> Seq(Nat)]
  BY <1>1, <1>2, <1>3, <1>4
<1>7. \A q \in Payment : Len(credits'[q]) = Len(credits[q])
  BY <1>4, <1>5
<1>8. ASSUME NEW j \in Ids
      PROVE  CreditsOf(j)' = IF j = i THEN more ELSE CreditsOf(j)
  <2>1. j[1] \in Payment /\ j = <<j[1], j[2]>> /\ j[2] \in DOMAIN credits[j[1]]
    BY RowTyped
  <2>2. CASE j = i
    BY <2>2, <1>1, <1>4, <1>5 DEF CreditsOf
  <2>3. CASE j[1] # p
    BY <2>1, <2>3, <1>5 DEF CreditsOf
  <2>4. CASE j[1] = p /\ j[2] # i[2]
    <3>1. row[j[2]] = credits[p][j[2]]
      BY <2>1, <2>4
    <3> QED
      BY <3>1, <2>4, <1>5 DEF CreditsOf
  <2> QED
    BY <2>1, <2>2, <2>3, <2>4, <1>1
<1> QED
  BY <1>6, <1>7, <1>8 DEF more

(* Rows of the same lengths have the same ids. *)
LEMMA SameIds ==
  ASSUME Tables, orders' \in [Payment -> Seq(Status)],
         \A p \in Payment : Len(orders'[p]) = Len(orders[p])
  PROVE  Ids' = Ids
<1>1. \A i : i \in Ids <=> \E p \in Payment : \E n \in 1 .. Len(orders[p]) : i = <<p, n>>
  BY IdsOfTable DEF Ids, Tables
<1>2. \A i : i \in Ids' <=> \E p \in Payment : \E n \in 1 .. Len(orders'[p]) : i = <<p, n>>
  BY IdsOfTable DEF Ids
<1>3. \A i : i \in Ids' <=> i \in Ids
  BY <1>1, <1>2
<1> QED
  BY <1>3

(* A step that leaves the tables alone leaves the rows alone. *)
LEMMA TablesUntouched ==
  ASSUME Tables, UNCHANGED mysql
  PROVE  /\ Tables' /\ Ids' = Ids
         /\ \A j \in Ids : StatusOf(j)' = StatusOf(j) /\ CreditsOf(j)' = CreditsOf(j)
  BY DEF mysql, Tables, Ids, StatusOf, CreditsOf

(* WxUpdate and ToolPost of a closed order. *)
LEMMA OnlyStatus ==
  ASSUME Tables, NEW i \in Ids, NEW s \in Status, SetStatus(i, s), UNCHANGED credits
  PROVE  /\ Tables' /\ Ids' = Ids
         /\ \A j \in Ids : StatusOf(j)' = IF j = i THEN s ELSE StatusOf(j)
         /\ \A j \in Ids : CreditsOf(j)' = CreditsOf(j)
  BY StatusSet, SameIds DEF Tables, CreditsOf

(* The credits of the pollers and of cli/deposit. *)
LEMMA OnlyCredit ==
  ASSUME Tables, NEW i \in Ids, Credit(i), UNCHANGED orders
  PROVE  /\ Tables' /\ Ids' = Ids
         /\ \A j \in Ids : StatusOf(j)' = StatusOf(j)
         /\ \A j \in Ids : CreditsOf(j)' = IF j = i THEN CreditsOf(i) + 1 ELSE CreditsOf(j)
  BY CreditGiven, SameIds DEF Tables, StatusOf

(* ToolPost of an order that has been paid. *)
LEMMA StatusAndCredit ==
  ASSUME Tables, NEW i \in Ids, NEW s \in Status, SetStatus(i, s), Credit(i)
  PROVE  /\ Tables' /\ Ids' = Ids
         /\ \A j \in Ids : StatusOf(j)' = IF j = i THEN s ELSE StatusOf(j)
         /\ \A j \in Ids : CreditsOf(j)' = IF j = i THEN CreditsOf(i) + 1 ELSE CreditsOf(j)
  BY StatusSet, CreditGiven, SameIds DEF Tables
-----------------------------------------------------------------------------
OutsideTyped == trade \in [WxOrder -> TradeState] /\ transfers \in Seq(Transfer)

WxTyped ==
  /\ wx \in [at : {"idle", "query", "update", "credit"}, todo : SUBSET Ids,
             order : Ids \cup {NoId}, status : Status]
  /\ wx.at \in {"update", "credit"} => wx.order \in wx.todo

(* The record of a row that waits for its credit heads the page. *)
CmbTyped ==
  /\ cmb \in [at : {"idle", "save", "credit"}, page : Seq(Transfer), offset : Nat,
              inserted : BOOLEAN, order : Ids \cup {NoId}]
  /\ cmb.at = "credit" => cmb.order \in Ids /\ cmb.page # << >>

StaffTyped ==
  /\ manual \in [at : {"idle", "credit"}, order : Ids \cup {NoId}]
  /\ tool \in [at : {"idle", "post"}, order : Ids \cup {NoId}]
  /\ manual.at = "credit" => manual.order \in Ids
  /\ tool.at = "post" => tool.order \in Ids

HistoryTyped ==
  /\ unseen \subseteq Transfer /\ mishap \subseteq Payment
  /\ finalizes \in Nat /\ faults \in Nat

(* The types, and what a worker in the middle of an order has in hand. *)
Typed ==
  /\ OutsideTyped /\ Tables /\ WxTyped /\ CmbTyped /\ StaffTyped /\ HistoryTyped
  /\ raced \subseteq Ids

(* A row that may still be credited in the ordinary way has no credit yet. *)
Uncredited ==
  /\ \A i \in Ids : StatusOf(i) = "init" => i[1] \in WxOrder /\ CreditsOf(i) = 0
  /\ \A i \in Pending \ raced : CreditsOf(i) = 0
  /\ \A i \in Ids : tool.at = "post" /\ tool.order = i => i \in raced \/ CreditsOf(i) = 0

(* The three ways of a payment keep apart. *)
WxApart ==
  /\ \A i \in wx.todo : i[1] \in WxOrder
  /\ wx.at = "update" => wx.status # "init"
  /\ \A i \in Ids : wx.at = "credit" /\ wx.order = i => StatusOf(i) # "init"
Apart ==
  /\ WxApart
  /\ cmb.at = "credit" => cmb.order[1] \in Transfer
  /\ manual.at = "credit" => manual.order[1] \in Manual

CreditInv == Uncredited /\ Apart /\ OneCredit /\ Overlap \subseteq raced
-----------------------------------------------------------------------------
(* Workers that do not move stay typed while rows are added. *)
LEMMA WorkersStay ==
  ASSUME Ids \subseteq Ids'
  PROVE  /\ WxTyped /\ UNCHANGED wx => WxTyped'
         /\ CmbTyped /\ UNCHANGED cmb => CmbTyped'
         /\ StaffTyped /\ UNCHANGED <<manual, tool>> => StaffTyped'
<1>1. WxTyped /\ UNCHANGED wx => WxTyped'
  BY DEF WxTyped
<1>2. CmbTyped /\ UNCHANGED cmb => CmbTyped'
  BY DEF CmbTyped
<1>3. StaffTyped /\ UNCHANGED <<manual, tool>> => StaffTyped'
  BY DEF StaffTyped
<1> QED
  BY <1>1, <1>2, <1>3

(* A page of records is a sequence of transfers. *)
LEMMA PageTyped ==
  ASSUME OutsideTyped, NEW offset \in Nat
  PROVE  Page(offset) \in Seq(Transfer)
<1>1. PageSize \in Nat
  BY DepositAssumption
<1>2. transfers \in Seq(Transfer) /\ Len(transfers) \in Nat
  BY DEF OutsideTyped
<1>3. /\ Lesser(offset + PageSize, Len(transfers)) \in Nat
      /\ Lesser(offset + PageSize, Len(transfers)) <= Len(transfers)
  BY <1>1, <1>2 DEF Lesser
<1>4. \A m \in 1 .. Len(transfers) : transfers[m] \in Transfer
  BY <1>2
<1>5. \A n \in Nat : n <= Len(transfers) => SubSeq(transfers, offset + 1, n) \in Seq(Transfer)
  BY <1>2, <1>4
<1> QED
  BY <1>3, <1>5 DEF Page

(* What has no row is a transfer. *)
LEMMA UnsavedTyped == OutsideTyped => Unsaved \subseteq Transfer
  BY DEF OutsideTyped, Unsaved, ToSet

(* What a step has to keep, the tables and races apart. *)
Kept == OutsideTyped' /\ Tables' /\ WxTyped' /\ CmbTyped' /\ StaffTyped' /\ HistoryTyped'

(* Orders, payments and transfers from outside. *)
LEMMA CustomersTyped ==
  ASSUME Typed, Customers
  PROVE  Kept /\ Ids \subseteq Ids'
<1>1. ASSUME NEW p \in WxOrder, CreateWechatOrder(p)
      PROVE  Kept /\ Ids \subseteq Ids'
  <2>1. PICK id : id = NewId(p)
    OBVIOUS
  <2>2. Tables' /\ Ids \subseteq Ids'
    BY <1>1, <2>1, Inserted DEF Typed, CreateWechatOrder, Payment, Status
  <2>3. OutsideTyped' /\ HistoryTyped'
    BY <1>1 DEF Typed, CreateWechatOrder, OutsideTyped, HistoryTyped, TradeState
  <2> QED
    BY <1>1, <2>2, <2>3, WorkersStay DEF Typed, CreateWechatOrder, Kept, workers
<1>2. ASSUME NEW p \in WxOrder, NEW state \in {"SUCCESS", "CLOSED"}, WechatDecides(p, state)
      PROVE  Kept /\ Ids \subseteq Ids'
  <2>1. Tables' /\ Ids' = Ids
    BY <1>2, TablesUntouched DEF Typed, WechatDecides
  <2>2. OutsideTyped' /\ HistoryTyped'
    BY <1>2 DEF Typed, WechatDecides, OutsideTyped, HistoryTyped, TradeState
  <2> QED
    BY <1>2, <2>1, <2>2, WorkersStay DEF Typed, WechatDecides, Kept, workers
<1>3. ASSUME NEW p \in Transfer, TransferArrives(p)
      PROVE  Kept /\ Ids \subseteq Ids'
  <2>1. Tables' /\ Ids' = Ids
    BY <1>3, TablesUntouched DEF Typed, TransferArrives
  <2>2. OutsideTyped'
    BY <1>3 DEF Typed, TransferArrives, OutsideTyped
  <2>3. HistoryTyped'
    BY <1>3, UnsavedTyped DEF Typed, TransferArrives, HistoryTyped, Payment
  <2> QED
    BY <1>3, <2>1, <2>2, <2>3, WorkersStay DEF Typed, TransferArrives, Kept, workers
<1> QED
  BY <1>1, <1>2, <1>3 DEF Customers

(* The poller of wechat goes on from an order it has in hand. *)
LEMMA WxNextTyped ==
  ASSUME WxTyped, wx.order \in Ids \cup {NoId}, WxNext, Ids' = Ids
  PROVE  WxTyped'
  BY DEF WxTyped, WxNext, NoWx, Status

(* The poller of wechat. *)
LEMMA WxStepTyped ==
  ASSUME Typed, WxStep
  PROVE  Kept /\ Ids \subseteq Ids'
<1> USE DEF Typed
<1>1. CASE WxBegin \/ WxQuery \/ WxEnd
  <2>1. /\ UNCHANGED <<outside, mysql, cmb, manual, tool, unseen, mishap, finalizes, faults>>
    BY <1>1 DEF WxBegin, WxQuery, WxEnd
  <2>2. Tables' /\ Ids' = Ids
    BY <2>1, TablesUntouched
  <2>3. WxTyped'
    <3>1. CASE WxBegin
      <4>1. InitialOrders \subseteq Ids
        BY DEF InitialOrders
      <4> QED
        BY <3>1, <4>1, <2>2 DEF WxBegin, WxTyped, NoWx, Status
    <3>2. CASE WxQuery
      <4>1. PICK i \in wx.todo :
              wx' = IF StatusFor(trade[i[1]]) = "init"
                    THEN [wx EXCEPT !.todo = @ \ {i}]
                    ELSE [wx EXCEPT !.at = "update", !.order = i,
                                    !.status = StatusFor(trade[i[1]])]
        BY <3>2 DEF WxQuery
      <4>2. StatusFor(trade[i[1]]) \in Status /\ wx.at = "query"
        BY <3>2 DEF StatusFor, Status, WxQuery
      <4> QED
        BY <4>1, <4>2, <2>2 DEF WxTyped
    <3>3. CASE WxEnd
      BY <3>3, <2>2 DEF WxEnd, WxTyped, NoWx, Status
    <3> QED
      BY <1>1, <3>1, <3>2, <3>3
  <2>4. OutsideTyped' /\ HistoryTyped'
    BY <2>1 DEF OutsideTyped, HistoryTyped, outside
  <2> QED
    BY <2>1, <2>2, <2>3, <2>4, WorkersStay DEF Kept
<1>2. CASE WxUpdate \/ WxCredit
  <2>1. UNCHANGED <<outside, cmb, manual, tool, unseen, mishap, finalizes, faults>>
    BY <1>2 DEF WxUpdate, WxCredit
  <2>2. wx.order \in Ids /\ wx.status \in Status
    BY <1>2 DEF WxUpdate, WxCredit, WxTyped
  <2>3. Tables' /\ Ids' = Ids
    BY <1>2, <2>2, OnlyStatus, OnlyCredit DEF WxUpdate, WxCredit
  <2>4. WxTyped'
    <3>1. CASE WxNext
      BY <3>1, <2>2, <2>3, WxNextTyped
    <3>2. CASE wx' = [wx EXCEPT !.at = "credit"] /\ wx.at = "update"
      BY <3>2, <2>3 DEF WxTyped
    <3> QED
      BY <1>2, <3>1, <3>2 DEF WxUpdate, WxCredit
  <2>5. OutsideTyped' /\ HistoryTyped'
    BY <2>1 DEF OutsideTyped, HistoryTyped, outside
  <2> QED
    BY <2>1, <2>3, <2>4, <2>5, WorkersStay DEF Kept
<1> QED
  BY <1>1, <1>2 DEF WxStep

(* The poller of the bank goes on with the next record. *)
LEMMA CmbNextTyped ==
  ASSUME CmbTyped, cmb.page # << >>, NEW inserted \in BOOLEAN, CmbNext(inserted), Ids' = Ids
  PROVE  CmbTyped'
<1>1. Tail(cmb.page) \in Seq(Transfer)
  BY DEF CmbTyped
<1> QED
  BY <1>1 DEF CmbTyped, CmbNext

(* The poller of the bank saves a record. *)
LEMMA CmbInsertTyped ==
  ASSUME Typed, cmb.page # << >>, CmbInsert
  PROVE  Tables' /\ Ids \subseteq Ids' /\ CmbTyped'
<1> DEFINE p == Head(cmb.page)
<1>1. p \in Transfer /\ p \in Payment
  BY DEF Typed, CmbTyped, Payment
<1>2. PICK id : id = NewId(p)
  OBVIOUS
<1>3. Tables' /\ Ids' = Ids \cup {id}
  BY <1>1, <1>2, Inserted DEF Typed, CmbInsert, Status
<1>4. CmbTyped'
  BY <1>2, <1>3 DEF Typed, CmbTyped, CmbInsert
<1> QED
  BY <1>3, <1>4

(* The poller of the bank. *)
LEMMA CmbStepTyped ==
  ASSUME Typed, CmbStep
  PROVE  Kept /\ Ids \subseteq Ids'
<1> USE DEF Typed
<1>1. CASE CmbBegin \/ CmbStop \/ CmbTurnPage
  <2>1. UNCHANGED <<outside, mysql, wx, manual, tool, unseen, mishap, finalizes, faults>>
    BY <1>1 DEF CmbBegin, CmbStop, CmbTurnPage
  <2>2. Tables' /\ Ids' = Ids
    BY <2>1, TablesUntouched
  <2>3. \A n \in Nat : Page(n) \in Seq(Transfer)
    BY PageTyped
  <2>4. CmbTyped'
    <3>1. ASSUME NEW n \in Nat, NEW page \in Seq(Transfer),
                 cmb' = [NoCmb EXCEPT !.at = "save", !.page = page, !.offset = n]
          PROVE  CmbTyped'
      BY <3>1 DEF CmbTyped, NoCmb
    <3>2. CASE CmbBegin
      BY <3>2, <2>3 DEF CmbBegin, CmbTyped, NoCmb
    <3>3. CASE cmb' = NoCmb
      BY <3>3 DEF CmbTyped, NoCmb
    <3>4. CASE CmbTurnPage /\ cmb' # NoCmb
      <4>1. cmb.offset + PageSize \in Nat
        BY DepositAssumption DEF CmbTyped
      <4> QED
        BY <3>1, <3>4, <4>1, <2>3 DEF CmbTurnPage
    <3> QED
      BY <1>1, <3>2, <3>3, <3>4 DEF CmbStop
  <2>5. OutsideTyped' /\ HistoryTyped'
    BY <2>1 DEF OutsideTyped, HistoryTyped, outside
  <2> QED
    BY <2>1, <2>2, <2>4, <2>5, WorkersStay DEF Kept
<1>2. CASE CmbSave
  <2>1. OutsideTyped' /\ HistoryTyped'
    BY <1>2 DEF CmbSave, OutsideTyped, HistoryTyped, outside
  <2>2. Tables' /\ Ids \subseteq Ids' /\ CmbTyped'
    BY <1>2, CmbInsertTyped DEF CmbSave
  <2> QED
    BY <1>2, <2>1, <2>2, WorkersStay DEF CmbSave, Kept
<1>3. CASE CmbCredit
  <2>1. OutsideTyped' /\ HistoryTyped'
    BY <1>3 DEF CmbCredit, OutsideTyped, HistoryTyped, outside
  <2>2. cmb.order \in Ids /\ cmb.page # << >>
    BY <1>3 DEF CmbCredit, CmbTyped
  <2>3. Tables' /\ Ids' = Ids
    BY <1>3, <2>2, OnlyCredit DEF CmbCredit
  <2>4. CmbTyped'
    BY <1>3, <2>2, <2>3, CmbNextTyped DEF CmbCredit
  <2> QED
    BY <1>3, <2>1, <2>3, <2>4, WorkersStay DEF CmbCredit, Kept
<1> QED
  BY <1>1, <1>2, <1>3 DEF CmbStep

(* The tools of the staff. *)
LEMMA StaffStepTyped ==
  ASSUME Typed, Staff
  PROVE  Kept /\ Ids \subseteq Ids'
<1> USE DEF Typed
<1>1. ASSUME NEW p \in Manual, ManualDeposit(p)
      PROVE  Kept /\ Ids \subseteq Ids'
  <2>1. PICK id : id = NewId(p)
    OBVIOUS
  <2>2. Tables' /\ Ids' = Ids \cup {id}
    BY <1>1, <2>1, Inserted DEF ManualDeposit, Payment, Status
  <2>3. StaffTyped'
    BY <1>1, <2>1, <2>2 DEF ManualDeposit, StaffTyped
  <2>4. OutsideTyped' /\ HistoryTyped'
    BY <1>1 DEF ManualDeposit, OutsideTyped, HistoryTyped, outside
  <2> QED
    BY <1>1, <2>2, <2>3, <2>4, WorkersStay DEF ManualDeposit, Kept
<1>2. CASE ManualCredit
  <2>1. manual.order \in Ids
    BY <1>2 DEF ManualCredit, StaffTyped
  <2>2. Tables' /\ Ids' = Ids
    BY <1>2, <2>1, OnlyCredit DEF ManualCredit
  <2>3. StaffTyped'
    BY <1>2, <2>2 DEF ManualCredit, StaffTyped, Nobody
  <2>4. OutsideTyped' /\ HistoryTyped'
    BY <1>2 DEF ManualCredit, OutsideTyped, HistoryTyped, outside
  <2> QED
    BY <1>2, <2>2, <2>3, <2>4, WorkersStay DEF ManualCredit, Kept
<1>3. ASSUME NEW i \in Ids, ToolCheck(i)
      PROVE  Kept /\ Ids \subseteq Ids'
  <2>1. Tables' /\ Ids' = Ids
    BY <1>3, TablesUntouched DEF ToolCheck
  <2>2. StaffTyped'
    BY <1>3, <2>1 DEF ToolCheck, StaffTyped
  <2>3. OutsideTyped' /\ HistoryTyped'
    BY <1>3 DEF ToolCheck, OutsideTyped, HistoryTyped, outside
  <2> QED
    BY <1>3, <2>1, <2>2, <2>3, WorkersStay DEF ToolCheck, Kept
<1>4. CASE ToolPost
  <2>1. tool.order \in Ids
    BY <1>4 DEF ToolPost, StaffTyped
  <2>2. Tables' /\ Ids' = Ids
    BY <1>4, <2>1, OnlyStatus, StatusAndCredit DEF ToolPost, Status
  <2>3. StaffTyped'
    BY <1>4, <2>2 DEF ToolPost, StaffTyped, Nobody
  <2>4. OutsideTyped' /\ HistoryTyped'
    BY <1>4 DEF ToolPost, OutsideTyped, HistoryTyped, outside
  <2> QED
    BY <1>4, <2>2, <2>3, <2>4, WorkersStay DEF ToolPost, Kept
<1> QED
  BY <1>1, <1>2, <1>3, <1>4 DEF Staff

(* Faults that leave the tables alone. *)
QuietFault ==
  \/ \E p \in WxOrder : CreateFails(p)
  \/ WxQueryFails \/ WxCreditFails
  \/ CmbRecordFails \/ CmbPageFails
  \/ ManualFails \/ ToolFails
  \/ Crash

(* Errors and crashes. *)
LEMMA FaultsTyped ==
  ASSUME Typed, Faults
  PROVE  Kept /\ Ids \subseteq Ids'
<1> USE DEF Typed
<1>1. faults' \in Nat
  <2>1. Fault
    BY DEF Faults, CreateFails, WxQueryFails, WxUpdateFails, WxCreditFails, CmbLookupFails,
           CmbRecordFails, CmbPageFails, ManualFails, ToolFails, Crash
  <2> QED
    BY <2>1 DEF Fault, HistoryTyped
<1>2. Unsaved \subseteq Payment /\ \A i \in Ids : i[1] \in Payment
  BY UnsavedTyped, RowTyped DEF Payment
<1>3. CASE QuietFault
  <2>1. Tables' /\ Ids' = Ids
    <3>1. UNCHANGED mysql
      BY <1>3 DEF QuietFault, CreateFails, WxQueryFails, WxCreditFails, CmbRecordFails,
                  CmbPageFails, ManualFails, ToolFails, Crash
    <3> QED
      BY <3>1, TablesUntouched
  <2>2. CASE \E p \in WxOrder : CreateFails(p)
    <3>1. OutsideTyped' /\ HistoryTyped'
      BY <2>2, <1>1 DEF CreateFails, OutsideTyped, HistoryTyped, TradeState, Payment
    <3> QED
      BY <2>1, <2>2, <3>1, WorkersStay DEF CreateFails, Kept, workers
  <2>3. CASE WxQueryFails \/ WxCreditFails
    <3>1. WxTyped'
      <4>1. CASE WxQueryFails
        BY <4>1, <2>1 DEF WxQueryFails, WxTyped
      <4>2. CASE WxCreditFails
        BY <4>2, <2>1, WxNextTyped DEF WxCreditFails, WxTyped
      <4> QED
        BY <2>3, <4>1, <4>2
    <3>2. OutsideTyped' /\ HistoryTyped'
      BY <2>3, <1>1, <1>2 DEF WxQueryFails, WxCreditFails, WxTyped, OutsideTyped, HistoryTyped,
                              outside
    <3> QED
      BY <2>1, <2>3, <3>1, <3>2, WorkersStay DEF WxQueryFails, WxCreditFails, Kept
  <2>4. CASE CmbRecordFails
    <3>1. cmb.page # << >> /\ Head(cmb.page) \in Payment
      BY <2>4 DEF CmbRecordFails, CmbTyped, Payment
    <3>2. CmbTyped'
      BY <2>1, <2>4, <3>1, CmbNextTyped DEF CmbRecordFails
    <3>3. OutsideTyped' /\ HistoryTyped'
      BY <2>4, <1>1, <1>2, <3>1 DEF CmbRecordFails, OutsideTyped, HistoryTyped, outside
    <3> QED
      BY <2>1, <2>4, <3>2, <3>3, WorkersStay DEF CmbRecordFails, Kept
  <2>5. CASE CmbPageFails
    <3>1. CmbTyped'
      BY <2>1, <2>5 DEF CmbPageFails, CmbTyped, NoCmb
    <3>2. OutsideTyped' /\ HistoryTyped'
      BY <2>5, <1>1, <1>2 DEF CmbPageFails, OutsideTyped, HistoryTyped, outside
    <3> QED
      BY <2>1, <2>5, <3>1, <3>2, WorkersStay DEF CmbPageFails, Kept
  <2>6. CASE ManualFails \/ ToolFails
    <3>1. StaffTyped'
      BY <2>1, <2>6 DEF ManualFails, ToolFails, StaffTyped, Nobody
    <3>2. OutsideTyped' /\ HistoryTyped'
      BY <2>6, <1>1, <1>2 DEF ManualFails, ToolFails, StaffTyped, OutsideTyped, HistoryTyped,
                              outside
    <3> QED
      BY <2>1, <2>6, <3>1, <3>2, WorkersStay DEF ManualFails, ToolFails, Kept
  <2>7. CASE Crash
    <3>1. WxTyped' /\ CmbTyped'
      BY <2>1, <2>7 DEF Crash, WxTyped, CmbTyped, NoWx, NoCmb, Status
    <3>2. wx.at = "credit" => wx.order[1] \in Payment
      BY <1>2 DEF WxTyped
    <3>3. cmb.at = "credit" => cmb.order[1] \in Payment
      BY <1>2 DEF CmbTyped
    <3>4. OutsideTyped' /\ HistoryTyped'
      BY <2>7, <1>1, <1>2, <3>2, <3>3 DEF Crash, OutsideTyped, HistoryTyped, outside
    <3> QED
      BY <2>1, <2>7, <3>1, <3>4, WorkersStay DEF Crash, Kept
  <2> QED
    BY <1>3, <2>2, <2>3, <2>4, <2>5, <2>6, <2>7 DEF QuietFault
<1>4. CASE WxUpdateFails
  <2>1. wx.order \in Ids /\ wx.status \in Status
    BY <1>4 DEF WxUpdateFails, WxTyped
  <2>2. Tables' /\ Ids' = Ids
    BY <1>4, <2>1, OnlyStatus, TablesUntouched DEF WxUpdateFails
  <2>3. WxTyped'
    BY <1>4, <2>1, <2>2, WxNextTyped DEF WxUpdateFails
  <2>4. OutsideTyped' /\ HistoryTyped'
    BY <1>1, <1>2, <1>4, <2>1 DEF WxUpdateFails, OutsideTyped, HistoryTyped, outside
  <2> QED
    BY <1>4, <2>2, <2>3, <2>4, WorkersStay DEF WxUpdateFails, Kept
<1>5. CASE CmbLookupFails
  <2>1. Tables' /\ Ids \subseteq Ids' /\ CmbTyped'
    BY <1>5, CmbInsertTyped DEF CmbLookupFails
  <2>2. OutsideTyped' /\ HistoryTyped'
    BY <1>1, <1>5 DEF CmbLookupFails, OutsideTyped, HistoryTyped, CmbTyped, outside
  <2> QED
    BY <1>5, <2>1, <2>2, WorkersStay DEF CmbLookupFails, Kept
<1> QED
  BY <1>3, <1>4, <1>5 DEF Faults, QuietFault

(* The initial state. *)
LEMMA InitTyped == Init => Typed
<1> SUFFICES ASSUME Init PROVE Typed
  OBVIOUS
<1>1. Tables
  BY DEF Init, Tables
<1>2. OutsideTyped /\ HistoryTyped /\ raced \subseteq Ids
  BY DEF Init, OutsideTyped, HistoryTyped, TradeState
<1>3. WxTyped /\ CmbTyped /\ StaffTyped
  BY DEF Init, WxTyped, CmbTyped, StaffTyped, NoWx, NoCmb, Nobody, Status
<1> QED
  BY <1>1, <1>2, <1>3 DEF Typed

(* Every step keeps the types. *)
LEMMA StepTyped == Typed /\ [Next]_vars => Typed' /\ Ids \subseteq Ids'
<1> SUFFICES ASSUME Typed, [Next]_vars PROVE Typed' /\ Ids \subseteq Ids'
  OBVIOUS
<1>1. ASSUME Sleep \/ UNCHANGED vars
      PROVE  Kept /\ Ids \subseteq Ids'
  <2>1. UNCHANGED <<outside, mysql, workers, unseen, mishap, finalizes, faults>>
    BY <1>1 DEF Sleep, vars
  <2>2. Tables' /\ Ids' = Ids
    BY <2>1, TablesUntouched DEF Typed
  <2>3. OutsideTyped' /\ HistoryTyped'
    BY <2>1 DEF Typed, OutsideTyped, HistoryTyped, outside
  <2> QED
    BY <2>1, <2>2, <2>3, WorkersStay DEF Typed, Kept, workers
<1>2. Kept /\ Ids \subseteq Ids'
  BY <1>1, CustomersTyped, WxStepTyped, CmbStepTyped, StaffStepTyped, FaultsTyped DEF Next
<1>3. raced' \subseteq Ids'
  <2>1. Overlap' \subseteq Ids'
    BY <1>2 DEF Overlap, Kept, StaffTyped
  <2>2. raced' = raced \/ raced' = raced \cup Overlap'
    BY DEF Next, NoteRace, vars
  <2> QED
    BY <1>2, <2>1, <2>2 DEF Typed
<1> QED
  BY <1>2, <1>3 DEF Typed, Kept

(* The strengthened types are an invariant. *)
LEMMA AlwaysTyped == Spec => []Typed
  BY InitTyped, StepTyped, PTL DEF Spec

(* Every variable keeps its type: the rows that workers hold are rows of
   deposit_orders, whatever errors, crashes and other workers do meanwhile. *)
THEOREM DepositTypeCorrect == Spec => []TypeOK
<1>1. Typed => TypeOK
  BY DEF Typed, OutsideTyped, Tables, WxTyped, CmbTyped, StaffTyped, HistoryTyped, TypeOK
<1> QED
  BY <1>1, AlwaysTyped, PTL
-----------------------------------------------------------------------------
(* A step without a credit: rows and orders to be credited may join as long as
   they have no credit yet. *)
LEMMA NoNewCredit ==
  ASSUME Typed, CreditInv, raced \subseteq raced',
         \A i \in Ids' : (i \in Ids /\ CreditsOf(i)' = CreditsOf(i)) \/ CreditsOf(i)' = 0,
         \A i \in Ids' : StatusOf(i)' = "init" =>
           \/ i \in Ids /\ StatusOf(i) = "init"
           \/ i[1] \in WxOrder /\ CreditsOf(i)' = 0,
         \A i \in Pending' : i \in Ids' /\ (i \in Pending \/ CreditsOf(i)' = 0),
         \A i \in Ids' : tool'.at = "post" /\ tool'.order = i =>
           tool' = tool \/ CreditsOf(i)' = 0
  PROVE  Uncredited' /\ OneCredit'
<1>1. \A i \in Ids' : StatusOf(i)' = "init" => i[1] \in WxOrder /\ CreditsOf(i)' = 0
  BY DEF CreditInv, Uncredited
<1>2. \A i \in Pending' \ raced' : CreditsOf(i)' = 0
  BY DEF CreditInv, Uncredited
<1>3. \A i \in Ids' : tool'.at = "post" /\ tool'.order = i => i \in raced' \/ CreditsOf(i)' = 0
  BY DEF CreditInv, Uncredited
<1>4. \A i \in Ids' \ raced' : CreditsOf(i)' <= 1
  <2>1. \A i \in Ids \ raced : CreditsOf(i) <= 1
    BY DEF CreditInv, OneCredit
  <2> QED
    BY <2>1
<1> QED
  BY <1>1, <1>2, <1>3, <1>4 DEF Uncredited, OneCredit

(* A step that credits a row which has no credit, or is raced over. *)
LEMMA NewCredit ==
  ASSUME Typed, CreditInv, raced \subseteq raced', Ids' = Ids,
         NEW i \in Ids, CreditsOf(i) = 0 \/ i \in raced,
         \A j \in Ids : CreditsOf(j)' = IF j = i THEN CreditsOf(i) + 1 ELSE CreditsOf(j),
         StatusOf(i)' # "init",
         \A j \in Ids : StatusOf(j)' = "init" => StatusOf(j) = "init",
         Pending' \subseteq Pending, Pending \subseteq Ids, i \in Pending' => i \in raced',
         tool'.at = "post" => tool' = tool /\ (tool'.order = i => i \in raced')
  PROVE  Uncredited' /\ OneCredit'
<1>1. \A j \in Ids' : StatusOf(j)' = "init" => j[1] \in WxOrder /\ CreditsOf(j)' = 0
  BY DEF CreditInv, Uncredited
<1>2. \A j \in Pending' \ raced' : CreditsOf(j)' = 0
  BY DEF CreditInv, Uncredited
<1>3. \A j \in Ids' : tool'.at = "post" /\ tool'.order = j => j \in raced' \/ CreditsOf(j)' = 0
  BY DEF CreditInv, Uncredited
<1>4. \A j \in Ids' \ raced' : CreditsOf(j)' <= 1
  <2>1. \A j \in Ids \ raced : CreditsOf(j) <= 1
    BY DEF CreditInv, OneCredit
  <2> QED
    BY <2>1
<1> QED
  BY <1>1, <1>2, <1>3, <1>4 DEF Uncredited, OneCredit

(* Every order that somebody is going to credit has a row. *)
LEMMA PendingHaveRows == Typed => Pending \subseteq Ids
  BY DEF Typed, WxTyped, CmbTyped, StaffTyped, Pending

(* What a step has to keep besides the types. *)
CreditKept == Uncredited' /\ OneCredit' /\ Apart'

(* The poller of wechat does not move, and no row goes back to init. *)
LEMMA WxApartStays ==
  ASSUME WxTyped, WxApart, UNCHANGED wx,
         \A i \in Ids : StatusOf(i)' = "init" => StatusOf(i) = "init"
  PROVE  WxApart'
<1>1. wx.at = "credit" => wx.order \in Ids
  BY DEF WxTyped
<1> QED
  BY <1>1 DEF WxApart

(* Steps that leave the tables alone and take up no order. *)
LEMMA QuietKept ==
  ASSUME Typed, CreditInv, raced \subseteq raced', UNCHANGED mysql, Pending' \subseteq Pending,
         tool' = tool \/ tool'.at = "idle"
  PROVE  Uncredited' /\ OneCredit'
<1>1. /\ Ids' = Ids
      /\ \A j \in Ids : StatusOf(j)' = StatusOf(j) /\ CreditsOf(j)' = CreditsOf(j)
  BY TablesUntouched DEF Typed
<1> QED
  BY <1>1, NoNewCredit, PendingHaveRows

(* A new row, without credits, that is not picked up by the wechat poller. *)
LEMMA RowAdded ==
  ASSUME Typed, CreditInv, raced \subseteq raced',
         NEW p \in Payment, NEW s \in Status, NEW id, id = NewId(p), Insert(p, s),
         s = "init" => p \in WxOrder,
         Pending' \subseteq Pending \cup {id}, tool' = tool, UNCHANGED wx
  PROVE  Uncredited' /\ OneCredit' /\ WxApart'
<1>1. /\ Ids' = Ids \cup {id} /\ id \notin Ids
      /\ StatusOf(id)' = s /\ CreditsOf(id)' = 0
      /\ \A i \in Ids : StatusOf(i)' = StatusOf(i) /\ CreditsOf(i)' = CreditsOf(i)
  BY Inserted DEF Typed
<1>2. id[1] = p
  BY DEF NewId
<1>3. Uncredited' /\ OneCredit'
  BY <1>1, <1>2, NoNewCredit, PendingHaveRows
<1>4. WxApart'
  BY <1>1, WxApartStays DEF Typed, CreditInv, Apart
<1> QED
  BY <1>3, <1>4

(* Races are noted and not forgotten. *)
LEMMA RacesStay == NoteRace => raced \subseteq raced' /\ Overlap' \subseteq raced'
  BY DEF NoteRace

(* Orders, payments and transfers from outside. *)
LEMMA CustomersKeep ==
  ASSUME Typed, CreditInv, NoteRace, Customers
  PROVE  CreditKept
<1>1. ASSUME NEW p \in WxOrder, CreateWechatOrder(p)
      PROVE  CreditKept
  <2>1. PICK id : id = NewId(p)
    OBVIOUS
  <2>2. Pending' = Pending /\ UNCHANGED <<wx, cmb, manual, tool>>
    BY <1>1 DEF CreateWechatOrder, Pending, workers
  <2>3. Uncredited' /\ OneCredit' /\ WxApart'
    BY <1>1, <2>1, <2>2, RowAdded, RacesStay DEF CreateWechatOrder, Payment, Status
  <2> QED
    BY <2>2, <2>3 DEF CreditKept, CreditInv, Apart
<1>2. CASE \/ \E p \in WxOrder : \E state \in {"SUCCESS", "CLOSED"} : WechatDecides(p, state)
           \/ \E p \in Transfer : TransferArrives(p)
  <2>1. UNCHANGED <<mysql, workers>>
    BY <1>2 DEF WechatDecides, TransferArrives
  <2>2. Pending' = Pending /\ UNCHANGED <<wx, cmb, manual, tool>>
    BY <2>1 DEF Pending, workers
  <2>3. Uncredited' /\ OneCredit'
    BY <2>1, <2>2, QuietKept, RacesStay
  <2>4. WxApart'
    BY <2>1, <2>2, TablesUntouched, WxApartStays DEF Typed, CreditInv, Apart
  <2> QED
    BY <2>2, <2>3, <2>4 DEF CreditKept, CreditInv, Apart
<1> QED
  BY <1>1, <1>2 DEF Customers

(* The poller of wechat. *)
LEMMA WxStepKeeps ==
  ASSUME Typed, CreditInv, NoteRace, WxStep
  PROVE  CreditKept
<1>1. UNCHANGED <<cmb, manual, tool>> /\ raced \subseteq raced'
  BY RacesStay DEF WxStep, WxBegin, WxQuery, WxUpdate, WxCredit, WxEnd
<1>2. SUFFICES Uncredited' /\ OneCredit' /\ WxApart'
  BY <1>1 DEF CreditKept, CreditInv, Apart
<1>3. CASE WxBegin
  <2>1. /\ Ids' = Ids
        /\ \A j \in Ids : StatusOf(j)' = StatusOf(j) /\ CreditsOf(j)' = CreditsOf(j)
    BY <1>3, TablesUntouched DEF Typed, WxBegin
  <2>2. \A i \in InitialOrders : i \in Ids /\ i[1] \in WxOrder /\ CreditsOf(i) = 0
    BY DEF InitialOrders, CreditInv, Uncredited
  <2>3. wx'.todo = InitialOrders /\ wx'.at = "query"
    BY <1>3 DEF WxBegin, NoWx
  <2>4. Pending' \subseteq Pending \cup InitialOrders
    BY <1>1, <2>3 DEF Pending
  <2>5. Uncredited' /\ OneCredit'
    BY <1>1, <2>1, <2>2, <2>4, NoNewCredit, PendingHaveRows
  <2>6. WxApart'
    BY <2>2, <2>3 DEF WxApart
  <2> QED
    BY <2>5, <2>6
<1>4. CASE WxQuery \/ WxEnd
  <2>1. UNCHANGED mysql
    BY <1>4 DEF WxQuery, WxEnd
  <2>2. wx'.todo \subseteq wx.todo /\ (wx'.at = "update" => wx'.status # "init")
        /\ wx'.at # "credit"
    <3>1. CASE WxQuery
      BY <3>1 DEF WxQuery, Typed, WxTyped
    <3>2. CASE WxEnd
      BY <3>2 DEF WxEnd, NoWx
    <3> QED
      BY <1>4, <3>1, <3>2
  <2>3. Pending' \subseteq Pending
    BY <1>1, <2>2 DEF Pending
  <2>4. Uncredited' /\ OneCredit'
    BY <1>1, <2>1, <2>3, QuietKept
  <2>5. WxApart'
    BY <2>2 DEF WxApart, CreditInv, Apart
  <2> QED
    BY <2>4, <2>5
<1>5. CASE WxUpdate
  <2>1. /\ wx.order \in Ids /\ wx.status \in Status /\ wx.status # "init"
        /\ wx.order \in wx.todo
    BY <1>5 DEF WxUpdate, Typed, WxTyped, CreditInv, Apart, WxApart
  <2>2. /\ Ids' = Ids
        /\ \A j \in Ids : StatusOf(j)' = IF j = wx.order THEN wx.status ELSE StatusOf(j)
        /\ \A j \in Ids : CreditsOf(j)' = CreditsOf(j)
    BY <1>5, <2>1, OnlyStatus DEF WxUpdate, Typed
  <2>3. /\ wx'.todo \subseteq wx.todo /\ wx'.at # "update"
        /\ wx'.at = "credit" => wx'.order = wx.order
    BY <1>5 DEF WxUpdate, WxNext, NoWx, Typed, WxTyped
  <2>4. Pending' \subseteq Pending
    BY <1>1, <2>3 DEF Pending
  <2>5. Uncredited' /\ OneCredit'
    BY <1>1, <2>1, <2>2, <2>4, NoNewCredit, PendingHaveRows
  <2>6. WxApart'
    BY <2>1, <2>2, <2>3 DEF WxApart, CreditInv, Apart
  <2> QED
    BY <2>5, <2>6
<1>6. CASE WxCredit
  <2> DEFINE i == wx.order
  <2>1. /\ i \in Ids /\ i \in wx.todo /\ i \in Pending /\ StatusOf(i) # "init"
        /\ i[1] \in WxOrder
    BY <1>6 DEF WxCredit, Typed, WxTyped, CreditInv, Apart, WxApart, Pending
  <2>2. /\ Ids' = Ids
        /\ \A j \in Ids : StatusOf(j)' = StatusOf(j)
        /\ \A j \in Ids : CreditsOf(j)' = IF j = i THEN CreditsOf(i) + 1 ELSE CreditsOf(j)
    BY <1>6, <2>1, OnlyCredit DEF WxCredit, Typed
  <2>3. wx'.todo = wx.todo \ {i} /\ wx'.at = "query"
    BY <1>6 DEF WxCredit, WxNext, NoWx
  <2>4. Pending' \subseteq Pending /\ i \notin Pending'
    <3>1. i[1] \notin Transfer /\ i[1] \notin Manual
      BY <2>1, DepositAssumption
    <3> QED
      BY <1>1, <2>3, <3>1 DEF Pending, CreditInv, Apart
  <2>5. CreditsOf(i) = 0 \/ i \in raced
    BY <2>1 DEF CreditInv, Uncredited
  <2>6. tool.at = "post" /\ tool.order = i => i \in raced
    BY <2>1 DEF CreditInv, Overlap
  <2>7. Uncredited' /\ OneCredit'
    BY <1>1, <2>1, <2>2, <2>4, <2>5, <2>6, NewCredit, PendingHaveRows
  <2>8. WxApart'
    BY <2>3 DEF WxApart, CreditInv, Apart
  <2> QED
    BY <2>7, <2>8
<1> QED
  BY <1>3, <1>4, <1>5, <1>6 DEF WxStep

(* Whoever a poller or a tool does not concern keeps apart from it. *)
LEMMA WxStill ==
  ASSUME Typed, CreditInv, UNCHANGED <<mysql, wx>>
  PROVE  WxApart'
  BY TablesUntouched, WxApartStays DEF Typed, CreditInv, Apart

(* The poller of the bank saves a record. *)
LEMMA CmbInsertKeeps ==
  ASSUME Typed, CreditInv, NoteRace, cmb.page # << >>, CmbInsert,
         UNCHANGED <<wx, manual, tool>>
  PROVE  CreditKept
<1> DEFINE p == Head(cmb.page)
<1>1. p \in Transfer /\ p \in Payment
  BY DEF Typed, CmbTyped, Payment
<1>2. PICK id : id = NewId(p)
  OBVIOUS
<1>3. id[1] = p
  BY <1>2 DEF NewId
<1>4. cmb'.at = "credit" /\ cmb'.order = id
  BY <1>2 DEF CmbInsert, Typed, CmbTyped
<1>5. Pending' \subseteq Pending \cup {id}
  BY <1>4 DEF Pending
<1>6. Uncredited' /\ OneCredit' /\ WxApart'
  BY <1>1, <1>2, <1>5, RowAdded, RacesStay DEF CmbInsert, Status
<1> QED
  BY <1>1, <1>3, <1>4, <1>6 DEF CreditKept, CreditInv, Apart

(* The poller of the bank. *)
LEMMA CmbStepKeeps ==
  ASSUME Typed, CreditInv, NoteRace, CmbStep
  PROVE  CreditKept
<1>1. UNCHANGED <<wx, manual, tool>> /\ raced \subseteq raced'
  BY RacesStay DEF CmbStep, CmbBegin, CmbStop, CmbSave, CmbCredit, CmbTurnPage
<1>2. CASE CmbBegin \/ CmbStop \/ CmbTurnPage
  <2>1. UNCHANGED mysql
    BY <1>2 DEF CmbBegin, CmbStop, CmbTurnPage
  <2>2. cmb'.at # "credit"
    <3>1. CASE CmbBegin
      BY <3>1 DEF CmbBegin, NoCmb
    <3>2. CASE CmbStop
      BY <3>2 DEF CmbStop, NoCmb
    <3>3. CASE CmbTurnPage
      BY <3>3 DEF CmbTurnPage, NoCmb
    <3> QED
      BY <1>2, <3>1, <3>2, <3>3
  <2>3. Pending' \subseteq Pending
    BY <1>1, <2>2 DEF Pending
  <2>4. Uncredited' /\ OneCredit'
    BY <1>1, <2>1, <2>3, QuietKept
  <2>5. WxApart'
    BY <1>1, <2>1, WxStill
  <2> QED
    BY <1>1, <2>2, <2>4, <2>5 DEF CreditKept, CreditInv, Apart
<1>3. CASE CmbSave
  BY <1>1, <1>3, CmbInsertKeeps DEF CmbSave
<1>4. CASE CmbCredit
  <2> DEFINE i == cmb.order
  <2>1. i \in Ids /\ i \in Pending /\ i[1] \in Transfer
    BY <1>4 DEF CmbCredit, Typed, CmbTyped, CreditInv, Apart, Pending
  <2>2. /\ Ids' = Ids
        /\ \A j \in Ids : StatusOf(j)' = StatusOf(j)
        /\ \A j \in Ids : CreditsOf(j)' = IF j = i THEN CreditsOf(i) + 1 ELSE CreditsOf(j)
    BY <1>4, <2>1, OnlyCredit DEF CmbCredit, Typed
  <2>3. cmb'.at = "save"
    BY <1>4 DEF CmbCredit, CmbNext, Typed, CmbTyped
  <2>4. i[1] \notin WxOrder /\ i[1] \notin Manual
    BY <2>1, DepositAssumption
  <2>5. Pending' \subseteq Pending /\ i \notin Pending'
    BY <1>1, <2>3, <2>4 DEF Pending, CreditInv, Apart, WxApart
  <2>6. CreditsOf(i) = 0 \/ i \in raced
    BY <2>1 DEF CreditInv, Uncredited
  <2>7. tool.at = "post" /\ tool.order = i => i \in raced
    BY <2>1 DEF CreditInv, Overlap
  <2>8. StatusOf(i) # "init"
    BY <2>1, <2>4 DEF CreditInv, Uncredited
  <2>9. Uncredited' /\ OneCredit'
    BY <1>1, <2>1, <2>2, <2>5, <2>6, <2>7, <2>8, NewCredit, PendingHaveRows
  <2>10. WxApart'
    BY <1>1, <2>2, WxApartStays DEF Typed, CreditInv, Apart
  <2> QED
    BY <1>1, <2>3, <2>9, <2>10 DEF CreditKept, CreditInv, Apart
<1> QED
  BY <1>2, <1>3, <1>4 DEF CmbStep

(* The tools of the staff. *)
LEMMA StaffKeeps ==
  ASSUME Typed, CreditInv, NoteRace, Staff
  PROVE  CreditKept
<1>1. UNCHANGED <<wx, cmb>> /\ raced \subseteq raced'
  BY RacesStay DEF Staff, ManualDeposit, ManualCredit, ToolCheck, ToolPost
<1>2. ASSUME NEW p \in Manual, ManualDeposit(p)
      PROVE  CreditKept
  <2>1. PICK id : id = NewId(p)
    OBVIOUS
  <2>2. manual'.at = "credit" /\ manual'.order = id /\ id[1] = p /\ tool' = tool
    BY <1>2, <2>1 DEF ManualDeposit, NewId
  <2>3. Pending' \subseteq Pending \cup {id}
    BY <1>1, <2>2 DEF Pending
  <2>4. Uncredited' /\ OneCredit' /\ WxApart'
    BY <1>1, <1>2, <2>1, <2>2, <2>3, RowAdded DEF ManualDeposit, Status, Payment
  <2> QED
    BY <1>1, <2>2, <2>4 DEF CreditKept, CreditInv, Apart
<1>3. CASE ManualCredit
  <2> DEFINE i == manual.order
  <2>1. i \in Ids /\ i \in Pending /\ i[1] \in Manual /\ tool' = tool
    BY <1>3 DEF ManualCredit, Typed, StaffTyped, CreditInv, Apart, Pending
  <2>2. /\ Ids' = Ids
        /\ \A j \in Ids : StatusOf(j)' = StatusOf(j)
        /\ \A j \in Ids : CreditsOf(j)' = IF j = i THEN CreditsOf(i) + 1 ELSE CreditsOf(j)
    BY <1>3, <2>1, OnlyCredit DEF ManualCredit, Typed
  <2>3. manual'.at = "idle"
    BY <1>3 DEF ManualCredit, Nobody
  <2>4. i[1] \notin WxOrder /\ i[1] \notin Transfer
    BY <2>1, DepositAssumption
  <2>5. Pending' \subseteq Pending /\ i \notin Pending'
    BY <1>1, <2>3, <2>4 DEF Pending, CreditInv, Apart, WxApart
  <2>6. CreditsOf(i) = 0 \/ i \in raced
    BY <2>1 DEF CreditInv, Uncredited
  <2>7. tool.at = "post" /\ tool.order = i => i \in raced
    BY <2>1 DEF CreditInv, Overlap
  <2>8. StatusOf(i) # "init"
    BY <2>1, <2>4 DEF CreditInv, Uncredited
  <2>9. Uncredited' /\ OneCredit'
    BY <1>1, <2>1, <2>2, <2>5, <2>6, <2>7, <2>8, NewCredit, PendingHaveRows
  <2>10. WxApart'
    BY <1>1, <2>2, WxApartStays DEF Typed, CreditInv, Apart
  <2> QED
    BY <1>1, <2>3, <2>9, <2>10 DEF CreditKept, CreditInv, Apart
<1>4. ASSUME NEW i \in Ids, ToolCheck(i)
      PROVE  CreditKept
  <2>1. /\ Ids' = Ids
        /\ \A j \in Ids : StatusOf(j)' = StatusOf(j) /\ CreditsOf(j)' = CreditsOf(j)
    BY <1>4, TablesUntouched DEF Typed, ToolCheck
  <2>2. manual' = manual /\ tool'.order = i /\ CreditsOf(i) = 0 /\ UNCHANGED mysql
    BY <1>4 DEF ToolCheck
  <2>3. Pending' = Pending
    BY <1>1, <2>2 DEF Pending
  <2>4. Uncredited' /\ OneCredit'
    BY <1>1, <2>1, <2>2, <2>3, NoNewCredit, PendingHaveRows
  <2>5. WxApart'
    BY <1>1, <2>2, WxStill
  <2> QED
    BY <1>1, <2>2, <2>4, <2>5 DEF CreditKept, CreditInv, Apart
<1>5. CASE ToolPost
  <2> DEFINE i == tool.order
  <2>1. i \in Ids /\ manual' = manual /\ tool'.at = "idle"
    BY <1>5 DEF ToolPost, Typed, StaffTyped, Nobody
  <2>2. Pending' = Pending
    BY <1>1, <2>1 DEF Pending
  <2>3. CASE SetStatus(i, "success") /\ Credit(i)
    <3>1. /\ Ids' = Ids
          /\ \A j \in Ids : StatusOf(j)' = IF j = i THEN "success" ELSE StatusOf(j)
          /\ \A j \in Ids : CreditsOf(j)' = IF j = i THEN CreditsOf(i) + 1 ELSE CreditsOf(j)
      BY <2>1, <2>3, StatusAndCredit DEF Typed, Status
    <3>2. CreditsOf(i) = 0 \/ i \in raced
      BY <1>5, <2>1 DEF ToolPost, CreditInv, Uncredited
    <3>3. i \in Pending => i \in raced
      BY <1>5 DEF ToolPost, CreditInv, Overlap
    <3>4. Uncredited' /\ OneCredit'
      BY <1>1, <2>1, <2>2, <3>1, <3>2, <3>3, NewCredit, PendingHaveRows
    <3>5. WxApart'
      BY <1>1, <3>1, WxApartStays DEF Typed, CreditInv, Apart
    <3> QED
      BY <1>1, <2>1, <3>4, <3>5 DEF CreditKept, CreditInv, Apart
  <2>4. CASE SetStatus(i, "failed") /\ UNCHANGED credits
    <3>1. /\ Ids' = Ids
          /\ \A j \in Ids : StatusOf(j)' = IF j = i THEN "failed" ELSE StatusOf(j)
          /\ \A j \in Ids : CreditsOf(j)' = CreditsOf(j)
      BY <2>1, <2>4, OnlyStatus DEF Typed, Status
    <3>2. Uncredited' /\ OneCredit'
      BY <1>1, <2>1, <2>2, <3>1, NoNewCredit, PendingHaveRows
    <3>3. WxApart'
      BY <1>1, <3>1, WxApartStays DEF Typed, CreditInv, Apart
    <3> QED
      BY <1>1, <2>1, <3>2, <3>3 DEF CreditKept, CreditInv, Apart
  <2> QED
    BY <1>5, <2>3, <2>4 DEF ToolPost
<1> QED
  BY <1>2, <1>3, <1>4, <1>5 DEF Staff

(* Such faults make workers put orders down and never take any up. *)
LEMMA QuietMoves ==
  ASSUME WxTyped, CmbTyped, QuietFault
  PROVE  /\ wx' = wx \/ (wx'.at \in {"idle", "query"} /\ wx'.todo \subseteq wx.todo)
         /\ cmb' = cmb \/ cmb'.at # "credit"
         /\ manual' = manual \/ manual'.at = "idle"
         /\ tool' = tool \/ tool'.at = "idle"
<1>1. CASE \E p \in WxOrder : CreateFails(p)
  BY <1>1 DEF CreateFails, workers
<1>2. CASE WxQueryFails
  BY <1>2 DEF WxQueryFails, WxTyped
<1>3. CASE WxCreditFails
  BY <1>3 DEF WxCreditFails, WxNext, NoWx
<1>4. CASE CmbRecordFails
  BY <1>4 DEF CmbRecordFails, CmbNext, CmbTyped
<1>5. CASE CmbPageFails
  BY <1>5 DEF CmbPageFails, NoCmb
<1>6. CASE ManualFails \/ ToolFails
  BY <1>6 DEF ManualFails, ToolFails, Nobody
<1>7. CASE Crash
  BY <1>7 DEF Crash, NoWx, NoCmb
<1> QED
  BY <1>1, <1>2, <1>3, <1>4, <1>5, <1>6, <1>7 DEF QuietFault

(* Errors and crashes. *)
LEMMA FaultsKeep ==
  ASSUME Typed, CreditInv, NoteRace, Faults
  PROVE  CreditKept
<1>1. raced \subseteq raced'
  BY RacesStay
<1>2. CASE QuietFault
  <2>1. UNCHANGED mysql
    BY <1>2 DEF QuietFault, CreateFails, WxQueryFails, WxCreditFails, CmbRecordFails,
                CmbPageFails, ManualFails, ToolFails, Crash
  <2>2. wx' = wx \/ (wx'.at \in {"idle", "query"} /\ wx'.todo \subseteq wx.todo)
    BY <1>2, QuietMoves DEF Typed
  <2>3. cmb' = cmb \/ cmb'.at # "credit"
    BY <1>2, QuietMoves DEF Typed
  <2>4. (manual' = manual \/ manual'.at = "idle") /\ (tool' = tool \/ tool'.at = "idle")
    BY <1>2, QuietMoves DEF Typed
  <2>5. Pending' \subseteq Pending
    BY <2>2, <2>3, <2>4 DEF Pending
  <2>6. Uncredited' /\ OneCredit'
    BY <1>1, <2>1, <2>4, <2>5, QuietKept
  <2>7. WxApart'
    <3>1. CASE wx' = wx
      BY <2>1, <3>1, WxStill
    <3>2. CASE wx'.at \in {"idle", "query"} /\ wx'.todo \subseteq wx.todo
      BY <3>2 DEF WxApart, CreditInv, Apart
    <3> QED
      BY <2>2, <3>1, <3>2
  <2> QED
    BY <2>3, <2>4, <2>6, <2>7 DEF CreditKept, CreditInv, Apart
<1>3. CASE WxUpdateFails
  <2>1. UNCHANGED <<cmb, manual, tool>>
    BY <1>3 DEF WxUpdateFails
  <2>2. /\ wx.order \in Ids /\ wx.status \in Status /\ wx.status # "init"
    BY <1>3 DEF WxUpdateFails, Typed, WxTyped, CreditInv, Apart, WxApart
  <2>3. wx'.todo \subseteq wx.todo /\ wx'.at = "query"
    BY <1>3 DEF WxUpdateFails, WxNext, NoWx
  <2>4. Pending' \subseteq Pending
    BY <2>1, <2>3 DEF Pending
  <2>5. Uncredited' /\ OneCredit'
    <3>1. CASE UNCHANGED mysql
      BY <1>1, <2>1, <2>4, <3>1, QuietKept
    <3>2. CASE SetStatus(wx.order, wx.status) /\ UNCHANGED credits
      <4>1. /\ Ids' = Ids
            /\ \A j \in Ids : StatusOf(j)' = IF j = wx.order THEN wx.status ELSE StatusOf(j)
            /\ \A j \in Ids : CreditsOf(j)' = CreditsOf(j)
        BY <2>2, <3>2, OnlyStatus DEF Typed
      <4> QED
        BY <1>1, <2>1, <2>2, <2>4, <4>1, NoNewCredit, PendingHaveRows
    <3> QED
      BY <1>3, <3>1, <3>2 DEF WxUpdateFails
  <2>6. WxApart'
    BY <2>3 DEF WxApart, CreditInv, Apart
  <2> QED
    BY <2>1, <2>5, <2>6 DEF CreditKept, CreditInv, Apart
<1>4. CASE CmbLookupFails
  BY <1>4, CmbInsertKeeps DEF CmbLookupFails
<1> QED
  BY <1>2, <1>3, <1>4 DEF Faults, QuietFault

(* Nobody has anything in hand at the start. *)
LEMMA InitCredit == Init => CreditInv
<1> SUFFICES ASSUME Init PROVE CreditInv
  OBVIOUS
<1>1. Ids = {}
  BY DEF Init, Ids
<1>2. Pending = {} /\ Overlap = {}
  BY DEF Init, Pending, Overlap, NoWx, NoCmb, Nobody
<1>3. Apart
  BY <1>1 DEF Init, Apart, WxApart, NoWx, NoCmb, Nobody
<1> QED
  BY <1>1, <1>2, <1>3 DEF CreditInv, Uncredited, OneCredit

(* Every step keeps the invariant of credits. *)
LEMMA StepCredit == Typed /\ CreditInv /\ [Next]_vars => CreditInv'
<1> SUFFICES ASSUME Typed, CreditInv, [Next]_vars PROVE CreditInv'
  OBVIOUS
<1>1. CASE UNCHANGED vars
  BY <1>1 DEF vars, outside, mysql, workers, CreditInv, Uncredited, Apart, WxApart, OneCredit,
              Overlap, Pending, Ids, StatusOf, CreditsOf
<1>2. CASE Next
  <2>1. NoteRace
    BY <1>2 DEF Next
  <2>2. CASE Sleep
    <3>1. UNCHANGED <<mysql, wx, cmb, manual, tool>> /\ Pending' = Pending
      BY <2>2 DEF Sleep, workers, Pending
    <3>2. Uncredited' /\ OneCredit'
      BY <2>1, <3>1, QuietKept, RacesStay
    <3>3. WxApart'
      BY <3>1, WxStill
    <3> QED
      BY <2>1, <3>1, <3>2, <3>3, RacesStay DEF CreditInv, Apart
  <2>3. CASE Customers \/ WxStep \/ CmbStep \/ Staff \/ Faults
    <3>1. CreditKept
      BY <2>1, <2>3, CustomersKeep, WxStepKeeps, CmbStepKeeps, StaffKeeps, FaultsKeep
    <3> QED
      BY <2>1, <3>1, RacesStay DEF CreditKept, CreditInv
  <2> QED
    BY <1>2, <2>2, <2>3 DEF Next
<1> QED
  BY <1>1, <1>2

(* conflux_pay.go:112: an order is credited at most once, however polls repeat,
   updates fail and the server dies, unless finalize_deposit holds it while
   somebody else has it in hand. *)
THEOREM CreditedAtMostOnce == Spec => []OneCredit
<1>1. Init => Typed /\ CreditInv
  BY InitTyped, InitCredit
<1>2. Typed /\ CreditInv /\ [Next]_vars => (Typed /\ CreditInv)'
  BY StepTyped, StepCredit
<1>3. CreditInv => OneCredit
  BY DEF CreditInv
<1> QED
  BY <1>1, <1>2, <1>3, PTL DEF Spec
-----------------------------------------------------------------------------
(***************************************************************************)
(* Deposit: what is credited has been paid.  The answer of wechat is used  *)
(* late, and a row may be marked by the poller and by the tool at a time;  *)
(* so the invariant says of every worker that what it holds of a payment   *)
(* is true still, since a payment, once decided, stays so.  And a payment  *)
(* has one row.                                                            *)
(***************************************************************************)
(* Rows of transfers, and records of pages, are of transfers that have arrived. *)
Arrived ==
  /\ \A i \in Ids : i[1] \in Transfer => Paid(i[1])
  /\ \A m \in 1 .. Len(cmb.page) : Paid(cmb.page[m])

WxPaid ==
  /\ wx.at = "update" => \/ wx.status = "success" /\ Paid(wx.order[1])
                         \/ wx.status = "failed" /\ ClosedUnpaid(wx.order[1])
  /\ \A i \in Ids : wx.at = "credit" /\ wx.order = i => Paid(i[1]) /\ StatusOf(i) = "success"

CmbMarked == \A i \in Ids : cmb.at = "credit" /\ cmb.order = i => StatusOf(i) = "success"
ManualMarked ==
  \A i \in Ids : manual.at = "credit" /\ manual.order = i => StatusOf(i) = "success"

ToolPaid == tool.at = "post" => Paid(tool.order[1]) \/ ClosedUnpaid(tool.order[1])

PaidInv == CreditedIsPaid /\ Arrived /\ WxPaid /\ CmbMarked /\ ManualMarked /\ ToolPaid
-----------------------------------------------------------------------------
(* A payment is decided for good. *)
Decided ==
  \A p \in Payment : (Paid(p) => Paid(p)') /\ (ClosedUnpaid(p) => ClosedUnpaid(p)')

(* What a step may do to a row. *)
Marked(i) ==
  \/ StatusOf(i)' = StatusOf(i)
  \/ Paid(i[1]) /\ StatusOf(i)' = "success"
  \/ ClosedUnpaid(i[1])
Justified(i) == CreditsOf(i)' = CreditsOf(i) \/ (Paid(i[1]) /\ StatusOf(i)' = "success")

RowsLawful ==
  /\ Ids \subseteq Ids'
  /\ \A i \in Ids : Marked(i) /\ Justified(i)
  /\ \A i \in Ids' \ Ids : CreditsOf(i)' = 0 /\ (i[1] \in Transfer => Paid(i[1])')

(* Nothing is both paid and closed. *)
LEMMA PaidOrClosed == ASSUME NEW p, Paid(p) PROVE ~ClosedUnpaid(p)
<1>1. p \in WxOrder => p \notin Transfer /\ p \notin Manual
  BY DepositAssumption
<1> QED
  BY <1>1 DEF Paid, ClosedUnpaid

(* Steps that leave wechat and the bank alone. *)
LEMMA StillDecided == ASSUME UNCHANGED outside PROVE Decided
  BY DEF outside, Decided, Paid, ClosedUnpaid, Contains

(* Orders and transfers that come in undo nothing. *)
LEMMA CustomersDecide ==
  ASSUME OutsideTyped, Customers
  PROVE  Decided
<1>1. ASSUME NEW p \in WxOrder, CreateWechatOrder(p)
      PROVE  Decided
  <2>1. /\ trade \in [WxOrder -> TradeState] /\ transfers' = transfers
        /\ trade[p] = "none" /\ trade' = [trade EXCEPT ![p] = "NOTPAY"]
    BY <1>1 DEF CreateWechatOrder, OutsideTyped
  <2> QED
    BY <2>1 DEF Decided, Paid, ClosedUnpaid, Contains
<1>2. ASSUME NEW p \in WxOrder, NEW s \in {"SUCCESS", "CLOSED"}, WechatDecides(p, s)
      PROVE  Decided
  <2>1. /\ trade \in [WxOrder -> TradeState] /\ transfers' = transfers
        /\ trade[p] = "NOTPAY" /\ trade' = [trade EXCEPT ![p] = s]
    BY <1>2 DEF WechatDecides, OutsideTyped
  <2> QED
    BY <2>1 DEF Decided, Paid, ClosedUnpaid, Contains
<1>3. ASSUME NEW p \in Transfer, TransferArrives(p)
      PROVE  Decided
  <2>1. transfers \in Seq(Transfer) /\ trade' = trade /\ transfers' = <<p>> \o transfers
    BY <1>3 DEF TransferArrives, OutsideTyped
  <2>2. ASSUME NEW q, Contains(transfers, q)
        PROVE  Contains(transfers', q)
    <3>1. PICK n \in 1 .. Len(transfers) : transfers[n] = q
      BY <2>2 DEF Contains
    <3>2. n + 1 \in 1 .. Len(transfers') /\ transfers'[n + 1] = q
      BY <2>1, <3>1
    <3> QED
      BY <3>2 DEF Contains
  <2> QED
    BY <2>1, <2>2 DEF Decided, Paid, ClosedUnpaid
<1> QED
  BY <1>1, <1>2, <1>3 DEF Customers

(* Lawful changes of rows keep what is known of them. *)
LEMMA LawfulRows ==
  ASSUME Typed, PaidInv, Decided, RowsLawful
  PROVE  /\ CreditedIsPaid'
         /\ \A i \in Ids' : i[1] \in Transfer => Paid(i[1])'
         /\ \A i \in Ids : StatusOf(i) = "success" /\ Paid(i[1]) => StatusOf(i)' = "success"
<1>1. \A i \in Ids : i[1] \in Payment /\ CreditsOf(i) \in Nat
  BY RowTyped DEF Typed
<1>2. \A i \in Ids : StatusOf(i) = "success" /\ Paid(i[1]) => StatusOf(i)' = "success"
  BY PaidOrClosed DEF RowsLawful, Marked
<1>3. \A i \in Ids' : i[1] \in Transfer => Paid(i[1])'
  BY <1>1 DEF RowsLawful, PaidInv, Arrived, Decided
<1>4. ASSUME NEW i \in Ids', CreditsOf(i)' > 0
      PROVE  Paid(i[1])' /\ StatusOf(i)' = "success"
  <2>1. i \in Ids
    <3>1. SUFFICES ASSUME i \notin Ids PROVE FALSE
      OBVIOUS
    <3>2. CreditsOf(i)' = 0
      BY <3>1 DEF RowsLawful
    <3> QED
      BY <1>4, <3>2
  <2>2. CASE CreditsOf(i)' = CreditsOf(i)
    BY <1>1, <1>2, <1>4, <2>1, <2>2 DEF PaidInv, CreditedIsPaid, Decided
  <2>3. CASE Paid(i[1]) /\ StatusOf(i)' = "success"
    BY <1>1, <2>1, <2>3 DEF Decided
  <2> QED
    BY <2>1, <2>2, <2>3 DEF RowsLawful, Justified
<1> QED
  BY <1>2, <1>3, <1>4 DEF CreditedIsPaid

(* What becomes of rows when the tables stay, get a row, or a row is marked, credited,
   or both. *)
LEMMA RowsStay == ASSUME Typed, UNCHANGED mysql PROVE RowsLawful
  BY TablesUntouched DEF Typed, RowsLawful, Marked, Justified
LEMMA RowNew ==
  ASSUME Typed, NEW p \in Payment, NEW s \in Status, NEW id, id = NewId(p), Insert(p, s),
         p \in Transfer => Paid(p)'
  PROVE  RowsLawful /\ Ids' = Ids \cup {id} /\ StatusOf(id)' = s
<1>1. id[1] = p
  BY DEF NewId
<1>2. /\ Ids' = Ids \cup {id} /\ StatusOf(id)' = s /\ CreditsOf(id)' = 0
      /\ \A i \in Ids : StatusOf(i)' = StatusOf(i) /\ CreditsOf(i)' = CreditsOf(i)
  BY Inserted DEF Typed
<1> QED
  BY <1>1, <1>2 DEF RowsLawful, Marked, Justified
LEMMA RowMarked ==
  ASSUME Typed, NEW i \in Ids, NEW s \in Status, SetStatus(i, s), UNCHANGED credits,
         (s = "success" /\ Paid(i[1])) \/ ClosedUnpaid(i[1])
  PROVE  RowsLawful /\ Ids' = Ids /\ StatusOf(i)' = s
<1>1. /\ Ids' = Ids
      /\ \A j \in Ids : StatusOf(j)' = IF j = i THEN s ELSE StatusOf(j)
      /\ \A j \in Ids : CreditsOf(j)' = CreditsOf(j)
  BY OnlyStatus DEF Typed
<1> QED
  BY <1>1 DEF RowsLawful, Marked, Justified
LEMMA RowCredited ==
  ASSUME Typed, NEW i \in Ids, Credit(i), UNCHANGED orders, Paid(i[1]), StatusOf(i) = "success"
  PROVE  RowsLawful
<1>1. /\ Ids' = Ids
      /\ \A j \in Ids : StatusOf(j)' = StatusOf(j)
      /\ \A j \in Ids : CreditsOf(j)' = IF j = i THEN CreditsOf(i) + 1 ELSE CreditsOf(j)
  BY OnlyCredit DEF Typed
<1> QED
  BY <1>1 DEF RowsLawful, Marked, Justified
LEMMA RowPosted ==
  ASSUME Typed, NEW i \in Ids, SetStatus(i, "success"), Credit(i), Paid(i[1])
  PROVE  RowsLawful
<1>1. /\ Ids' = Ids
      /\ \A j \in Ids : StatusOf(j)' = IF j = i THEN "success" ELSE StatusOf(j)
      /\ \A j \in Ids : CreditsOf(j)' = IF j = i THEN CreditsOf(i) + 1 ELSE CreditsOf(j)
  BY StatusAndCredit DEF Typed, Status
<1> QED
  BY <1>1 DEF RowsLawful, Marked, Justified

(* What holds of a state before a step that changes rows lawfully. *)
Before == Typed /\ CreditInv /\ PaidInv /\ Decided /\ RowsLawful

(* A worker that rests, or puts down what it had, knows what it has to know. *)
LEMMA WxRests ==
  ASSUME Before, wx' = wx \/ wx'.at \in {"idle", "query"}
  PROVE  WxPaid'
<1>1. wx.at \in {"update", "credit"} => wx.order \in Ids /\ wx.order[1] \in Payment
  BY RowTyped DEF Before, Typed, WxTyped
<1>2. \A i \in Ids : StatusOf(i) = "success" /\ Paid(i[1]) => StatusOf(i)' = "success"
  BY LawfulRows DEF Before
<1> QED
  BY <1>1, <1>2 DEF Before, PaidInv, WxPaid, Decided
LEMMA CmbRests ==
  ASSUME Before, cmb' = cmb \/ cmb'.at # "credit"
  PROVE  CmbMarked'
<1>1. cmb.at = "credit" => cmb.order \in Ids /\ Paid(cmb.order[1])
  BY DEF Before, Typed, CmbTyped, CreditInv, Apart, PaidInv, Arrived
<1>2. \A i \in Ids : StatusOf(i) = "success" /\ Paid(i[1]) => StatusOf(i)' = "success"
  BY LawfulRows DEF Before
<1> QED
  BY <1>1, <1>2 DEF Before, PaidInv, CmbMarked
LEMMA ManualRests ==
  ASSUME Before, manual' = manual \/ manual'.at = "idle"
  PROVE  ManualMarked'
<1>1. manual.at = "credit" => manual.order \in Ids /\ Paid(manual.order[1])
  BY DEF Before, Typed, StaffTyped, CreditInv, Apart, Paid
<1>2. \A i \in Ids : StatusOf(i) = "success" /\ Paid(i[1]) => StatusOf(i)' = "success"
  BY LawfulRows DEF Before
<1> QED
  BY <1>1, <1>2 DEF Before, PaidInv, ManualMarked
LEMMA ToolRests ==
  ASSUME Before, tool' = tool \/ tool'.at = "idle"
  PROVE  ToolPaid'
<1>1. tool.at = "post" => tool.order[1] \in Payment
  BY RowTyped DEF Before, Typed, StaffTyped
<1> QED
  BY <1>1 DEF Before, PaidInv, ToolPaid, Decided

(* Records that have arrived stay so. *)
LEMMA PageRests ==
  ASSUME Before, NEW page \in Seq(Transfer), cmb'.page = page,
         \A m \in 1 .. Len(page) : Paid(page[m])
  PROVE  Arrived'
<1>1. \A m \in 1 .. Len(page) : page[m] \in Payment
  BY DEF Payment
<1>2. \A m \in 1 .. Len(page) : Paid(page[m])'
  BY <1>1 DEF Before, Decided
<1>3. \A i \in Ids' : i[1] \in Transfer => Paid(i[1])'
  BY LawfulRows DEF Before
<1> QED
  BY <1>2, <1>3 DEF Arrived
LEMMA SamePage == ASSUME Before, cmb'.page = cmb.page \/ cmb'.page = << >> PROVE Arrived'
<1>1. cmb.page \in Seq(Transfer) /\ \A m \in 1 .. Len(cmb.page) : Paid(cmb.page[m])
  BY DEF Before, Typed, CmbTyped, PaidInv, Arrived
<1>2. CASE cmb'.page = << >>
  <2>1. << >> \in Seq(Transfer) /\ \A m \in 1 .. Len(<< >>) : Paid(<< >>[m])
    OBVIOUS
  <2> QED
    BY <1>2, <2>1, PageRests
<1> QED
  BY <1>1, <1>2, PageRests
LEMMA NextPage == ASSUME Before, cmb.page # << >>, cmb'.page = Tail(cmb.page) PROVE Arrived'
<1>1. cmb.page \in Seq(Transfer) /\ \A m \in 1 .. Len(cmb.page) : Paid(cmb.page[m])
  BY DEF Before, Typed, CmbTyped, PaidInv, Arrived
<1>2. PICK page : page = Tail(cmb.page)
  OBVIOUS
<1>3. page \in Seq(Transfer) /\ Len(page) = Len(cmb.page) - 1
      /\ \A m \in 1 .. Len(page) : page[m] = cmb.page[m + 1]
  BY <1>1, <1>2
<1>4. \A m \in 1 .. Len(page) : m + 1 \in 1 .. Len(cmb.page)
  BY <1>1, <1>3
<1>5. \A m \in 1 .. Len(page) : Paid(page[m])
  BY <1>1, <1>3, <1>4
<1> QED
  BY <1>2, <1>3, <1>5, PageRests

(* A page that is read is of transfers that have arrived. *)
LEMMA PageArrived ==
  ASSUME OutsideTyped, NEW offset \in Nat
  PROVE  \A m \in 1 .. Len(Page(offset)) : Paid(Page(offset)[m])
<1>1. PageSize \in Nat
  BY DepositAssumption
<1>2. transfers \in Seq(Transfer) /\ Len(transfers) \in Nat
  BY DEF OutsideTyped
<1> DEFINE to == Lesser(offset + PageSize, Len(transfers))
<1>3. to \in Nat /\ to <= Len(transfers)
  BY <1>1, <1>2 DEF Lesser
<1>4. \A m \in 1 .. Len(SubSeq(transfers, offset + 1, to)) :
        /\ SubSeq(transfers, offset + 1, to)[m] = transfers[offset + m]
        /\ offset + m \in 1 .. Len(transfers)
  BY <1>2, <1>3
<1>5. \A n \in 1 .. Len(transfers) : Paid(transfers[n])
  BY <1>2 DEF Paid, Contains
<1> QED
  BY <1>4, <1>5 DEF Page

(* All the workers at once. *)
LEMMA AllRest ==
  ASSUME Before, Arrived', wx' = wx \/ wx'.at \in {"idle", "query"},
         cmb' = cmb \/ cmb'.at # "credit", manual' = manual \/ manual'.at = "idle",
         tool' = tool \/ tool'.at = "idle"
  PROVE  PaidInv'
  BY WxRests, CmbRests, ManualRests, ToolRests, LawfulRows DEF PaidInv, Before
-----------------------------------------------------------------------------
(* Orders, payments and transfers from outside. *)
LEMMA CustomersPay ==
  ASSUME Typed, CreditInv, PaidInv, Customers
  PROVE  PaidInv'
<1>1. Decided
  BY CustomersDecide DEF Typed
<1>2. UNCHANGED <<wx, cmb, manual, tool>>
  BY DEF Customers, CreateWechatOrder, WechatDecides, TransferArrives, workers
<1>3. RowsLawful
  <2>1. ASSUME NEW p \in WxOrder, CreateWechatOrder(p)
        PROVE  RowsLawful
    <3>1. p \in Payment /\ p \notin Transfer /\ "init" \in Status
      BY DepositAssumption DEF Payment, Status
    <3>2. PICK id : id = NewId(p)
      OBVIOUS
    <3> QED
      BY <2>1, <3>1, <3>2, RowNew DEF CreateWechatOrder
  <2>2. ASSUME NEW p \in WxOrder, NEW s \in {"SUCCESS", "CLOSED"}, WechatDecides(p, s)
        PROVE  RowsLawful
    BY <2>2, RowsStay DEF WechatDecides
  <2>3. ASSUME NEW p \in Transfer, TransferArrives(p)
        PROVE  RowsLawful
    BY <2>3, RowsStay DEF TransferArrives
  <2> QED
    BY <2>1, <2>2, <2>3 DEF Customers
<1>4. Before
  BY <1>1, <1>3 DEF Before
<1> QED
  BY <1>2, <1>4, SamePage, AllRest

(* The poller of wechat. *)
LEMMA WxStepPays ==
  ASSUME Typed, CreditInv, PaidInv, WxStep
  PROVE  PaidInv'
<1>1. Decided /\ UNCHANGED <<cmb, manual, tool>>
  BY StillDecided DEF WxStep, WxBegin, WxQuery, WxUpdate, WxCredit, WxEnd
<1>2. CASE WxBegin \/ WxEnd
  <2>1. Before
    BY <1>1, <1>2, RowsStay DEF Before, WxBegin, WxEnd
  <2>2. wx'.at \in {"idle", "query"}
    <3>1. CASE WxBegin
      BY <3>1 DEF WxBegin, NoWx
    <3>2. CASE WxEnd
      BY <3>2 DEF WxEnd, NoWx
    <3> QED
      BY <1>2, <3>1, <3>2
  <2> QED
    BY <1>1, <2>1, <2>2, SamePage, AllRest
<1>3. CASE WxQuery
  <2>1. Before
    BY <1>1, <1>3, RowsStay DEF Before, WxQuery
  <2>2. PICK i \in wx.todo :
          wx' = IF StatusFor(trade[i[1]]) = "init"
                THEN [wx EXCEPT !.todo = @ \ {i}]
                ELSE [wx EXCEPT !.at = "update", !.order = i, !.status = StatusFor(trade[i[1]])]
    BY <1>3 DEF WxQuery
  <2>3. WxPaid'
    <3>1. CASE StatusFor(trade[i[1]]) = "init"
      <4>1. wx'.at = "query"
        BY <1>3, <2>2, <3>1 DEF WxQuery, Typed, WxTyped
      <4> QED
        BY <2>1, <4>1, WxRests
    <3>2. CASE StatusFor(trade[i[1]]) # "init"
      <4>1. wx'.at = "update" /\ wx'.order = i /\ wx'.status = StatusFor(trade[i[1]])
        BY <2>2, <3>2 DEF Typed, WxTyped
      <4>2. i[1] \in WxOrder /\ i[1] \in Payment
        BY DEF CreditInv, Apart, WxApart, Payment
      <4>3. \/ StatusFor(trade[i[1]]) = "success" /\ Paid(i[1])
            \/ StatusFor(trade[i[1]]) = "failed" /\ ClosedUnpaid(i[1])
        BY <3>2, <4>2 DEF StatusFor, Paid, ClosedUnpaid
      <4> QED
        BY <1>1, <4>1, <4>2, <4>3 DEF WxPaid, Decided
    <3> QED
      BY <3>1, <3>2
  <2> QED
    BY <1>1, <2>1, <2>3, SamePage, CmbRests, ManualRests, ToolRests, LawfulRows
       DEF PaidInv, Before
<1>4. CASE WxUpdate
  <2>1. PICK i \in Ids, s \in Status :
          /\ wx.order = i /\ wx.status = s /\ i[1] \in Payment
          /\ SetStatus(i, s) /\ UNCHANGED credits
          /\ (s = "success" /\ Paid(i[1])) \/ (s = "failed" /\ ClosedUnpaid(i[1]))
    BY <1>4, RowTyped DEF WxUpdate, Typed, WxTyped, PaidInv, WxPaid
  <2>2. RowsLawful /\ StatusOf(i)' = s
    BY <2>1, RowMarked
  <2>3. Before
    BY <1>1, <2>2 DEF Before
  <2>4. WxPaid'
    <3>1. CASE s = "success"
      <4>1. wx'.at = "credit" /\ wx'.order = i
        BY <1>4, <2>1, <3>1 DEF WxUpdate, Typed, WxTyped
      <4>2. Paid(i[1])
        BY <2>1, <3>1
      <4>3. Paid(i[1])'
        BY <1>1, <2>1, <4>2 DEF Decided
      <4> QED
        BY <2>2, <3>1, <4>1, <4>3 DEF WxPaid
    <3>2. CASE s # "success"
      <4>1. wx'.at = "query"
        BY <1>4, <2>1, <3>2 DEF WxUpdate, WxNext, NoWx
      <4> QED
        BY <2>3, <4>1, WxRests
    <3> QED
      BY <3>1, <3>2
  <2> QED
    BY <1>1, <2>3, <2>4, SamePage, CmbRests, ManualRests, ToolRests, LawfulRows
       DEF PaidInv, Before
<1>5. CASE WxCredit
  <2>1. wx.order \in Ids /\ Paid(wx.order[1]) /\ StatusOf(wx.order) = "success"
    BY <1>5 DEF WxCredit, Typed, WxTyped, PaidInv, WxPaid
  <2>2. Before
    BY <1>1, <1>5, <2>1, RowCredited DEF Before, WxCredit
  <2>3. wx'.at = "query"
    BY <1>5 DEF WxCredit, WxNext, NoWx
  <2> QED
    BY <1>1, <2>2, <2>3, SamePage, AllRest
<1> QED
  BY <1>2, <1>3, <1>4, <1>5 DEF WxStep

(* The poller of the bank saves a record, new or taken for new: its transfer has
   arrived, and its row is marked. *)
LEMMA CmbInsertPays ==
  ASSUME Typed, CreditInv, PaidInv, Decided, cmb.page # << >>, CmbInsert,
         UNCHANGED <<wx, manual, tool>>
  PROVE  PaidInv'
<1>1. PICK p : p = Head(cmb.page)
  OBVIOUS
<1>2. PICK id : id = NewId(p)
  OBVIOUS
<1>3. cmb.page \in Seq(Transfer) /\ 1 \in 1 .. Len(cmb.page) /\ p = cmb.page[1]
  BY <1>1 DEF Typed, CmbTyped
<1>4. p \in Payment /\ Paid(p)
  BY <1>3 DEF PaidInv, Arrived, Payment
<1>5. Paid(p)'
  BY <1>4 DEF Decided
<1>6. Insert(p, "success") /\ "success" \in Status
  BY <1>1 DEF CmbInsert, Status
<1>7. RowsLawful /\ Ids' = Ids \cup {id} /\ StatusOf(id)' = "success"
  BY <1>2, <1>4, <1>5, <1>6, RowNew
<1>8. Before
  BY <1>7 DEF Before
<1>9. cmb'.page = cmb.page /\ cmb'.order = id
  BY <1>1, <1>2 DEF CmbInsert, Typed, CmbTyped
<1>10. CmbMarked'
  BY <1>7, <1>9 DEF CmbMarked
<1> QED
  BY <1>8, <1>9, <1>10, SamePage, WxRests, ManualRests, ToolRests, LawfulRows
     DEF PaidInv, Before

(* The poller of the bank. *)
LEMMA CmbStepPays ==
  ASSUME Typed, CreditInv, PaidInv, CmbStep
  PROVE  PaidInv'
<1>1. Decided /\ UNCHANGED <<wx, manual, tool>>
  BY StillDecided DEF CmbStep, CmbBegin, CmbStop, CmbSave, CmbCredit, CmbTurnPage, CmbInsert
<1>2. CASE CmbBegin \/ CmbStop \/ CmbTurnPage
  <2>1. Before
    BY <1>1, <1>2, RowsStay DEF Before, CmbBegin, CmbStop, CmbTurnPage
  <2>2. ASSUME NEW n \in Nat, cmb'.page = Page(n)
        PROVE  Arrived'
    <3>1. PICK page \in Seq(Transfer) : page = Page(n)
      BY PageTyped DEF Typed
    <3>2. \A m \in 1 .. Len(page) : Paid(page[m])
      BY <3>1, PageArrived DEF Typed
    <3> QED
      BY <2>1, <2>2, <3>1, <3>2, PageRests
  <2>3. CASE CmbBegin
    <3>1. cmb'.page = Page(0) /\ cmb'.at = "save"
      BY <2>3 DEF CmbBegin, NoCmb
    <3> QED
      BY <1>1, <2>1, <2>2, <3>1, AllRest
  <2>4. CASE cmb' = NoCmb
    <3>1. cmb'.page = << >> /\ cmb'.at = "idle"
      BY <2>4 DEF NoCmb
    <3> QED
      BY <1>1, <2>1, <3>1, SamePage, AllRest
  <2>5. CASE CmbTurnPage /\ cmb' # NoCmb
    <3>1. PICK n \in Nat : n = cmb.offset + PageSize
      BY DepositAssumption DEF Typed, CmbTyped
    <3>2. cmb' = [NoCmb EXCEPT !.at = "save", !.page = Page(n), !.offset = n]
      BY <2>5, <3>1 DEF CmbTurnPage
    <3>3. cmb'.page = Page(n) /\ cmb'.at = "save"
      BY <3>2 DEF NoCmb
    <3> QED
      BY <1>1, <2>1, <2>2, <3>3, AllRest
  <2> QED
    BY <1>2, <2>3, <2>4, <2>5 DEF CmbStop
<1>3. CASE CmbSave
  BY <1>1, <1>3, CmbInsertPays DEF CmbSave
<1>4. CASE CmbCredit
  <2>1. PICK i \in Ids : /\ cmb.order = i /\ i[1] \in Transfer /\ StatusOf(i) = "success"
                         /\ cmb.page # << >> /\ Credit(i) /\ UNCHANGED orders
    BY <1>4 DEF CmbCredit, Typed, CmbTyped, CreditInv, Apart, PaidInv, CmbMarked
  <2>2. RowsLawful
    BY <2>1, RowCredited DEF PaidInv, Arrived
  <2>3. Before
    BY <1>1, <2>2 DEF Before
  <2>4. cmb'.page = Tail(cmb.page) /\ cmb'.at = "save"
    BY <1>4 DEF CmbCredit, CmbNext, Typed, CmbTyped
  <2> QED
    BY <1>1, <2>1, <2>3, <2>4, NextPage, AllRest
<1> QED
  BY <1>2, <1>3, <1>4 DEF CmbStep

(* The tools of the staff. *)
LEMMA StaffPays ==
  ASSUME Typed, CreditInv, PaidInv, Staff
  PROVE  PaidInv'
<1>1. Decided /\ UNCHANGED <<wx, cmb>>
  BY StillDecided DEF Staff, ManualDeposit, ManualCredit, ToolCheck, ToolPost
<1>2. ASSUME NEW p \in Manual, ManualDeposit(p)
      PROVE  PaidInv'
  <2>1. PICK id : id = NewId(p)
    OBVIOUS
  <2>2. p \in Payment /\ p \notin Transfer /\ "success" \in Status
    BY DepositAssumption DEF Payment, Status
  <2>3. RowsLawful /\ Ids' = Ids \cup {id} /\ StatusOf(id)' = "success"
    BY <1>2, <2>1, <2>2, RowNew DEF ManualDeposit
  <2>4. Before
    BY <1>1, <2>3 DEF Before
  <2>5. manual'.order = id /\ tool' = tool
    BY <1>2, <2>1 DEF ManualDeposit
  <2>6. ManualMarked'
    BY <2>3, <2>5 DEF ManualMarked
  <2> QED
    BY <1>1, <2>4, <2>5, <2>6, SamePage, WxRests, CmbRests, ToolRests, LawfulRows
       DEF PaidInv, Before
<1>3. CASE ManualCredit
  <2>1. PICK i \in Ids : /\ manual.order = i /\ i[1] \in Manual /\ StatusOf(i) = "success"
                         /\ Credit(i) /\ UNCHANGED orders
    BY <1>3 DEF ManualCredit, Typed, StaffTyped, CreditInv, Apart, PaidInv, ManualMarked
  <2>2. RowsLawful
    BY <2>1, RowCredited DEF Paid
  <2>3. Before
    BY <1>1, <2>2 DEF Before
  <2>4. manual'.at = "idle" /\ tool' = tool
    BY <1>3 DEF ManualCredit, Nobody
  <2> QED
    BY <1>1, <2>3, <2>4, SamePage, AllRest
<1>4. ASSUME NEW i \in Ids, ToolCheck(i)
      PROVE  PaidInv'
  <2>1. Before
    BY <1>1, <1>4, RowsStay DEF Before, ToolCheck
  <2>2. i[1] \in Payment
    BY RowTyped DEF Typed
  <2>3. Paid(i[1]) \/ ClosedUnpaid(i[1])
    BY <1>4 DEF ToolCheck
  <2>4. Paid(i[1])' \/ ClosedUnpaid(i[1])'
    BY <1>1, <2>2, <2>3 DEF Decided
  <2>5. tool'.order = i /\ manual' = manual
    BY <1>4 DEF ToolCheck
  <2>6. ToolPaid'
    BY <2>4, <2>5 DEF ToolPaid
  <2> QED
    BY <1>1, <2>1, <2>5, <2>6, SamePage, WxRests, CmbRests, ManualRests, LawfulRows
       DEF PaidInv, Before
<1>5. CASE ToolPost
  <2>1. PICK i \in Ids : tool.order = i
    BY <1>5 DEF ToolPost, Typed, StaffTyped
  <2>2. Paid(i[1]) \/ ClosedUnpaid(i[1])
    BY <1>5, <2>1 DEF ToolPost, PaidInv, ToolPaid
  <2>3. RowsLawful
    <3>1. CASE ~Paid(i[1])
      <4>1. SetStatus(i, "failed") /\ UNCHANGED credits /\ "failed" \in Status
        BY <1>5, <2>1, <3>1 DEF ToolPost, Status
      <4> QED
        BY <2>2, <3>1, <4>1, RowMarked
    <3>2. CASE Paid(i[1])
      <4>1. SetStatus(i, "success") /\ Credit(i)
        BY <1>5, <2>1, <3>2 DEF ToolPost
      <4> QED
        BY <3>2, <4>1, RowPosted
    <3> QED
      BY <3>1, <3>2
  <2>4. Before
    BY <1>1, <2>3 DEF Before
  <2>5. tool'.at = "idle" /\ manual' = manual
    BY <1>5 DEF ToolPost, Nobody
  <2> QED
    BY <1>1, <2>4, <2>5, SamePage, AllRest
<1> QED
  BY <1>2, <1>3, <1>4, <1>5 DEF Staff

(* Errors and crashes. *)
LEMMA FaultsPay ==
  ASSUME Typed, CreditInv, PaidInv, Faults
  PROVE  PaidInv'
<1>1. Decided
  <2>1. ASSUME NEW p \in WxOrder, CreateFails(p)
        PROVE  Decided
    <3>1. /\ trade \in [WxOrder -> TradeState] /\ transfers' = transfers
          /\ trade[p] = "none" /\ trade' = [trade EXCEPT ![p] = "NOTPAY"]
      BY <2>1 DEF CreateFails, Typed, OutsideTyped
    <3> QED
      BY <3>1 DEF Decided, Paid, ClosedUnpaid, Contains
  <2>2. CASE UNCHANGED outside
    BY <2>2, StillDecided
  <2> QED
    BY <2>1, <2>2 DEF Faults, WxQueryFails, WxUpdateFails, WxCreditFails, CmbLookupFails,
                      CmbRecordFails, CmbPageFails, ManualFails, ToolFails, Crash
<1>2. CASE QuietFault
  <2>1. UNCHANGED mysql
    BY <1>2 DEF QuietFault, CreateFails, WxQueryFails, WxCreditFails, CmbRecordFails,
                CmbPageFails, ManualFails, ToolFails, Crash
  <2>2. Before
    BY <1>1, <2>1, RowsStay DEF Before
  <2>3. CASE \E p \in WxOrder : CreateFails(p)
    BY <2>2, <2>3, SamePage, AllRest DEF CreateFails, workers
  <2>4. CASE WxQueryFails \/ WxCreditFails
    <3>1. wx'.at = "query" /\ UNCHANGED <<cmb, manual, tool>>
      BY <2>4 DEF WxQueryFails, WxCreditFails, WxNext, NoWx, Typed, WxTyped
    <3> QED
      BY <2>2, <3>1, SamePage, AllRest
  <2>5. CASE CmbRecordFails
    <3>1. cmb.page # << >> /\ cmb'.page = Tail(cmb.page) /\ cmb'.at = "save"
      BY <2>5 DEF CmbRecordFails, CmbNext, Typed, CmbTyped
    <3>2. UNCHANGED <<wx, manual, tool>>
      BY <2>5 DEF CmbRecordFails
    <3> QED
      BY <2>2, <3>1, <3>2, NextPage, AllRest
  <2>6. CASE CmbPageFails \/ Crash
    <3>1. cmb'.page = << >> /\ cmb'.at = "idle" /\ UNCHANGED <<manual, tool>>
      BY <2>6 DEF CmbPageFails, Crash, NoCmb
    <3>2. wx' = wx \/ wx'.at = "idle"
      BY <2>6 DEF CmbPageFails, Crash, NoWx
    <3> QED
      BY <2>2, <3>1, <3>2, SamePage, AllRest
  <2>7. CASE ManualFails \/ ToolFails
    <3>1. /\ UNCHANGED <<wx, cmb>>
          /\ manual' = manual \/ manual'.at = "idle"
          /\ tool' = tool \/ tool'.at = "idle"
      BY <2>7 DEF ManualFails, ToolFails, Nobody
    <3> QED
      BY <2>2, <3>1, SamePage, AllRest
  <2> QED
    BY <1>2, <2>3, <2>4, <2>5, <2>6, <2>7 DEF QuietFault
<1>3. CASE WxUpdateFails
  <2>1. PICK i \in Ids, s \in Status :
          /\ UNCHANGED mysql \/ (SetStatus(i, s) /\ UNCHANGED credits)
          /\ (s = "success" /\ Paid(i[1])) \/ ClosedUnpaid(i[1])
    BY <1>3 DEF WxUpdateFails, Typed, WxTyped, PaidInv, WxPaid
  <2>2. Before
    BY <1>1, <2>1, RowMarked, RowsStay DEF Before
  <2>3. wx'.at = "query" /\ UNCHANGED <<cmb, manual, tool>>
    BY <1>3 DEF WxUpdateFails, WxNext, NoWx
  <2> QED
    BY <2>2, <2>3, SamePage, AllRest
<1>4. CASE CmbLookupFails
  BY <1>1, <1>4, CmbInsertPays DEF CmbLookupFails
<1> QED
  BY <1>2, <1>3, <1>4 DEF Faults, QuietFault

(* Nothing is credited to begin with. *)
LEMMA InitPaid == Init => PaidInv
<1> SUFFICES ASSUME Init PROVE PaidInv
  OBVIOUS
<1>1. Ids = {}
  BY DEF Init, Ids
<1> QED
  BY <1>1 DEF Init, PaidInv, CreditedIsPaid, Arrived, WxPaid, CmbMarked, ManualMarked, ToolPaid,
              NoWx, NoCmb, Nobody

(* Every step keeps it. *)
LEMMA StepPaid == Typed /\ CreditInv /\ PaidInv /\ [Next]_vars => PaidInv'
<1> SUFFICES ASSUME Typed, CreditInv, PaidInv, [Next]_vars PROVE PaidInv'
  OBVIOUS
<1>1. CASE Sleep \/ UNCHANGED vars
  <2>1. UNCHANGED <<outside, mysql, wx, cmb, manual, tool>>
    BY <1>1 DEF Sleep, vars, workers
  <2>2. Before
    BY <2>1, StillDecided, RowsStay DEF Before
  <2> QED
    BY <2>1, <2>2, SamePage, AllRest
<1> QED
  BY <1>1, CustomersPay, WxStepPays, CmbStepPays, StaffPays, FaultsPay DEF Next

(* No credit without a payment (conflux_pay.go): the answer of wechat is used after
   it was given, a record is taken for new that is not, and rows are marked by four
   programs between errors and crashes; what is credited has been paid all the same,
   and its row says so. *)
THEOREM CreditsArePaid == Spec => []CreditedIsPaid
<1> DEFINE IInv == Typed /\ CreditInv /\ PaidInv
<1>1. Init => IInv
  BY InitTyped, InitCredit, InitPaid
<1>2. IInv /\ [Next]_vars => IInv'
  BY StepTyped, StepCredit, StepPaid
<1>3. IInv => CreditedIsPaid
  BY DEF PaidInv
<1> QED
  BY <1>1, <1>2, <1>3, PTL DEF Spec
-----------------------------------------------------------------------------
(* What has not been ordered at wechat has no row. *)
Unordered == \A p \in WxOrder : trade[p] = "none" => Len(orders[p]) = 0
RowsInv == OneOrder /\ Unordered

(* Steps without a new row, that take back no order. *)
NoNewRow ==
  /\ \A p \in Payment : Len(orders[p])' = Len(orders[p])
  /\ \A p \in WxOrder : trade'[p] = "none" => trade[p] = "none"
  /\ unseen \subseteq unseen'
LEMMA NoRowKeeps == ASSUME RowsInv, NoNewRow PROVE RowsInv'
<1>1. \A p \in WxOrder : p \in Payment
  BY DEF Payment
<1> QED
  BY <1>1 DEF RowsInv, NoNewRow, OneOrder, Unordered

(* A row of a payment without one, or of a record whose look-up failed. *)
LEMMA NewRowKeeps ==
  ASSUME Typed, RowsInv, NEW p \in Payment, NEW s \in Status, Insert(p, s),
         Len(orders[p]) = 0 \/ p \in unseen', unseen \subseteq unseen',
         \A q \in WxOrder : trade'[q] = "none" => q # p /\ trade[q] = "none"
  PROVE  RowsInv'
<1>1. /\ orders' = [orders EXCEPT ![p] = Append(orders[p], s)]
      /\ orders \in [Payment -> Seq(Status)]
  BY DEF Insert, Typed, Tables
<1>2. orders'[p] = Append(orders[p], s) /\ \A q \in Payment \ {p} : orders'[q] = orders[q]
  BY <1>1
<1>3. Len(orders'[p]) = Len(orders[p]) + 1 /\ Len(orders[p]) \in Nat
  BY <1>1, <1>2
<1>4. \A q \in WxOrder : q \in Payment
  BY DEF Payment
<1> QED
  BY <1>2, <1>3, <1>4 DEF RowsInv, OneOrder, Unordered

(* The poller of the bank saves a record, new or taken for new. *)
LEMMA CmbInsertOneRow ==
  ASSUME Typed, RowsInv, cmb.page # << >>, NEW p, p = Head(cmb.page), CmbInsert,
         UNCHANGED trade, unseen \subseteq unseen', ~DepositOrderExists(p) \/ p \in unseen'
  PROVE  RowsInv'
<1>1. p \in Transfer
  BY DEF Typed, CmbTyped
<1>2. p \in Payment /\ p \notin WxOrder /\ Insert(p, "success") /\ "success" \in Status
  BY <1>1, DepositAssumption DEF CmbInsert, Payment, Status
<1>3. Len(orders[p]) = 0 \/ p \in unseen'
  BY <1>1, <1>2 DEF DepositOrderExists, Typed, Tables
<1> QED
  BY <1>2, <1>3, NewRowKeeps

(* Marks and credits add no row. *)
LEMMA SameLengths ==
  ASSUME Typed, UNCHANGED orders \/ (\E i \in Ids, s \in Status : SetStatus(i, s))
  PROVE  \A p \in Payment : Len(orders[p])' = Len(orders[p])
  BY StatusSet DEF Typed

(* Every step keeps it. *)
LEMMA StepRows == Typed /\ RowsInv /\ [Next]_vars => RowsInv'
<1> SUFFICES ASSUME Typed, RowsInv, [Next]_vars PROVE RowsInv'
  OBVIOUS
<1>1. ASSUME NEW p \in WxOrder, CreateWechatOrder(p)
      PROVE  RowsInv'
  <2>1. p \in Payment /\ "init" \in Status /\ Len(orders[p]) = 0
    BY <1>1 DEF CreateWechatOrder, RowsInv, Unordered, Payment, Status
  <2>2. \A q \in WxOrder : trade'[q] = "none" => q # p /\ trade[q] = "none"
    BY <1>1 DEF CreateWechatOrder, Typed, OutsideTyped
  <2> QED
    BY <1>1, <2>1, <2>2, NewRowKeeps DEF CreateWechatOrder
<1>2. ASSUME NEW p \in WxOrder,
             (\E state \in {"SUCCESS", "CLOSED"} : WechatDecides(p, state)) \/ CreateFails(p)
      PROVE  RowsInv'
  <2>1. UNCHANGED <<orders, unseen>>
    BY <1>2 DEF WechatDecides, CreateFails, mysql
  <2>2. \A q \in WxOrder : trade'[q] = "none" => trade[q] = "none"
    BY <1>2 DEF WechatDecides, CreateFails, Typed, OutsideTyped
  <2> QED
    BY <2>1, <2>2, NoRowKeeps DEF NoNewRow
<1>3. ASSUME NEW p \in Transfer, TransferArrives(p)
      PROVE  RowsInv'
  BY <1>3, NoRowKeeps DEF TransferArrives, NoNewRow, mysql
<1>4. ASSUME NEW p \in Manual, ManualDeposit(p)
      PROVE  RowsInv'
  <2>1. p \in Payment /\ p \notin WxOrder /\ "success" \in Status /\ Len(orders[p]) = 0
    BY <1>4, DepositAssumption DEF ManualDeposit, Payment, Status
  <2> QED
    BY <1>4, <2>1, NewRowKeeps DEF ManualDeposit, outside
<1>5. CASE CmbSave
  <2>1. PICK p : p = Head(cmb.page)
    OBVIOUS
  <2>2. /\ cmb.page # << >> /\ CmbInsert /\ trade' = trade /\ unseen \subseteq unseen'
        /\ ~DepositOrderExists(p) \/ p \in unseen'
    BY <1>5, <2>1 DEF CmbSave, outside
  <2> QED
    BY <2>1, <2>2, CmbInsertOneRow
<1>6. CASE CmbLookupFails
  <2>1. PICK p : p = Head(cmb.page)
    OBVIOUS
  <2>2. /\ cmb.page # << >> /\ CmbInsert /\ trade' = trade /\ unseen \subseteq unseen'
        /\ ~DepositOrderExists(p) \/ p \in unseen'
    BY <1>6, <2>1 DEF CmbLookupFails, outside
  <2> QED
    BY <2>1, <2>2, CmbInsertOneRow
<1>7. ASSUME UNCHANGED <<trade, unseen>>,
             UNCHANGED orders \/ (\E i \in Ids, s \in Status : SetStatus(i, s))
      PROVE  RowsInv'
  BY <1>7, SameLengths, NoRowKeeps DEF NoNewRow
<1>8. CASE WxStep
  <2>1. CASE WxUpdate
    <3>1. wx.order \in Ids /\ wx.status \in Status
      BY <2>1 DEF WxUpdate, Typed, WxTyped
    <3> QED
      BY <1>7, <2>1, <3>1 DEF WxUpdate, outside
  <2>2. CASE ~WxUpdate
    BY <1>7, <1>8, <2>2 DEF WxStep, WxBegin, WxQuery, WxCredit, WxEnd, outside, mysql
  <2> QED
    BY <2>1, <2>2
<1>9. CASE CmbBegin \/ CmbStop \/ CmbCredit \/ CmbTurnPage
  BY <1>7, <1>9 DEF CmbBegin, CmbStop, CmbCredit, CmbTurnPage, outside, mysql
<1>10. CASE ManualCredit \/ (\E i \in Ids : ToolCheck(i))
  BY <1>7, <1>10 DEF ManualCredit, ToolCheck, outside, mysql
<1>11. CASE ToolPost
  <2>1. PICK i \in Ids, s \in Status : SetStatus(i, s)
    <3>1. tool.order \in Ids /\ {"success", "failed"} \subseteq Status
      BY <1>11 DEF ToolPost, Typed, StaffTyped, Status
    <3> QED
      BY <1>11, <3>1 DEF ToolPost
  <2> QED
    BY <1>7, <1>11, <2>1 DEF ToolPost, outside
<1>12. CASE WxUpdateFails
  <2>1. wx.order \in Ids /\ wx.status \in Status
    BY <1>12 DEF WxUpdateFails, Typed, WxTyped
  <2> QED
    BY <1>7, <1>12, <2>1 DEF WxUpdateFails, outside, mysql
<1>13. CASE WxQueryFails \/ WxCreditFails \/ CmbRecordFails \/ CmbPageFails
            \/ ManualFails \/ ToolFails \/ Crash
  BY <1>7, <1>13 DEF WxQueryFails, WxCreditFails, CmbRecordFails, CmbPageFails,
                     ManualFails, ToolFails, Crash, outside, mysql
<1>14. CASE Sleep \/ UNCHANGED vars
  BY <1>7, <1>14 DEF Sleep, vars, outside, mysql
<1>15. Customers => RowsInv'
  BY <1>1, <1>2, <1>3 DEF Customers
<1>16. CmbStep \/ Staff => RowsInv'
  BY <1>4, <1>5, <1>9, <1>10, <1>11 DEF CmbStep, Staff
<1>17. Faults => RowsInv'
  BY <1>2, <1>6, <1>12, <1>13 DEF Faults
<1> QED
  BY <1>8, <1>14, <1>15, <1>16, <1>17 DEF Next

(* A record of the bank that is seen again and again, in pages that shift under the
   poller, gets one row, and so does an order and a deposit by hand, unless the
   look-up of the record fails (conflux_pay.go:253). *)
THEOREM RecordsHaveOneRow == Spec => []OneOrder
<1> DEFINE IInv == Typed /\ RowsInv
<1>1. Init => IInv
  <2>1. Init => RowsInv
    BY DEF Init, RowsInv, OneOrder, Unordered, Payment
  <2> QED
    BY <2>1, InitTyped
<1>2. IInv /\ [Next]_vars => IInv'
  BY StepTyped, StepRows
<1>3. IInv => OneOrder
  BY DEF RowsInv
<1> QED
  BY <1>1, <1>2, <1>3, PTL DEF Spec
-----------------------------------------------------------------------------
(***************************************************************************)
(* Deposit implements Cashier: a step pays, or posts, or does neither; and *)
(* the invariants above, together, let it post a payment only once.        *)
(***************************************************************************)
(* What a payment's postings are. *)
LEMMA PostingsOf ==
  ASSUME Tables, NEW p \in Payment, NEW x
  PROVE  x \in Postings(p) <=>
           \E i \in Ids : \E k \in 1 .. CreditsOf(i) : i[1] = p /\ x = <<i, k>>
  BY DEF Postings

(* Rows that join without a credit bring no posting. *)
LEMMA NothingPosted ==
  ASSUME Tables, Tables', Ids \subseteq Ids',
         \A i \in Ids : CreditsOf(i)' = CreditsOf(i),
         \A i \in Ids' \ Ids : CreditsOf(i)' = 0
  PROVE  \A p \in Payment : Postings(p)' = Postings(p)
<1> TAKE p \in Payment
<1>1. \A x : x \in Postings(p) => x \in Postings(p)'
  BY PostingsOf DEF Postings
<1>2. ASSUME NEW x \in Postings(p)'
      PROVE  x \in Postings(p)
  <2>0. PICK i \in Ids' : \E k \in 1 .. CreditsOf(i)' : i[1] = p /\ x = <<i, k>>
    BY <1>2 DEF Postings
  <2>1. PICK k \in 1 .. CreditsOf(i)' : i[1] = p /\ x = <<i, k>>
    BY <2>0
  <2>2. i \in Ids
    BY <2>1
  <2>3. CreditsOf(i)' = CreditsOf(i)
    BY <2>2
  <2>4. k \in 1 .. CreditsOf(i)
    BY <2>1, <2>3
  <2> QED
    BY <2>1, <2>2, <2>4, PostingsOf
<1> QED
  BY <1>1, <1>2

(* A credit is one more posting of its payment. *)
CreditedOnce(i) ==
  /\ Ids' = Ids
  /\ \A j \in Ids : CreditsOf(j)' = IF j = i THEN CreditsOf(i) + 1 ELSE CreditsOf(j)

LEMMA OnePosted ==
  ASSUME Tables, Tables', NEW i \in Ids, CreditedOnce(i)
  PROVE  LET x == <<i, CreditsOf(i) + 1>> IN
         /\ x \notin Postings(i[1])
         /\ Postings(i[1])' = Postings(i[1]) \cup {x}
         /\ \A p \in Payment : p # i[1] => Postings(p)' = Postings(p)
<1> DEFINE x == <<i, CreditsOf(i) + 1>>
<1>1. CreditsOf(i) \in Nat /\ i[1] \in Payment
  BY RowTyped
<1>2. x \notin Postings(i[1])
  <2> SUFFICES ASSUME x \in Postings(i[1]) PROVE FALSE
    OBVIOUS
  <2>0. PICK j \in Ids : \E k \in 1 .. CreditsOf(j) : x = <<j, k>>
    BY <1>1, PostingsOf
  <2>1. PICK k \in 1 .. CreditsOf(j) : x = <<j, k>>
    BY <2>0
  <2>2. j = i /\ k = CreditsOf(i) + 1
    BY <2>1
  <2> QED
    BY <1>1, <2>1, <2>2
<1>3. ASSUME NEW p \in Payment, NEW y, y \in Postings(p)'
      PROVE  y \in Postings(p) \/ (p = i[1] /\ y = x)
  <2>0. PICK j \in Ids : \E k \in 1 .. CreditsOf(j)' : j[1] = p /\ y = <<j, k>>
    BY <1>3 DEF Postings, CreditedOnce
  <2>1. PICK k \in 1 .. CreditsOf(j)' : j[1] = p /\ y = <<j, k>>
    BY <2>0
  <2>2. CASE j # i
    <3>1. k \in 1 .. CreditsOf(j)
      BY <2>1, <2>2 DEF CreditedOnce
    <3> QED
      BY <2>1, <3>1, PostingsOf
  <2>3. CASE j = i
    <3>1. k \in 1 .. CreditsOf(i) + 1
      BY <2>1, <2>3 DEF CreditedOnce
    <3>2. k = CreditsOf(i) + 1 \/ k \in 1 .. CreditsOf(i)
      BY <1>1, <3>1
    <3>3. k \in 1 .. CreditsOf(i) => y \in Postings(p)
      BY <2>1, <2>3, PostingsOf
    <3> QED
      BY <2>1, <2>3, <3>2, <3>3
  <2> QED
    BY <2>2, <2>3
<1>4. ASSUME NEW p \in Payment, NEW y, y \in Postings(p)
      PROVE  y \in Postings(p)'
  <2>0. PICK j \in Ids : \E k \in 1 .. CreditsOf(j) : j[1] = p /\ y = <<j, k>>
    BY <1>4, PostingsOf
  <2>1. PICK k \in 1 .. CreditsOf(j) : j[1] = p /\ y = <<j, k>>
    BY <2>0
  <2>2. k \in 1 .. CreditsOf(j)'
    BY <1>1, <2>1 DEF CreditedOnce
  <2> QED
    BY <2>1, <2>2 DEF Postings, CreditedOnce
<1>5. x \in Postings(i[1])'
  <2>1. CreditsOf(i) + 1 \in 1 .. CreditsOf(i)'
    BY <1>1 DEF CreditedOnce
  <2> QED
    BY <2>1 DEF Postings, CreditedOnce
<1> QED
  BY <1>1, <1>2, <1>3, <1>4, <1>5
-----------------------------------------------------------------------------
(* The two things that a step may do, seen from the cashier. *)
NobodyPosts ==
  /\ Ids \subseteq Ids'
  /\ \A i \in Ids : CreditsOf(i)' = CreditsOf(i)
  /\ \A i \in Ids' \ Ids : CreditsOf(i)' = 0

LEMMA InsertPostsNothing ==
  ASSUME Tables, NEW p \in Payment, NEW s \in Status, Insert(p, s)
  PROVE  NobodyPosts
<1>1. PICK id : id = NewId(p)
  OBVIOUS
<1> QED
  BY <1>1, Inserted DEF NobodyPosts

LEMMA StatusPostsNothing ==
  ASSUME Tables, NEW i \in Ids, NEW s \in Status, SetStatus(i, s), UNCHANGED credits
  PROVE  NobodyPosts
  BY OnlyStatus DEF NobodyPosts

LEMMA IdlePostsNothing == ASSUME Tables, UNCHANGED mysql PROVE NobodyPosts
  BY TablesUntouched DEF NobodyPosts

(* Who posts changes nothing outside. *)
Posts == UNCHANGED outside /\ \E i \in Ids : CreditedOnce(i)

LEMMA CreditPosts ==
  ASSUME Tables, UNCHANGED outside, NEW i \in Ids, Credit(i),
         UNCHANGED orders \/ \E s \in Status : SetStatus(i, s)
  PROVE  Posts
  BY OnlyCredit, StatusAndCredit DEF Posts, CreditedOnce

LEMMA WxPosts == ASSUME Typed, WxStep PROVE UNCHANGED outside /\ (NobodyPosts \/ Posts)
<1>1. CASE WxUpdate
  <2>1. wx.order \in Ids /\ wx.status \in Status /\ SetStatus(wx.order, wx.status)
        /\ UNCHANGED <<outside, credits>>
    BY <1>1 DEF WxUpdate, Typed, WxTyped
  <2> QED
    BY <2>1, StatusPostsNothing DEF Typed
<1>2. CASE WxCredit
  <2>1. wx.order \in Ids /\ Credit(wx.order) /\ UNCHANGED <<outside, orders>>
    BY <1>2 DEF WxCredit, Typed, WxTyped
  <2> QED
    BY <2>1, CreditPosts DEF Typed
<1>3. CASE WxBegin \/ WxQuery \/ WxEnd
  BY <1>3, IdlePostsNothing DEF WxBegin, WxQuery, WxEnd, Typed
<1> QED
  BY <1>1, <1>2, <1>3 DEF WxStep

LEMMA CmbInsertPostsNothing ==
  ASSUME Typed, cmb.page # << >>, CmbInsert
  PROVE  NobodyPosts
<1>1. Head(cmb.page) \in Payment /\ "success" \in Status
  BY DEF Typed, CmbTyped, Payment, Status
<1> QED
  BY <1>1, InsertPostsNothing DEF CmbInsert, Typed

LEMMA CmbPosts == ASSUME Typed, CmbStep PROVE UNCHANGED outside /\ (NobodyPosts \/ Posts)
<1>1. CASE CmbSave
  BY <1>1, CmbInsertPostsNothing DEF CmbSave
<1>2. CASE CmbCredit
  <2>1. cmb.order \in Ids /\ Credit(cmb.order) /\ UNCHANGED <<outside, orders>>
    BY <1>2 DEF CmbCredit, Typed, CmbTyped
  <2> QED
    BY <2>1, CreditPosts DEF Typed
<1>3. CASE CmbBegin \/ CmbStop \/ CmbTurnPage
  BY <1>3, IdlePostsNothing DEF CmbBegin, CmbStop, CmbTurnPage, Typed
<1> QED
  BY <1>1, <1>2, <1>3 DEF CmbStep

LEMMA StaffPosts == ASSUME Typed, Staff PROVE UNCHANGED outside /\ (NobodyPosts \/ Posts)
<1>1. ASSUME NEW p \in Manual, ManualDeposit(p)
      PROVE  UNCHANGED outside /\ NobodyPosts
  BY <1>1, InsertPostsNothing DEF ManualDeposit, Typed, Payment, Status
<1>2. CASE ManualCredit
  <2>1. manual.order \in Ids /\ Credit(manual.order) /\ UNCHANGED <<outside, orders>>
    BY <1>2 DEF ManualCredit, Typed, StaffTyped
  <2> QED
    BY <2>1, CreditPosts DEF Typed
<1>3. ASSUME NEW i \in Ids, ToolCheck(i)
      PROVE  UNCHANGED outside /\ NobodyPosts
  BY <1>3, IdlePostsNothing DEF ToolCheck, Typed
<1>4. CASE ToolPost
  <2>1. tool.order \in Ids /\ {"success", "failed"} \subseteq Status /\ UNCHANGED outside
    BY <1>4 DEF ToolPost, Typed, StaffTyped, Status
  <2>2. CASE Paid(tool.order[1])
    BY <1>4, <2>1, <2>2, CreditPosts DEF ToolPost, Typed
  <2>3. CASE ~Paid(tool.order[1])
    BY <1>4, <2>1, <2>3, StatusPostsNothing DEF ToolPost, Typed
  <2> QED
    BY <2>1, <2>2, <2>3
<1> QED
  BY <1>1, <1>2, <1>3, <1>4 DEF Staff

(* Errors and crashes post nothing, and pay nothing. *)
SamePaid == \A p \in Payment : Paid(p)' = Paid(p)

LEMMA SamePaidOutside == ASSUME UNCHANGED outside PROVE SamePaid
  BY DEF SamePaid, outside, Paid, Contains

LEMMA FaultsPost == ASSUME Typed, Faults PROVE SamePaid /\ NobodyPosts
<1>1. ASSUME NEW p \in WxOrder, CreateFails(p)
      PROVE  SamePaid /\ NobodyPosts
  <2>1. /\ trade \in [WxOrder -> TradeState] /\ transfers' = transfers /\ UNCHANGED mysql
        /\ trade[p] = "none" /\ trade' = [trade EXCEPT ![p] = "NOTPAY"]
    BY <1>1 DEF CreateFails, Typed, OutsideTyped
  <2>2. SamePaid
    BY <2>1 DEF SamePaid, Paid, Contains
  <2> QED
    BY <2>1, <2>2, IdlePostsNothing DEF Typed
<1>2. CASE WxUpdateFails
  <2>1. wx.order \in Ids /\ wx.status \in Status /\ UNCHANGED outside
    BY <1>2 DEF WxUpdateFails, Typed, WxTyped
  <2>2. UNCHANGED mysql \/ (SetStatus(wx.order, wx.status) /\ UNCHANGED credits)
    BY <1>2 DEF WxUpdateFails
  <2> QED
    BY <2>1, <2>2, SamePaidOutside, StatusPostsNothing, IdlePostsNothing DEF Typed
<1>3. CASE CmbLookupFails
  BY <1>3, CmbInsertPostsNothing, SamePaidOutside DEF CmbLookupFails
<1>4. CASE WxQueryFails \/ WxCreditFails \/ CmbRecordFails \/ CmbPageFails
           \/ ManualFails \/ ToolFails \/ Crash
  <2>1. UNCHANGED <<outside, mysql>>
    BY <1>4 DEF WxQueryFails, WxCreditFails, CmbRecordFails, CmbPageFails, ManualFails,
                ToolFails, Crash
  <2> QED
    BY <2>1, SamePaidOutside, IdlePostsNothing DEF Typed
<1> QED
  BY <1>1, <1>2, <1>3, <1>4 DEF Faults

(* Customers make one payment at a time, and post nothing. *)
OnePays == \E p \in Payment : ~Paid(p) /\ \A q \in Payment : Paid(q)' <=> (Paid(q) \/ q = p)

LEMMA CustomersPost == ASSUME Typed, Customers PROVE (SamePaid \/ OnePays) /\ NobodyPosts
<1>1. ASSUME NEW p \in WxOrder, CreateWechatOrder(p)
      PROVE  SamePaid /\ NobodyPosts
  <2>1. /\ trade \in [WxOrder -> TradeState] /\ transfers' = transfers /\ Insert(p, "init")
        /\ trade[p] = "none" /\ trade' = [trade EXCEPT ![p] = "NOTPAY"]
    BY <1>1 DEF CreateWechatOrder, Typed, OutsideTyped
  <2>2. SamePaid
    BY <2>1 DEF SamePaid, Paid, Contains
  <2> QED
    BY <2>1, <2>2, InsertPostsNothing DEF Typed, Payment, Status
<1>2. ASSUME NEW p \in WxOrder, NEW s \in {"SUCCESS", "CLOSED"}, WechatDecides(p, s)
      PROVE  (SamePaid \/ OnePays) /\ NobodyPosts
  <2>1. /\ trade \in [WxOrder -> TradeState] /\ transfers' = transfers /\ UNCHANGED mysql
        /\ trade[p] = "NOTPAY" /\ trade' = [trade EXCEPT ![p] = s]
        /\ transfers \in Seq(Transfer)
    BY <1>2 DEF WechatDecides, Typed, OutsideTyped
  <2>2. \A q : Contains(transfers', q) <=> Contains(transfers, q)
    BY <2>1 DEF Contains
  <2>3. ASSUME s = "CLOSED" PROVE SamePaid
    <3>1. \A q \in WxOrder : trade'[q] = "SUCCESS" <=> trade[q] = "SUCCESS"
      BY <2>1, <2>3
    <3> QED
      BY <2>2, <3>1 DEF SamePaid, Paid
  <2>4. ASSUME s = "SUCCESS" PROVE OnePays
    <3>1. p \notin Transfer /\ p \notin Manual /\ p \in Payment
      BY DepositAssumption DEF Payment
    <3>2. ~Paid(p)
      BY <2>1, <3>1 DEF Paid
    <3>3. \A q \in Payment : Paid(q)' <=> (Paid(q) \/ q = p)
      BY <2>1, <2>2, <2>4 DEF Paid
    <3> QED
      BY <3>1, <3>2, <3>3 DEF OnePays
  <2> QED
    BY <2>1, <2>3, <2>4, IdlePostsNothing DEF Typed
<1>3. ASSUME NEW p \in Transfer, TransferArrives(p)
      PROVE  OnePays /\ NobodyPosts
  <2>1. /\ transfers \in Seq(Transfer) /\ trade' = trade /\ transfers' = <<p>> \o transfers
        /\ ~Contains(transfers, p) /\ UNCHANGED mysql
    BY <1>3 DEF TransferArrives, Typed, OutsideTyped
  <2>2. ASSUME NEW q
        PROVE  Contains(transfers', q) <=> Contains(transfers, q) \/ q = p
    <3>1. Len(transfers') = Len(transfers) + 1 /\ transfers'[1] = p
      BY <2>1
    <3>2. \A n \in 1 .. Len(transfers) : transfers'[n + 1] = transfers[n]
      BY <2>1
    <3>3. \A n \in 2 .. Len(transfers') : transfers'[n] = transfers[n - 1]
                                          /\ n - 1 \in 1 .. Len(transfers)
      BY <2>1
    <3>4. ASSUME Contains(transfers, q) PROVE Contains(transfers', q)
      <4>1. PICK n \in 1 .. Len(transfers) : transfers[n] = q
        BY <3>4 DEF Contains
      <4>2. n + 1 \in 1 .. Len(transfers')
        BY <2>1, <3>1
      <4> QED
        BY <3>2, <4>1, <4>2 DEF Contains
    <3>5. ASSUME Contains(transfers', q) PROVE Contains(transfers, q) \/ q = p
      <4>1. PICK n \in 1 .. Len(transfers') : transfers'[n] = q
        BY <3>5 DEF Contains
      <4> QED
        BY <2>1, <3>1, <3>3, <4>1 DEF Contains
    <3>6. q = p => Contains(transfers', q)
      BY <2>1, <3>1 DEF Contains
    <3> QED
      BY <3>4, <3>5, <3>6
  <2>3. p \notin WxOrder /\ p \notin Manual /\ p \in Payment
    BY DepositAssumption DEF Payment
  <2>4. ~Paid(p)
    BY <2>1, <2>3 DEF Paid
  <2>5. \A q \in Payment : Paid(q)' <=> (Paid(q) \/ q = p)
    BY <2>1, <2>2 DEF Paid
  <2> QED
    BY <2>1, <2>3, <2>4, <2>5, IdlePostsNothing DEF Typed, OnePays
<1> QED
  BY <1>1, <1>2, <1>3 DEF Customers

-----------------------------------------------------------------------------
PaidSet == {p \in Payment : Paid(p)}
PostedOf == [p \in Payment |-> Postings(p)]
Excused == {i[1] : i \in raced} \cup unseen

(* What the cashier needs of the state that a posting leads to: a payment that is not
   excused has one posting at most, and postings are of payments that were made. *)
PostedOnce == \A p \in Payment \ Excused : \A x, y \in Postings(p) : x = y
Orderly == PostedOnce /\ CreditedIsPaid

LEMMA OnePosting == Tables /\ OneCredit /\ OneOrder => PostedOnce
<1> SUFFICES ASSUME Tables, OneCredit, OneOrder, NEW p \in Payment, p \notin Excused,
                    NEW x \in Postings(p), NEW y \in Postings(p)
             PROVE  x = y
  BY DEF PostedOnce
<1>1. ASSUME NEW z \in Postings(p)
      PROVE  z = <<<<p, 1>>, 1>>
  <2>1. PICK i \in Ids : \E k \in 1 .. CreditsOf(i) : i[1] = p /\ z = <<i, k>>
    BY PostingsOf
  <2>2. PICK k \in 1 .. CreditsOf(i) : i[1] = p /\ z = <<i, k>>
    BY <2>1
  <2>3. i \notin raced /\ p \notin unseen
    BY <2>2 DEF Excused
  <2>4. CreditsOf(i) \in Nat /\ CreditsOf(i) <= 1
    BY <2>3, RowTyped DEF OneCredit
  <2>5. k = 1
    BY <2>2, <2>4
  <2>6. Len(orders[p]) <= 1 /\ orders[p] \in Seq(Status)
    BY <2>3 DEF OneOrder, Tables
  <2>7. i = <<p, i[2]>> /\ i[2] \in DOMAIN orders[p]
    BY <2>2, RowTyped
  <2>8. i[2] = 1
    BY <2>6, <2>7
  <2> QED
    BY <2>2, <2>5, <2>7, <2>8
<1>2. x = <<<<p, 1>>, 1>> /\ y = <<<<p, 1>>, 1>>
  BY <1>1
<1> QED
  BY <1>2, Zenon

(* A credit is a posting of the cashier. *)
LEMMA CreditIsPost ==
  ASSUME Typed, Typed', Orderly', Excused \subseteq Excused', Posts
  PROVE  \E p \in Payment : Desk!Post(p)
<1>1. PICK i \in Ids : CreditedOnce(i)
  BY DEF Posts
<1> DEFINE p == i[1]
           x == <<i, CreditsOf(i) + 1>>
<1>2. p \in Payment /\ CreditsOf(i) \in Nat
  BY RowTyped DEF Typed
<1>3. /\ x \notin Postings(p)
      /\ Postings(p)' = Postings(p) \cup {x}
      /\ \A q \in Payment : q # p => Postings(q)' = Postings(q)
  BY <1>1, OnePosted DEF Typed
<1>4. Paid(p) /\ PaidSet' = PaidSet
  <2>1. \A q : Paid(q)' <=> Paid(q)
    BY DEF Posts, outside, Paid, Contains
  <2>2. i \in Ids' /\ CreditsOf(i)' > 0
    BY <1>1, <1>2 DEF CreditedOnce
  <2>3. Paid(p)'
    BY <2>2 DEF Orderly, CreditedIsPaid
  <2> QED
    BY <2>1, <2>3 DEF PaidSet
<1>5. Postings(p) = {} \/ p \in Excused'
  <2> SUFFICES ASSUME NEW y \in Postings(p), p \notin Excused' PROVE FALSE
    OBVIOUS
  <2>1. x \in Postings(p)' /\ y \in Postings(p)'
    BY <1>3
  <2>2. x = y
    BY <1>2, <2>1 DEF Orderly, PostedOnce
  <2> QED
    BY <1>3, <2>2
<1> HIDE DEF p, x
<1>6. PostedOf' = [PostedOf EXCEPT ![p] = PostedOf[p] \cup {x}]
  BY <1>2, <1>3 DEF PostedOf
<1>7. x \in PostedOf'[p] \ PostedOf[p] /\ PostedOf[p] = Postings(p)
  BY <1>2, <1>3 DEF PostedOf
<1>8. p \in PaidSet
  BY <1>2, <1>4 DEF PaidSet
<1> QED
  BY <1>2, <1>4, <1>5, <1>6, <1>7, <1>8 DEF Desk!Post, PaidSet, PostedOf, Excused

(* Each step of the deposits is one of the cashier. *)
LEMMA StepIsCashiers ==
  ASSUME Typed, Typed', Orderly', [Next]_vars
  PROVE  [Desk!CashierNext]_<<PaidSet, PostedOf, Excused>>
<1>1. CASE UNCHANGED vars
  <2>1. UNCHANGED <<outside, mysql, raced, unseen>>
    BY <1>1 DEF vars
  <2>2. UNCHANGED <<PaidSet, PostedOf, Excused>>
    BY <2>1 DEF outside, mysql, PaidSet, Paid, Contains, PostedOf, Postings, Ids, CreditsOf, Excused
  <2> QED
    BY <2>2
<1>2. CASE Next
  <2>1. Excused \subseteq Excused'
    <3>1. raced \subseteq raced'
      BY <1>2, RacesStay DEF Next
    <3>2. unseen \subseteq unseen'
      BY <1>2 DEF Next, Customers, CreateWechatOrder, WechatDecides, TransferArrives,
                  WxStep, WxBegin, WxQuery, WxUpdate, WxCredit, WxEnd,
                  CmbStep, CmbBegin, CmbStop, CmbSave, CmbCredit, CmbTurnPage,
                  Staff, ManualDeposit, ManualCredit, ToolCheck, ToolPost,
                  Faults, CreateFails, WxQueryFails, WxUpdateFails, WxCreditFails,
                  CmbLookupFails, CmbRecordFails, CmbPageFails, ManualFails, ToolFails,
                  Crash, Sleep
    <3> QED
      BY <3>1, <3>2 DEF Excused
  <2>2. (SamePaid /\ NobodyPosts) \/ (OnePays /\ NobodyPosts) \/ Posts
    <3>1. CASE Sleep
      BY <3>1, SamePaidOutside, IdlePostsNothing DEF Sleep, Typed
    <3> QED
      BY <1>2, <3>1, CustomersPost, WxPosts, CmbPosts, StaffPosts, FaultsPost, SamePaidOutside
         DEF Next
  <2>3. NobodyPosts => UNCHANGED PostedOf
    <3>1. NobodyPosts => \A p \in Payment : Postings(p)' = Postings(p)
      BY NothingPosted DEF NobodyPosts, Typed
    <3> QED
      BY <3>1 DEF PostedOf
  <2>4. SamePaid => UNCHANGED PaidSet
    BY DEF SamePaid, PaidSet
  <2>5. ASSUME OnePays, NobodyPosts PROVE \E p \in Payment : Desk!Pay(p)
    <3>1. PICK p \in Payment : ~Paid(p) /\ \A q \in Payment : Paid(q)' <=> (Paid(q) \/ q = p)
      BY <2>5 DEF OnePays
    <3>2. p \notin PaidSet /\ PaidSet' = PaidSet \cup {p}
      BY <3>1 DEF PaidSet
    <3> QED
      BY <2>3, <2>5, <3>2 DEF Desk!Pay, PaidSet, PostedOf
  <2>6. Posts => \E p \in Payment : Desk!Post(p)
    BY <2>1, CreditIsPost
  <2>7. CASE SamePaid /\ NobodyPosts
    BY <2>1, <2>3, <2>4, <2>7 DEF Desk!CashierNext, PaidSet, PostedOf, Excused
  <2>8. CASE (OnePays /\ NobodyPosts) \/ Posts
    BY <2>1, <2>5, <2>6, <2>8 DEF Desk!CashierNext, Excused
  <2> QED
    BY <2>2, <2>7, <2>8
<1> QED
  BY <1>1, <1>2

LEMMA InitIsCashiers == Init => Desk!CashierInit
<1> SUFFICES ASSUME Init PROVE Desk!CashierInit
  OBVIOUS
<1>1. Ids = {}
  BY DEF Init, Ids
<1>2. PostedOf = [p \in Payment |-> {}]
  BY <1>1 DEF PostedOf, Postings
<1> QED
  BY <1>2 DEF Init, Desk!CashierInit, PostedOf

(* Pollers, tools, errors and crashes together are one cashier (conflux_pay.go:112,
   :252, finalize_deposit): whatever row it goes through, a payment is posted after it
   was made, once, and for good; only a payment whose row was raced over, or whose
   look-up failed, may be posted again. *)
THEOREM DepositImplementsCashier == Spec => ImplementsCashier
<1> DEFINE IInv == Typed /\ CreditInv /\ PaidInv /\ RowsInv
<1>1. Init => IInv
  <2>1. Init => RowsInv
    BY DEF Init, RowsInv, OneOrder, Unordered, Payment
  <2> QED
    BY <2>1, InitTyped, InitCredit, InitPaid
<1>2. IInv /\ [Next]_vars => IInv'
  BY StepTyped, StepCredit, StepPaid, StepRows
<1>3. IInv => Typed /\ Orderly
  BY OnePosting DEF Typed, CreditInv, PaidInv, RowsInv, Orderly
<1>4. Typed /\ Typed' /\ Orderly' /\ [Next]_vars
        => [Desk!CashierNext]_<<PaidSet, PostedOf, Excused>>
  BY StepIsCashiers
<1> QED
  BY <1>1, <1>2, <1>3, <1>4, InitIsCashiers, PTL
     DEF Spec, ImplementsCashier, Desk!CashierSpec, PaidSet, PostedOf, Excused

(* What the cashier promises, said of a state. *)
Promised == \A p \in Payment : Postings(p) # {} => Paid(p)

LEMMA CashierKeepsPaid ==
  ASSUME PostedOnce, Promised, Desk!CashierNext
  PROVE  PostedOnce' /\ Promised'
<1>1. \A p \in Payment : /\ p \in PaidSet <=> Paid(p)
                         /\ PostedOf[p] = Postings(p)
                         /\ p \in PaidSet' <=> Paid(p)'
                         /\ PostedOf'[p] = Postings(p)'
  BY DEF PaidSet, PostedOf
<1>2. Excused \subseteq Excused'
  BY DEF Desk!CashierNext, Excused
<1>3. CASE PaidSet \subseteq PaidSet' /\ UNCHANGED PostedOf
  BY <1>1, <1>2, <1>3 DEF PostedOnce, Promised
<1>4. ASSUME NEW p \in Payment, Desk!Post(p)
      PROVE  PostedOnce' /\ Promised'
  <2>1. p \in PaidSet /\ UNCHANGED PaidSet
    BY <1>4 DEF Desk!Post, PaidSet
  <2>2. PostedOf[p] = {} \/ p \in Excused'
    BY <1>4 DEF Desk!Post, PostedOf, Excused
  <2>3. PICK x : PostedOf' = [PostedOf EXCEPT ![p] = PostedOf[p] \cup {x}]
    BY <1>4 DEF Desk!Post, PostedOf
  <2>4. /\ PostedOf'[p] = PostedOf[p] \cup {x}
        /\ \A q \in Payment : q # p => PostedOf'[q] = PostedOf[q]
    BY <2>3 DEF PostedOf
  <2>5. Promised'
    BY <1>1, <2>1, <2>4 DEF Promised
  <2>6. PostedOnce'
    BY <1>1, <1>2, <2>2, <2>4 DEF PostedOnce
  <2> QED
    BY <2>5, <2>6
<1>5. \/ PaidSet \subseteq PaidSet' /\ UNCHANGED PostedOf
      \/ \E p \in Payment : Desk!Post(p)
  BY DEF Desk!CashierNext, Desk!Pay, PaidSet, PostedOf
<1> QED
  BY <1>3, <1>4, <1>5

(* That Cashier says what it should, whoever implements it: what has postings was paid,
   and what is not excused has one at most. *)
THEOREM CashierPostsOnce == ImplementsCashier => [](PostedOnce /\ Promised)
<1>1. Desk!CashierInit => PostedOnce /\ Promised
  <2> SUFFICES ASSUME Desk!CashierInit PROVE \A p \in Payment : Postings(p) = {}
    BY DEF PostedOnce, Promised
  <2>1. PostedOf = [p \in Payment |-> {}]
    BY DEF Desk!CashierInit, PostedOf
  <2> QED
    BY <2>1 DEF PostedOf
<1>2. ASSUME PostedOnce, Promised, UNCHANGED <<PaidSet, PostedOf, Excused>>
      PROVE  PostedOnce' /\ Promised'
  <2>1. \A p \in Payment : /\ Paid(p)' <=> Paid(p)
                           /\ Postings(p)' = Postings(p)
    <3>1. \A p \in Payment : /\ p \in PaidSet <=> Paid(p)
                             /\ PostedOf[p] = Postings(p)
                             /\ p \in PaidSet' <=> Paid(p)'
                             /\ PostedOf'[p] = Postings(p)'
      BY DEF PaidSet, PostedOf
    <3> QED
      BY <1>2, <3>1
  <2> QED
    BY <1>2, <2>1 DEF PostedOnce, Promised
<1>3. PostedOnce /\ Promised /\ [Desk!CashierNext]_<<PaidSet, PostedOf, Excused>>
        => PostedOnce' /\ Promised'
  BY <1>2, CashierKeepsPaid
<1> QED
  BY <1>1, <1>3, PTL DEF ImplementsCashier, Desk!CashierSpec, PaidSet, PostedOf, Excused
-----------------------------------------------------------------------------
Pays(card, u) ==
  <<card, u>> \notin taken => card \in DOMAIN relation /\ relation[card].user = u

RowsPay == \A r \in depositNos : r.no.user = r.user /\ Pays(r.card, r.user)

CallOk(c) ==
  /\ c.no.user = c.user
  /\ c.pc # "open" => c.no \in opened
  /\ c.id > 0 =>
       c.pc # "open" /\ \E r \in depositNos : r.id = c.id /\ r.user = c.user /\ r.no = c.no
  /\ c.pc = "save" => Pays(c.card, c.user)
CallsOk == \A c \in calls : CallOk(c)

(* An account has its row, or has lost it, or waits for it. *)
Found(no) ==
  \/ \E r \in depositNos : r.no = no
  \/ no \in orphaned
  \/ \E c \in calls : c.no = no /\ c.id = 0 /\ c.pc # "open"
AccountsFound == \A no \in opened : Found(no)

AccountsInv == AccountsTypeOK /\ RowsPay /\ CallsOk /\ AccountsFound
-----------------------------------------------------------------------------
RowsOk(R) ==
  /\ IsFiniteSet(R)
  /\ R \subseteq [id : 1 .. Cardinality(R), user : User, card : Card, no : opened]
  /\ \A r, s \in R : r.id = s.id => r = s
With(u, card, no) == depositNos \cup {NewRow(u, card, no)}
Replaced(old, u, card, no) ==
  {r \in depositNos : r.id # old.id} \cup {[id |-> old.id, user |-> u, card |-> card, no |-> no]}

(* A new row takes the next id. *)
LEMMA DepositNoAdded ==
  ASSUME AccountsTypeOK, NEW u \in User, NEW card \in Card, NEW no \in opened
  PROVE  /\ RowsOk(With(u, card, no))
         /\ Cardinality(With(u, card, no)) = Cardinality(depositNos) + 1
<1> DEFINE new == NewRow(u, card, no)
           R == depositNos \cup {new}
<1>1. Cardinality(depositNos) \in Nat
  BY FS_CardinalityType DEF AccountsTypeOK
<1>2. new = [id |-> Cardinality(depositNos) + 1, user |-> u, card |-> card, no |-> no]
  BY DEF NewRow
<1>3. \A r \in depositNos : r.id \in 1 .. Cardinality(depositNos)
  BY DEF AccountsTypeOK
<1>4. new \notin depositNos /\ \A r \in depositNos : r.id # new.id
  BY <1>1, <1>2, <1>3
<1>5. IsFiniteSet(R) /\ Cardinality(R) = Cardinality(depositNos) + 1
  BY <1>4, FS_AddElement DEF AccountsTypeOK
<1>6. R \subseteq [id : 1 .. Cardinality(R), user : User, card : Card, no : opened]
  <2>1. ASSUME NEW r \in depositNos
        PROVE  r \in [id : 1 .. Cardinality(R), user : User, card : Card, no : opened]
    <3>1. r \in [id : 1 .. Cardinality(depositNos), user : User, card : Card, no : opened]
      BY DEF AccountsTypeOK
    <3>2. 1 .. Cardinality(depositNos) \subseteq 1 .. Cardinality(R)
      BY <1>1, <1>5
    <3> QED  BY <3>1, <3>2
  <2>2. new \in [id : 1 .. Cardinality(R), user : User, card : Card, no : opened]
    BY <1>1, <1>2, <1>5
  <2> QED  BY <2>1, <2>2
<1>7. \A r, s \in R : r.id = s.id => r = s
  BY <1>4 DEF AccountsTypeOK
<1> QED  BY <1>5, <1>6, <1>7 DEF RowsOk, With

(* An update puts a row in the place of the one that has its id. *)
LEMMA DepositNoReplaced ==
  ASSUME AccountsTypeOK, NEW old \in depositNos,
         NEW u \in User, NEW card \in Card, NEW no \in opened
  PROVE  /\ RowsOk(Replaced(old, u, card, no))
         /\ Cardinality(Replaced(old, u, card, no)) = Cardinality(depositNos)
         /\ \A r \in depositNos : r # old => r \in Replaced(old, u, card, no)
<1> DEFINE new == [id |-> old.id, user |-> u, card |-> card, no |-> no]
           rest == depositNos \ {old}
           R == {r \in depositNos : r.id # old.id} \cup {new}
<1>1. Cardinality(depositNos) \in Nat /\ IsFiniteSet(depositNos)
  BY FS_CardinalityType DEF AccountsTypeOK
<1>2. {r \in depositNos : r.id # old.id} = rest
  BY DEF AccountsTypeOK
<1>3. IsFiniteSet(rest) /\ Cardinality(rest) = Cardinality(depositNos) - 1
  BY <1>1, FS_RemoveElement
<1>4. new \notin rest
  BY <1>2
<1>5. IsFiniteSet(R) /\ Cardinality(R) = Cardinality(depositNos)
  <2>1. R = rest \cup {new}
    BY <1>2
  <2> HIDE DEF new, rest
  <2>2. IsFiniteSet(rest \cup {new}) /\ Cardinality(rest \cup {new}) = Cardinality(rest) + 1
    BY <1>3, <1>4, FS_AddElement
  <2>3. IsFiniteSet(R) /\ Cardinality(R) = Cardinality(rest) + 1
    BY <2>1, <2>2, Zenon
  <2> QED  BY <1>1, <1>3, <2>3
<1>6. R \subseteq [id : 1 .. Cardinality(R), user : User, card : Card, no : opened]
  <2>1. depositNos \subseteq [id : 1 .. Cardinality(R), user : User, card : Card, no : opened]
    BY <1>5 DEF AccountsTypeOK
  <2>2. old.id \in 1 .. Cardinality(R)
    BY <2>1
  <2>3. new \in [id : 1 .. Cardinality(R), user : User, card : Card, no : opened]
    BY <2>2
  <2> QED  BY <2>1, <2>3
<1>7. \A r, s \in R : r.id = s.id => r = s
  BY DEF AccountsTypeOK
<1>8. R = Replaced(old, u, card, no)
  BY DEF Replaced
<1>9. \A r \in depositNos : r # old => r \in R
  BY <1>2
<1> HIDE DEF R
<1> QED  BY <1>5, <1>6, <1>7, <1>8, <1>9 DEF RowsOk

LEMMA InitAccountsInv == InitAccounts => AccountsInv
<1> SUFFICES ASSUME InitAccounts PROVE AccountsInv
  OBVIOUS
<1>1. IsFiniteSet(depositNos)
  BY FS_EmptySet DEF InitAccounts
<1>2. AccountsTypeOK
  BY <1>1, AccountsAssumption DEF InitAccounts, AccountsTypeOK
<1> QED  BY <1>2 DEF InitAccounts, AccountsInv, RowsPay, CallsOk, AccountsFound

(* Calls may come and change; what they have done stays. *)
LEMMA CreateStep ==
  ASSUME AccountsInv, NEW u \in User, NEW card \in Card, NEW d \in Digits,
         CreateCmcDepositNo(u, card, d)
  PROVE  AccountsInv'
<1> DEFINE new == [id |-> 0, user |-> u, card |-> card, no |-> CmbNo(u, d), pc |-> "open"]
<1>1. /\ calls' = calls \cup {new}
      /\ UNCHANGED <<opened, relation, depositNos, bankFaults, orphaned, taken>>
  BY DEF CreateCmcDepositNo
<1>2. Cardinality(depositNos) \in Nat
  BY FS_CardinalityType DEF AccountsInv, AccountsTypeOK
<1>3. new \in [id : 0 .. Cardinality(depositNos), user : User, card : Card, no : Number,
               pc : {"open", "relate", "save"}]
  BY <1>2 DEF CmbNo, Number
<1>4. AccountsTypeOK'
  BY <1>1, <1>3 DEF AccountsInv, AccountsTypeOK
<1>5. CallsOk'
  <2>1. CallOk(new)'
    BY DEF CallOk, CmbNo
  <2>2. ASSUME NEW c \in calls PROVE CallOk(c)'
    BY <1>1 DEF AccountsInv, CallsOk, CallOk, Pays
  <2> QED  BY <1>1, <2>1, <2>2 DEF CallsOk
<1>6. RowsPay' /\ AccountsFound'
  BY <1>1 DEF AccountsInv, RowsPay, Pays, AccountsFound, Found
<1> QED  BY <1>4, <1>5, <1>6 DEF AccountsInv

LEMMA UpdateStep ==
  ASSUME AccountsInv, NEW u \in User, NEW card \in Card, UpdateCmcDepositNoRelation(u, card)
  PROVE  AccountsInv'
<1>1. PICK r \in depositNos :
        /\ r.user = u
        /\ calls' = calls \cup {[id |-> r.id, user |-> u, card |-> card, no |-> r.no,
                                 pc |-> IF Differs(r, card) THEN "relate" ELSE "save"]}
        /\ UNCHANGED <<opened, relation, depositNos, bankFaults, orphaned, taken>>
  BY DEF UpdateCmcDepositNoRelation, FindByUserId
<1> DEFINE new == [id |-> r.id, user |-> u, card |-> card, no |-> r.no,
                   pc |-> IF Differs(r, card) THEN "relate" ELSE "save"]
<1>2. r.id \in 1 .. Cardinality(depositNos) /\ r.no \in opened /\ r.no \in Number /\ r.no.user = u
  BY <1>1 DEF AccountsInv, AccountsTypeOK, RowsPay
<1>3. Cardinality(depositNos) \in Nat
  BY FS_CardinalityType DEF AccountsInv, AccountsTypeOK
<1>4. new \in [id : 0 .. Cardinality(depositNos), user : User, card : Card, no : Number,
               pc : {"open", "relate", "save"}]
  BY <1>2, <1>3
<1>5. AccountsTypeOK'
  BY <1>1, <1>4 DEF AccountsInv, AccountsTypeOK
<1>6. CallOk(new)'
  BY <1>1, <1>2 DEF AccountsInv, RowsPay, CallOk, Pays, Differs
<1>7. CallsOk'
  BY <1>1, <1>6 DEF AccountsInv, CallsOk, CallOk, Pays
<1>8. RowsPay' /\ AccountsFound'
  BY <1>1 DEF AccountsInv, RowsPay, Pays, AccountsFound, Found
<1> QED  BY <1>5, <1>7, <1>8 DEF AccountsInv

(* A call that goes on keeps all but where it is. *)
LEMMA Goes ==
  ASSUME NEW c \in calls, NEW pc, AccountsTypeOK, pc \in {"open", "relate", "save"}
  PROVE  /\ [c EXCEPT !.pc = pc] \in [id : 0 .. Cardinality(depositNos), user : User, card : Card,
                                     no : Number, pc : {"open", "relate", "save"}]
         /\ [c EXCEPT !.pc = pc].pc = pc
         /\ \A f \in {"id", "user", "card", "no"} : [c EXCEPT !.pc = pc][f] = c[f]
         /\ c.user \in User /\ c.card \in Card /\ c.no \in Number
         /\ c.id \in 0 .. Cardinality(depositNos)
<1>1. c \in [id : 0 .. Cardinality(depositNos), user : User, card : Card,
             no : Number, pc : {"open", "relate", "save"}]
  BY DEF AccountsTypeOK
<1> QED  BY <1>1

LEMMA AddStep == ASSUME AccountsInv, NEW c \in calls, Add(c) PROVE AccountsInv'
<1> DEFINE next == [c EXCEPT !.pc = "relate"]
<1>1. /\ c.pc = "open" /\ c.no \notin opened
      /\ opened' = opened \cup {c.no} /\ calls' = (calls \ {c}) \cup {next}
      /\ UNCHANGED <<relation, depositNos, bankFaults, orphaned, taken>>
  BY DEF Add, To
<1>2. /\ next \in [id : 0 .. Cardinality(depositNos), user : User, card : Card,
                   no : Number, pc : {"open", "relate", "save"}]
      /\ next.pc = "relate" /\ next.id = c.id /\ next.user = c.user
      /\ next.card = c.card /\ next.no = c.no
      /\ c.no \in Number
  BY Goes DEF AccountsInv
<1>3. CallOk(c)
  BY DEF AccountsInv, CallsOk
<1>4. AccountsTypeOK'
  <2>1. relation \in [DOMAIN relation -> opened \cup {c.no}]
    BY DEF AccountsInv, AccountsTypeOK
  <2> QED  BY <1>1, <1>2, <2>1 DEF AccountsInv, AccountsTypeOK
<1> HIDE DEF next
<1>5. c.id = 0
  <2>1. c.id \in 0 .. Cardinality(depositNos) /\ Cardinality(depositNos) \in Nat
    BY Goes, FS_CardinalityType, "open" \in {"open", "relate", "save"}
    DEF AccountsInv, AccountsTypeOK
  <2> QED  BY <1>1, <1>3, <2>1 DEF CallOk
<1>6. CallOk(next)'
  BY <1>1, <1>2, <1>3, <1>5 DEF CallOk
<1>7. CallsOk'
  BY <1>1, <1>6 DEF AccountsInv, CallsOk, CallOk, Pays
<1>8. RowsPay'
  BY <1>1 DEF AccountsInv, RowsPay, Pays
<1>9. AccountsFound'
  <2>1. ASSUME NEW no \in opened PROVE Found(no)'
    BY <1>1, <2>1 DEF AccountsInv, AccountsFound, Found
  <2>2. Found(c.no)'
    BY <1>1, <1>2, <1>5 DEF Found
  <2> QED  BY <1>1, <2>1, <2>2 DEF AccountsFound
<1> QED  BY <1>4, <1>7, <1>8, <1>9 DEF AccountsInv

(* A card is bound to the account of a call: it pays the user of the call, and who
   had it before has lost it. *)
LEMMA Bound ==
  ASSUME AccountsInv, NEW c \in calls, c.pc = "relate", Bind(c)
  PROVE  /\ DOMAIN relation' \subseteq Card /\ relation' \in [DOMAIN relation' -> opened]
         /\ taken' \subseteq Card \X User
         /\ Pays(c.card, c.user)'
         /\ \A card, u : Pays(card, u) => Pays(card, u)'
<1>1. c.card \in Card /\ c.user \in User /\ c.no.user = c.user /\ c.no \in opened
  <2>1. CallOk(c)
    BY DEF AccountsInv, CallsOk
  <2>2. c.card \in Card /\ c.user \in User
    BY DEF AccountsInv, AccountsTypeOK
  <2> QED  BY <2>1, <2>2 DEF CallOk
<1>2. /\ relation' = [k \in DOMAIN relation \cup {c.card} |->
                        IF k = c.card THEN c.no ELSE relation[k]]
      /\ taken' = (taken \cup {<<k, relation[k].user>> : k \in DOMAIN relation \cap {c.card}})
                     \ {<<c.card, c.user>>}
  BY DEF Bind
<1>3. DOMAIN relation \subseteq Card /\ \A k \in DOMAIN relation : relation[k] \in opened
  BY DEF AccountsInv, AccountsTypeOK
<1>4. \A n \in opened : n.user \in User
  BY DEF AccountsInv, AccountsTypeOK, Number
<1>5. DOMAIN relation' = DOMAIN relation \cup {c.card}
  BY <1>2
<1>6. \A k \in DOMAIN relation' : relation'[k] = IF k = c.card THEN c.no ELSE relation[k]
  BY <1>2
<1>7. DOMAIN relation' \subseteq Card /\ relation' \in [DOMAIN relation' -> opened]
  BY <1>1, <1>2, <1>3
<1>8. taken' \subseteq Card \X User
  BY <1>2, <1>3, <1>4 DEF AccountsInv, AccountsTypeOK
<1>9. Pays(c.card, c.user)'
  BY <1>1, <1>5, <1>6 DEF Pays
<1>10. ASSUME NEW card, NEW u, Pays(card, u) PROVE Pays(card, u)'
  <2>1. CASE card = c.card /\ u = c.user
    BY <1>9, <2>1
  <2>2. CASE card # c.card
    BY <1>2, <1>5, <1>6, <1>10, <2>2 DEF Pays
  <2>3. CASE card = c.card /\ u # c.user
    <3>1. SUFFICES ASSUME <<card, u>> \notin taken' PROVE FALSE
      BY DEF Pays
    <3>2. <<card, u>> \notin taken
      BY <1>2, <2>3, <3>1
    <3>3. card \in DOMAIN relation /\ relation[card].user = u
      BY <1>10, <3>2 DEF Pays
    <3> QED  BY <1>2, <2>3, <3>1, <3>3
  <2> QED  BY <2>1, <2>2, <2>3
<1> QED  BY <1>7, <1>8, <1>9, <1>10

LEMMA RelateStep == ASSUME AccountsInv, NEW c \in calls, Relate(c) PROVE AccountsInv'
<1> DEFINE next == [c EXCEPT !.pc = "save"]
<1>1. /\ c.pc = "relate" /\ Bind(c)
      /\ calls' = (calls \ {c}) \cup {next}
      /\ UNCHANGED <<opened, depositNos, bankFaults, orphaned>>
  BY DEF Relate, To
<1>2. /\ next \in [id : 0 .. Cardinality(depositNos), user : User, card : Card,
                   no : Number, pc : {"open", "relate", "save"}]
      /\ next.pc = "save" /\ next.id = c.id /\ next.user = c.user
      /\ next.card = c.card /\ next.no = c.no
  BY Goes DEF AccountsInv
<1> HIDE DEF next
<1>3. /\ DOMAIN relation' \subseteq Card /\ relation' \in [DOMAIN relation' -> opened]
      /\ taken' \subseteq Card \X User
      /\ Pays(c.card, c.user)'
      /\ \A card, u : Pays(card, u) => Pays(card, u)'
  BY <1>1, Bound
<1>4. AccountsTypeOK'
  BY <1>1, <1>2, <1>3 DEF AccountsInv, AccountsTypeOK
<1>5. CallOk(next)'
  <2>1. CallOk(c)
    BY DEF AccountsInv, CallsOk
  <2> QED  BY <1>1, <1>2, <1>3, <2>1 DEF CallOk
<1>6. CallsOk'
  <2>1. ASSUME NEW d \in calls PROVE CallOk(d)'
    BY <1>1, <1>3 DEF AccountsInv, CallsOk, CallOk
  <2> QED  BY <1>1, <1>5, <2>1 DEF CallsOk
<1>7. RowsPay'
  BY <1>1, <1>3 DEF AccountsInv, RowsPay
<1>8. AccountsFound'
  BY <1>1, <1>2 DEF AccountsInv, AccountsFound, Found
<1> QED  BY <1>4, <1>6, <1>7, <1>8 DEF AccountsInv

LEMMA SaveStep == ASSUME AccountsInv, NEW c \in calls, Save(c) PROVE AccountsInv'
<1>1. /\ c.pc = "save" /\ depositNos' = Saved(c) /\ calls' = calls \ {c}
      /\ UNCHANGED <<opened, relation, bankFaults, orphaned, taken>>
  BY DEF Save
<1>2. CallOk(c) /\ c.no \in opened
  BY <1>1 DEF AccountsInv, CallsOk, CallOk
<1>3. /\ c.user \in User /\ c.card \in Card
      /\ c.id \in 0 .. Cardinality(depositNos) /\ Cardinality(depositNos) \in Nat
  BY FS_CardinalityType DEF AccountsInv, AccountsTypeOK
<1>4. \A d \in calls : d.id \in 0 .. Cardinality(depositNos)
  BY DEF AccountsInv, AccountsTypeOK
(* What follows holds for a row that is added and for one that is replaced. *)
<1>5. /\ RowsOk(depositNos')
      /\ Cardinality(depositNos') \in Nat /\ Cardinality(depositNos) <= Cardinality(depositNos')
      /\ \E r \in depositNos' : r.no = c.no
      /\ \A r \in depositNos' :
           r \in depositNos \/ (r.user = c.user /\ r.card = c.card /\ r.no = c.no)
      /\ \A r \in depositNos : \E s \in depositNos' : s.id = r.id /\ s.user = r.user /\ s.no = r.no
  <2>1. CASE c.id = 0
    <3> DEFINE new == NewRow(c.user, c.card, c.no)
    <3>1. depositNos' = With(c.user, c.card, c.no)
      BY <1>1, <2>1 DEF Saved, With
    <3>2. new.user = c.user /\ new.card = c.card /\ new.no = c.no
      BY DEF NewRow
    <3>3. RowsOk(depositNos') /\ Cardinality(depositNos') = Cardinality(depositNos) + 1
      BY <1>2, <1>3, <3>1, DepositNoAdded DEF AccountsInv
    <3>4. depositNos' = depositNos \cup {new}
      BY <3>1 DEF With
    <3> HIDE DEF new
    <3> QED  BY <1>3, <3>2, <3>3, <3>4
  <2>2. CASE c.id # 0
    <3>1. PICK old \in depositNos : old.id = c.id /\ old.user = c.user /\ old.no = c.no
      BY <1>2, <1>3, <2>2 DEF CallOk
    <3> DEFINE new == [id |-> old.id, user |-> c.user, card |-> c.card, no |-> c.no]
    <3>2. depositNos' = Replaced(old, c.user, c.card, c.no)
      BY <1>1, <2>2, <3>1 DEF Saved, Replaced
    <3>3. /\ RowsOk(depositNos') /\ Cardinality(depositNos') = Cardinality(depositNos)
          /\ \A r \in depositNos : r # old => r \in depositNos'
      BY <1>2, <1>3, <3>2, DepositNoReplaced DEF AccountsInv
    <3>4. /\ new.id = old.id /\ new.user = c.user /\ new.card = c.card /\ new.no = c.no
          /\ depositNos' = {r \in depositNos : r.id # old.id} \cup {new}
      BY <3>2 DEF Replaced
    <3> HIDE DEF new
    <3> QED  BY <1>3, <3>1, <3>2, <3>3, <3>4
  <2> QED  BY <2>1, <2>2
<1>6. 0 .. Cardinality(depositNos) \subseteq 0 .. Cardinality(depositNos')
  BY <1>3, <1>5
<1>7. AccountsTypeOK'
  BY <1>1, <1>5, <1>6 DEF AccountsInv, AccountsTypeOK, RowsOk
<1>8. \A card, u : Pays(card, u) => Pays(card, u)'
  BY <1>1 DEF Pays
<1>9. RowsPay'
  BY <1>1, <1>2, <1>5, <1>8 DEF AccountsInv, RowsPay, CallOk
<1>10. CallsOk'
  <2>1. ASSUME NEW d \in calls PROVE CallOk(d)'
    <3>1. CallOk(d)
      BY DEF AccountsInv, CallsOk
    <3>2. d.id > 0 => \E r \in depositNos' : r.id = d.id /\ r.user = d.user /\ r.no = d.no
      BY <1>5, <3>1 DEF CallOk
    <3> QED  BY <1>1, <1>8, <3>1, <3>2 DEF CallOk
  <2> QED  BY <1>1, <2>1 DEF CallsOk
<1>11. AccountsFound'
  BY <1>1, <1>5 DEF AccountsInv, AccountsFound, Found
<1> QED  BY <1>7, <1>9, <1>10, <1>11 DEF AccountsInv

LEMMA FailsStep == ASSUME AccountsInv, NEW c \in calls, Fails(c) PROVE AccountsInv'
<1>1. /\ calls' = calls \ {c} /\ bankFaults < MaxBankFaults /\ bankFaults' = bankFaults + 1
      /\ orphaned' = orphaned \cup
           (IF c.id = 0 /\ (c.pc # "open" \/ opened' # opened) THEN {c.no} ELSE {})
      /\ depositNos' = depositNos
  BY DEF Fails
<1>2. CallOk(c) /\ c.no \in Number /\ bankFaults' \in 0 .. MaxBankFaults
  BY <1>1, AccountsAssumption DEF AccountsInv, CallsOk, AccountsTypeOK
<1>3. orphaned' \subseteq Number
  BY <1>1, <1>2 DEF AccountsInv, AccountsTypeOK
(* What the bank may have done. *)
<1>4. /\ opened \subseteq opened' /\ opened' \subseteq Number
      /\ DOMAIN relation' \subseteq Card /\ relation' \in [DOMAIN relation' -> opened']
      /\ taken' \subseteq Card \X User
      /\ \A card, u : Pays(card, u) => Pays(card, u)'
      /\ \A no \in opened' : no \in opened \/ no \in orphaned'
  <2>1. CASE UNCHANGED <<opened, relation, taken>>
    BY <2>1 DEF AccountsInv, AccountsTypeOK, Pays
  <2>2. CASE /\ c.pc = "open" /\ c.no \notin opened /\ opened' = opened \cup {c.no}
             /\ UNCHANGED <<relation, taken>>
    <3>1. c.id = 0
      <4>1. c.id \in 0 .. Cardinality(depositNos) /\ Cardinality(depositNos) \in Nat
        BY FS_CardinalityType DEF AccountsInv, AccountsTypeOK
      <4> QED  BY <1>2, <2>2, <4>1 DEF CallOk
    <3>2. c.no \in orphaned'
      BY <1>1, <2>2, <3>1
    <3>3. relation' \in [DOMAIN relation' -> opened']
      BY <2>2 DEF AccountsInv, AccountsTypeOK
    <3> QED  BY <1>2, <2>2, <3>2, <3>3 DEF AccountsInv, AccountsTypeOK, Pays
  <2>3. CASE c.pc = "relate" /\ Bind(c) /\ UNCHANGED opened
    BY <2>3, Bound DEF AccountsInv, AccountsTypeOK
  <2> QED  BY <2>1, <2>2, <2>3 DEF Fails
<1>5. AccountsTypeOK'
  <2>1. depositNos' \subseteq
          [id : 1 .. Cardinality(depositNos'), user : User, card : Card, no : opened']
    BY <1>1, <1>4 DEF AccountsInv, AccountsTypeOK
  <2> QED  BY <1>1, <1>2, <1>3, <1>4, <2>1 DEF AccountsInv, AccountsTypeOK
<1>6. CallsOk'
  BY <1>1, <1>4 DEF AccountsInv, CallsOk, CallOk
<1>7. RowsPay'
  BY <1>1, <1>4 DEF AccountsInv, RowsPay
<1>8. AccountsFound'
  <2>1. ASSUME NEW no \in opened PROVE Found(no)'
    BY <1>1, <2>1 DEF AccountsInv, AccountsFound, Found
  <2> QED  BY <1>4, <2>1 DEF AccountsFound, Found
<1> QED  BY <1>5, <1>6, <1>7, <1>8 DEF AccountsInv

LEMMA RefusedStep == ASSUME AccountsInv, NEW c \in calls, Refused(c) PROVE AccountsInv'
<1>1. /\ c.pc = "open" /\ calls' = calls \ {c}
      /\ UNCHANGED <<opened, relation, depositNos, bankFaults, orphaned, taken>>
  BY DEF Refused
<1>2. AccountsTypeOK' /\ CallsOk'
  BY <1>1 DEF AccountsInv, AccountsTypeOK, CallsOk, CallOk, Pays
<1>3. RowsPay' /\ AccountsFound'
  BY <1>1 DEF AccountsInv, RowsPay, Pays, AccountsFound, Found
<1> QED  BY <1>2, <1>3 DEF AccountsInv

LEMMA NextAccountsInv == AccountsInv /\ [NextAccounts]_accountVars => AccountsInv'
<1> SUFFICES ASSUME AccountsInv, [NextAccounts]_accountVars PROVE AccountsInv'
  OBVIOUS
<1>1. ASSUME NEW u \in User, NEW card \in Card, UpdateCmcDepositNoRelation(u, card)
      PROVE  AccountsInv'
  BY <1>1, UpdateStep
<1>2. ASSUME NEW u \in User, NEW card \in Card, NEW d \in Digits, CreateCmcDepositNo(u, card, d)
      PROVE  AccountsInv'
  BY <1>2, CreateStep
<1>3. ASSUME NEW c \in calls, Add(c) \/ Relate(c) \/ Save(c) \/ Fails(c) \/ Refused(c)
      PROVE  AccountsInv'
  BY <1>3, AddStep, RelateStep, SaveStep, FailsStep, RefusedStep
<1>4. CASE UNCHANGED accountVars
  BY <1>4 DEF accountVars, AccountsInv, AccountsTypeOK, RowsPay, CallsOk, CallOk, Pays,
              AccountsFound, Found
<1> QED  BY <1>1, <1>2, <1>3, <1>4 DEF NextAccounts

(* IInv holds always. *)
THEOREM AccountsInvariant == AccountsSpec => []AccountsInv
BY InitAccountsInv, NextAccountsInv, PTL DEF AccountsSpec

(* CmbAccounts: every variable keeps its type, rows their ids. *)
THEOREM AccountsTypeCorrect == AccountsSpec => []AccountsTypeOK
<1>1. AccountsInv => AccountsTypeOK
  BY DEF AccountsInv
<1> QED  BY <1>1, AccountsInvariant, PTL

(* conflux_pay.go:136-158, 258: every transfer that the bank books on an account finds
   the row of the account and its user, unless the row could not be saved or is still
   to be saved. *)
THEOREM TransfersFindUsers == AccountsSpec => []TransferFindsUser
<1>1. AccountsInv => TransferFindsUser
  <2> SUFFICES ASSUME AccountsInv, NEW card \in DOMAIN relation
               PROVE  \/ \E r \in FindByCmbNo(relation[card]) : r.user = relation[card].user
                      \/ relation[card] \in orphaned
                      \/ \E c \in calls : c.no = relation[card]
    BY DEF TransferFindsUser
  <2>1. relation[card] \in opened
    BY DEF AccountsInv, AccountsTypeOK
  <2>2. Found(relation[card])
    BY <2>1 DEF AccountsInv, AccountsFound
  <2> QED  BY <2>2 DEF Found, FindByCmbNo, AccountsInv, RowsPay
<1> QED  BY <1>1, AccountsInvariant, PTL

(* conflux_pay.go:167: the card that a row shows pays an account of its user, through
   overlapping and failing calls, unless another user has bound the card since. *)
THEOREM ShownCardsPay == AccountsSpec => []ShownCardPays
<1>1. AccountsInv => ShownCardPays
  BY DEF AccountsInv, RowsPay, Pays, ShownCardPays
<1> QED  BY <1>1, AccountsInvariant, PTL
=============================================================================
