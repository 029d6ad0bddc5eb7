------------------------ MODULE BalanceLedgerProofs ------------------------
(***************************************************************************)
(* Theorems about BalanceLedger, for every set of users, workers,          *)
(* processes and requests.  Whatever the interleaving: types, the bound on *)
(* the unsettled remainder, that checked postings never overdraw, that     *)
(* every stored balance was logged, and that no fraction of a type with    *)
(* one poster is lost.  When the postings to a user do not overlap:        *)
(* balances add up, and every request is one posting of AccountBook.       *)
(***************************************************************************)
EXTENDS LedgerBook, AmountProofs, SequenceTheorems, TLAPS

(* A worker that is not idle serves one of its requests, and has a call of it
   left: what TypeOK needs to be inductive. *)
Engaged ==
  \A w \in Worker :
    IF pc[w] = "idle"
    THEN posted[w] = 0
    ELSE /\ request[w] \in Requests[w]
         /\ posted[w] + 1 \in 1 .. Len(request[w].calls)

TypeInv == TypeOK /\ Engaged

(* The call a working worker is at is one of the ledger's calls. *)
LEMMA CurrentIsCall ==
  ASSUME TypeInv, NEW w \in Worker, pc[w] # "idle"
  PROVE  Current(w) \in Call
<1>1. request[w].calls \in Seq(Call)
  BY DEF TypeInv, TypeOK, Request
<1>2. posted[w] + 1 \in 1 .. Len(request[w].calls)
  BY DEF TypeInv, Engaged
<1> QED
  BY <1>1, <1>2, ElementOfSeq DEF Current

(* What a worker reads has the types of the tables. *)
LEMMA ReadsTyped ==
  ASSUME TypeInv, NEW w \in Worker
  PROVE  /\ ViewOf(w) \in [open : BOOLEAN, balance : Int, rows : SUBSET Row]
         /\ RowsSeen(w) \subseteq Row
         /\ BalanceSeen(w) \in Int
<1>1. request[w].user \in User
  BY DEF TypeInv, TypeOK, Request
<1>2. CurrentView(request[w].user) \in [open : BOOLEAN, balance : Int, rows : SUBSET Row]
  BY <1>1 DEF TypeInv, TypeOK, CurrentView, RowsOf
<1>3. snapshot[w] \in [open : BOOLEAN, balance : Int, rows : SUBSET Row]
  BY DEF TypeInv, TypeOK
<1>4. written[w] \in [dirty : BOOLEAN, balance : Int, rows : SUBSET Row]
  BY DEF TypeInv, TypeOK
<1>5. ViewOf(w) \in [open : BOOLEAN, balance : Int, rows : SUBSET Row]
  BY <1>2, <1>3 DEF ViewOf
<1> QED
  BY <1>4, <1>5 DEF RowsSeen, BalanceSeen

(* The initial state is well typed and nobody is engaged. *)
LEMMA InitTypeInv == Init => TypeInv
BY LedgerAssumption
DEF Init, TypeInv, TypeOK, Engaged, NoRequest, Request, Closed, Clean, NoSplit, Step, Row

(* A request that begins has a first call to post. *)
LEMMA StartTyped ==
  ASSUME TypeInv, NEW w \in Worker, Start(w)
  PROVE  TypeInv'
<1>1. PICK r \in Requests[w] :
        /\ request' = [request EXCEPT ![w] = r]
        /\ snapshot' = [snapshot EXCEPT ![w] =
                          IF r.readsFirst THEN CurrentView(r.user) ELSE Closed]
  BY DEF Start
<1>2. r \in Request /\ r.calls # << >>
  BY LedgerAssumption
<1>3. CurrentView(r.user) \in [open : BOOLEAN, balance : Int, rows : SUBSET Row]
  BY <1>2 DEF TypeInv, TypeOK, CurrentView, RowsOf, Request
<1>4. Closed \in [open : BOOLEAN, balance : Int, rows : SUBSET Row]
  BY DEF Closed
<1>5. TypeOK'
  BY <1>1, <1>2, <1>3, <1>4, LedgerAssumption
  DEF TypeInv, TypeOK, Start, Goto, Step, database
<1>6. Len(r.calls) \in Nat /\ Len(r.calls) # 0
  BY <1>2, EmptySeq, LenProperties DEF Request
<1>7. Engaged'
  <2>1. posted' = posted /\ pc[w] = "idle" /\ pc' = [pc EXCEPT ![w] = "lock"]
    BY DEF Start, Goto
  <2>2. posted[w] + 1 \in 1 .. Len(r.calls)
    BY <1>6, <2>1 DEF TypeInv, Engaged
  <2>3. request'[w] = r /\ \A x \in Worker \ {w} : request'[x] = request[x]
    BY <1>1 DEF TypeInv, TypeOK
  <2>4. pc'[w] = "lock" /\ \A x \in Worker \ {w} : pc'[x] = pc[x]
    BY <2>1 DEF TypeInv, TypeOK
  <2> QED
    BY <2>1, <2>2, <2>3, <2>4 DEF TypeInv, Engaged
<1> QED
  BY <1>5, <1>7 DEF TypeInv

(* Taking the mutex keeps the types. *)
LEMMA LockTyped ==
  ASSUME TypeInv, NEW w \in Worker, LockBalanceMu(w)
  PROVE  TypeInv'
BY LedgerAssumption
DEF TypeInv, TypeOK, Engaged, LockBalanceMu, Goto, Step, database, local, bounds

(* The search for the last remainder keeps the types: it splits integers. *)
LEMMA FindTyped ==
  ASSUME TypeInv, NEW w \in Worker, FindLastFiatLogCache(w)
  PROVE  TypeInv'
<1>1. Current(w) \in Call /\ pc[w] = "find"
  BY CurrentIsCall DEF FindLastFiatLogCache, Goto
<1>2. split' \in [Worker -> [amount : Int, leftover : Int]]
  <2>1. CASE split' = [split EXCEPT ![w] = CalcLeftover(Current(w).amount)]
    BY <1>1, <2>1, CalcLeftoverSplits DEF Call, TypeInv, TypeOK
  <2>2. ASSUME NEW last \in SameType(w),
               split' = [split EXCEPT ![w] =
                          CalcLeftover(Current(w).amount + last.unsettle)]
        PROVE  split' \in [Worker -> [amount : Int, leftover : Int]]
    <3>1. last \in Row
      BY ReadsTyped DEF SameType
    <3>2. Current(w).amount + last.unsettle \in Int
      BY <1>1, <3>1 DEF Call, Row
    <3> QED
      BY <2>2, <3>2, CalcLeftoverSplits DEF TypeInv, TypeOK
  <2> QED
    BY <2>1, <2>2 DEF FindLastFiatLogCache
<1>3. snapshot' \in [Worker -> [open : BOOLEAN, balance : Int, rows : SUBSET Row]]
  <2>1. Closed \in [open : BOOLEAN, balance : Int, rows : SUBSET Row]
    BY DEF Closed
  <2> QED
    BY <2>1, ReadsTyped DEF FindLastFiatLogCache, OpenView, TypeInv, TypeOK
<1> QED
  BY <1>1, <1>2, <1>3
  DEF TypeInv, TypeOK, Engaged, FindLastFiatLogCache, Goto, Step, database, bounds

(* The balance check keeps the types. *)
LEMMA GetTyped ==
  ASSUME TypeInv, NEW w \in Worker, GetUserBalance(w)
  PROVE  TypeInv'
<1>1. BalanceSeen(w) + split[w].amount \in Int
  BY ReadsTyped DEF TypeInv, TypeOK
<1> QED
  BY <1>1
  DEF TypeInv, TypeOK, Engaged, GetUserBalance, Goto, Step, database, bounds

(* The inserted row is a row, in the table or among the uncommitted writes. *)
LEMMA CreateTyped ==
  ASSUME TypeInv, NEW w \in Worker, CreateFiatLogCache(w)
  PROVE  TypeInv'
<1>1. Current(w) \in Call /\ pc[w] = "create"
  BY CurrentIsCall DEF CreateFiatLogCache, Goto
<1>2. NewRow(w) \in Row
  BY <1>1 DEF NewRow, Row, Call, TypeInv, TypeOK, Request
<1>3. written' \in [Worker -> [dirty : BOOLEAN, balance : Int, rows : SUBSET Row]]
  <2>1. CASE request[w].inTx
    <3>1. written' = [written EXCEPT ![w] = [written[w] EXCEPT !.rows = @ \cup {NewRow(w)}]]
      BY <2>1 DEF CreateFiatLogCache
    <3>2. [written[w] EXCEPT !.rows = @ \cup {NewRow(w)}]
            \in [dirty : BOOLEAN, balance : Int, rows : SUBSET Row]
      BY <1>2 DEF TypeInv, TypeOK
    <3> QED
      BY <3>1, <3>2 DEF TypeInv, TypeOK
  <2>2. CASE ~request[w].inTx
    BY <2>2 DEF CreateFiatLogCache, TypeInv, TypeOK
  <2> QED
    BY <2>1, <2>2
<1>4. fiatLogCache' \subseteq Row
  BY <1>2 DEF CreateFiatLogCache, TypeInv, TypeOK
<1>5. Engaged'
  BY DEF TypeInv, TypeOK, Engaged, CreateFiatLogCache, Goto, local
<1>6. lastId' \in Nat /\ pc' \in [Worker -> Step]
  BY DEF CreateFiatLogCache, Goto, Step, TypeInv, TypeOK
<1> QED
  BY <1>3, <1>4, <1>5, <1>6
  DEF TypeInv, TypeOK, CreateFiatLogCache, local, bounds

(* The stored balance is an integer, in the table or uncommitted. *)
LEMMA UpdateTyped ==
  ASSUME TypeInv, NEW w \in Worker, UpdateUserBalance(w)
  PROVE  TypeInv'
<1> DEFINE u == request[w].user
<1>1. u \in User
  BY DEF TypeInv, TypeOK, Request
<1>2. /\ written' \in [Worker -> [dirty : BOOLEAN, balance : Int, rows : SUBSET Row]]
      /\ rowLock' \in [User -> Worker \cup {NoWorker}]
      /\ userBalance' \in [User -> Int]
  <2>1. CASE request[w].inTx
    <3>1. written' = [written EXCEPT ![w] =
            [written[w] EXCEPT !.dirty = TRUE, !.balance = newBalance[w]]]
      BY <2>1 DEF UpdateUserBalance
    <3>2. [written[w] EXCEPT !.dirty = TRUE, !.balance = newBalance[w]]
            \in [dirty : BOOLEAN, balance : Int, rows : SUBSET Row]
      BY DEF TypeInv, TypeOK
    <3> QED
      BY <1>1, <2>1, <3>1, <3>2 DEF UpdateUserBalance, TypeInv, TypeOK
  <2>2. CASE ~request[w].inTx
    BY <1>1, <2>2 DEF UpdateUserBalance, TypeInv, TypeOK
  <2> QED
    BY <2>1, <2>2
<1> QED
  BY <1>2 DEF TypeInv, TypeOK, Engaged, UpdateUserBalance, Goto, Step, local, bounds

(* A lock wait that times out keeps the types. *)
LEMMA TimeoutTyped ==
  ASSUME TypeInv, NEW w \in Worker, LockWaitTimeout(w)
  PROVE  TypeInv'
BY DEF TypeInv, TypeOK, Engaged, LockWaitTimeout, Goto, Step, database, bounds

(* After the release a worker has a next call, or is at its end. *)
LEMMA UnlockTyped ==
  ASSUME TypeInv, NEW w \in Worker, UnlockBalanceMu(w)
  PROVE  TypeInv'
<1> DEFINE last == failed[w] \/ posted[w] + 1 = Len(request[w].calls)
<1>1. /\ pc[w] = "unlock"
      /\ pc' = [pc EXCEPT ![w] = IF last THEN "finish" ELSE "lock"]
      /\ posted' = [posted EXCEPT ![w] = IF last THEN @ ELSE @ + 1]
      /\ request' = request
  BY DEF UnlockBalanceMu, Goto
<1>2. NoSplit \in [amount : Int, leftover : Int]
  BY DEF NoSplit
<1>3. TypeOK'
  <2>1. pc' \in [Worker -> Step] /\ posted' \in [Worker -> Nat]
    BY <1>1 DEF TypeInv, TypeOK, Step
  <2>2. balanceMu' \in [OSProcess -> Worker \cup {NoWorker}]
    BY LedgerAssumption DEF UnlockBalanceMu, TypeInv, TypeOK
  <2>3. /\ split' \in [Worker -> [amount : Int, leftover : Int]]
        /\ newBalance' \in [Worker -> Int]
    BY <1>2 DEF UnlockBalanceMu, TypeInv, TypeOK
  <2> QED
    BY <2>1, <2>2, <2>3 DEF TypeInv, TypeOK, UnlockBalanceMu, database, bounds
<1>4. Len(request[w].calls) \in Nat
  BY LenProperties DEF TypeInv, TypeOK, Request
<1>5. posted'[w] + 1 \in 1 .. Len(request[w].calls)
  BY <1>1, <1>4 DEF TypeInv, TypeOK, Engaged
<1> QED
  BY <1>1, <1>3, <1>5 DEF TypeInv, TypeOK, Engaged

(* The end of any set of requests leaves every worker well typed. *)
LEMMA EndTyped ==
  ASSUME TypeInv, NEW ws \in SUBSET Worker, EndRequests(ws)
  PROVE  /\ Engaged'
         /\ lastId' \in Nat
         /\ rowLock' \in [User -> Worker \cup {NoWorker}]
         /\ pc' \in [Worker -> Step]
         /\ request' \in [Worker -> Request]
         /\ posted' \in [Worker -> Nat]
         /\ snapshot' \in [Worker -> [open : BOOLEAN, balance : Int, rows : SUBSET Row]]
         /\ written' \in [Worker -> [dirty : BOOLEAN, balance : Int, rows : SUBSET Row]]
         /\ split' \in [Worker -> [amount : Int, leftover : Int]]
         /\ newBalance' \in [Worker -> Int]
         /\ failed' \in [Worker -> BOOLEAN]
<1>1. /\ NoRequest \in Request
      /\ Closed \in [open : BOOLEAN, balance : Int, rows : SUBSET Row]
      /\ Clean \in [dirty : BOOLEAN, balance : Int, rows : SUBSET Row]
      /\ NoSplit \in [amount : Int, leftover : Int]
  BY LedgerAssumption DEF NoRequest, Request, Closed, Clean, NoSplit
<1>2. Engaged'
  BY DEF TypeInv, TypeOK, Engaged, EndRequests
<1>3. lastId' \in Nat /\ rowLock' \in [User -> Worker \cup {NoWorker}]
  BY DEF TypeInv, TypeOK, EndRequests
<1>4. pc' \in [Worker -> Step] /\ posted' \in [Worker -> Nat]
  BY DEF TypeInv, TypeOK, EndRequests, Step
<1>5. /\ request' \in [Worker -> Request]
      /\ snapshot' \in [Worker -> [open : BOOLEAN, balance : Int, rows : SUBSET Row]]
  BY <1>1 DEF TypeInv, TypeOK, EndRequests
<1>6. /\ written' \in [Worker -> [dirty : BOOLEAN, balance : Int, rows : SUBSET Row]]
      /\ split' \in [Worker -> [amount : Int, leftover : Int]]
  BY <1>1 DEF TypeInv, TypeOK, EndRequests
<1>7. newBalance' \in [Worker -> Int]
  BY DEF TypeInv, TypeOK, EndRequests
<1>8. failed' \in [Worker -> BOOLEAN]
  BY Zenon DEF TypeInv, TypeOK, EndRequests
<1> QED
  BY <1>2, <1>3, <1>4, <1>5, <1>6, <1>7, <1>8

(* A commit keeps the types. *)
LEMMA CommitTyped ==
  ASSUME TypeInv, NEW w \in Worker, Commit(w)
  PROVE  TypeInv'
<1>1. request[w].user \in User
  BY DEF TypeInv, TypeOK, Request
<1>2. userBalance' \in [User -> Int] /\ fiatLogCache' \subseteq Row
  BY <1>1 DEF Commit, TypeInv, TypeOK
<1>3. EndRequests({w})
  BY DEF Commit
<1> QED
  BY <1>2, <1>3, EndTyped DEF Commit, TypeInv, TypeOK, bounds

(* A rollback keeps the types. *)
LEMMA RollbackTyped ==
  ASSUME TypeInv, NEW w \in Worker, Rollback(w)
  PROVE  TypeInv'
BY EndTyped DEF Rollback, TypeInv, TypeOK, bounds

(* The death of a process keeps the types. *)
LEMMA CrashTyped ==
  ASSUME TypeInv, NEW o \in OSProcess, Crash(o)
  PROVE  TypeInv'
<1>1. EndRequests({w \in Worker : ProcessOf[w] = o})
  BY DEF Crash
<1>2. crashes' \in 0 .. MaxCrashes
  BY LedgerAssumption DEF Crash, TypeInv, TypeOK
<1>3. balanceMu' \in [OSProcess -> Worker \cup {NoWorker}]
  BY DEF Crash, TypeInv, TypeOK
<1> QED
  BY <1>1, <1>2, <1>3, EndTyped DEF Crash, TypeInv, TypeOK

(* Every step preserves the type invariant. *)
LEMMA NextTypeInv ==
  ASSUME TypeInv, [Next]_vars
  PROVE  TypeInv'
<1>1. ASSUME NEW w \in Worker, Start(w) PROVE TypeInv'
  BY <1>1, StartTyped
<1>2. ASSUME NEW w \in Worker, Proceed(w) PROVE TypeInv'
  BY <1>2, LockTyped, FindTyped, GetTyped, CreateTyped, UpdateTyped, TimeoutTyped,
     UnlockTyped, CommitTyped, RollbackTyped DEF Proceed
<1>3. ASSUME NEW o \in OSProcess, Crash(o) PROVE TypeInv'
  BY <1>3, CrashTyped
<1>4. CASE UNCHANGED vars
  BY <1>4 DEF TypeInv, TypeOK, Engaged, vars, database, local, bounds
<1> QED
  BY <1>1, <1>2, <1>3, <1>4 DEF Next, Quiescent

(* Types are preserved and every busy worker has a call of its request left. *)
THEOREM TypeCorrect == Spec => []TypeOK
<1>1. Spec => []TypeInv
  BY InitTypeInv, NextTypeInv, PTL DEF Spec
<1>2. TypeInv => TypeOK
  BY DEF TypeInv
<1> QED
  BY <1>1, <1>2, PTL
-----------------------------------------------------------------------------
WholeAndBounded(amount, leftover) ==
  WholeFen(amount) /\ -Fen < leftover /\ leftover < Fen

(* LeftoverBounded, also of uncommitted rows and of the split that becomes the
   next row: a row is as good as the split it was made from. *)
SplitsBounded ==
  /\ \A r \in fiatLogCache : WholeAndBounded(r.amount, r.unsettle)
  /\ \A w \in Worker :
       /\ \A r \in written[w].rows : WholeAndBounded(r.amount, r.unsettle)
       /\ WholeAndBounded(split[w].amount, split[w].leftover)

(* What the two writing steps do to the uncommitted writes of each worker. *)
LEMMA CreateWrites ==
  ASSUME TypeInv, NEW w \in Worker, CreateFiatLogCache(w), NEW x \in Worker
  PROVE  /\ written'[x].dirty = written[x].dirty
         /\ written'[x].balance = written[x].balance
         /\ written'[x].rows = IF x = w /\ request[w].inTx
                               THEN written[x].rows \cup {NewRow(w)}
                               ELSE written[x].rows
<1>1. CASE request[w].inTx
  <2>1. written' = [written EXCEPT ![w] = [written[w] EXCEPT !.rows = @ \cup {NewRow(w)}]]
    BY <1>1 DEF CreateFiatLogCache
  <2>2. written[w] \in [dirty : BOOLEAN, balance : Int, rows : SUBSET Row]
    BY DEF TypeInv, TypeOK
  <2>3. written'[x] = IF x = w THEN [written[w] EXCEPT !.rows = @ \cup {NewRow(w)}]
                              ELSE written[x]
    BY <2>1 DEF TypeInv, TypeOK
  <2> QED
    BY <1>1, <2>2, <2>3
<1>2. CASE ~request[w].inTx
  BY <1>2 DEF CreateFiatLogCache
<1> QED
  BY <1>1, <1>2

(* And an UPDATE changes the stored balance of one user or of one transaction. *)
LEMMA UpdateWrites ==
  ASSUME TypeInv, NEW w \in Worker, UpdateUserBalance(w), NEW x \in Worker
  PROVE  /\ written'[x].rows = written[x].rows
         /\ IF x = w /\ request[w].inTx
            THEN written'[x].dirty /\ written'[x].balance = newBalance[w]
            ELSE written'[x] = written[x]
<1>1. CASE request[w].inTx
  <2>1. written' = [written EXCEPT ![w] =
          [written[w] EXCEPT !.dirty = TRUE, !.balance = newBalance[w]]]
    BY <1>1 DEF UpdateUserBalance
  <2>2. written[w] \in [dirty : BOOLEAN, balance : Int, rows : SUBSET Row]
    BY DEF TypeInv, TypeOK
  <2>3. written'[x] = IF x = w
                      THEN [written[w] EXCEPT !.dirty = TRUE, !.balance = newBalance[w]]
                      ELSE written[x]
    BY <2>1 DEF TypeInv, TypeOK
  <2> QED
    BY <1>1, <2>2, <2>3
<1>2. CASE ~request[w].inTx
  BY <1>2 DEF UpdateUserBalance
<1> QED
  BY <1>1, <1>2

(* The empty split is whole and bounded. *)
LEMMA NoSplitBounded == WholeAndBounded(NoSplit.amount, NoSplit.leftover)
<1>1. 0 % Fen = 0
  BY FenAssumption
<1> QED
  BY <1>1, FenAssumption DEF NoSplit, WholeAndBounded, WholeFen

(* calcLeftover makes the amount of a call whole and its remainder small. *)
LEMMA FindSplitsBounded ==
  ASSUME TypeInv, SplitsBounded, NEW w \in Worker, FindLastFiatLogCache(w)
  PROVE  SplitsBounded'
<1>1. Current(w) \in Call
  BY CurrentIsCall DEF FindLastFiatLogCache, Goto
<1>2. PICK raw \in Int : split' = [split EXCEPT ![w] = CalcLeftover(raw)]
  <2>1. \A last \in SameType(w) : Current(w).amount + last.unsettle \in Int
    BY <1>1, ReadsTyped DEF SameType, Row, Call
  <2> QED
    BY <1>1, <2>1 DEF FindLastFiatLogCache, Call
<1>3. WholeAndBounded(CalcLeftover(raw).amount, CalcLeftover(raw).leftover)
  BY CalcLeftoverSplits DEF WholeAndBounded
<1>4. split'[w] = CalcLeftover(raw) /\ \A x \in Worker \ {w} : split'[x] = split[x]
  BY <1>2 DEF TypeInv, TypeOK
<1>5. fiatLogCache' = fiatLogCache /\ written' = written
  BY DEF FindLastFiatLogCache, database
<1> QED
  BY <1>3, <1>4, <1>5 DEF SplitsBounded

(* The inserted row has the split that was computed. *)
LEMMA CreateSplitsBounded ==
  ASSUME TypeInv, SplitsBounded, NEW w \in Worker, CreateFiatLogCache(w)
  PROVE  SplitsBounded'
<1>1. WholeAndBounded(NewRow(w).amount, NewRow(w).unsettle)
  BY DEF SplitsBounded, NewRow
<1>2. \A r \in fiatLogCache' : r \in fiatLogCache \/ r = NewRow(w)
  BY DEF CreateFiatLogCache
<1>3. \A x \in Worker : \A r \in written'[x].rows :
        r \in written[x].rows \/ r = NewRow(w)
  BY CreateWrites
<1>4. split' = split
  BY DEF CreateFiatLogCache, local
<1> QED
  BY <1>1, <1>2, <1>3, <1>4 DEF SplitsBounded

(* What ends with a request leaves the splits of others alone. *)
LEMMA EndSplitsBounded ==
  ASSUME SplitsBounded, NEW ws \in SUBSET Worker, EndRequests(ws),
         \A r \in fiatLogCache' :
            r \in fiatLogCache \/ \E w \in Worker : r \in written[w].rows
  PROVE  SplitsBounded'
<1>1. \A w \in Worker :
        /\ written'[w].rows \subseteq written[w].rows
        /\ split'[w] \in {split[w], NoSplit}
  BY DEF EndRequests, Clean
<1> QED
  BY <1>1, NoSplitBounded DEF SplitsBounded

(* Every step preserves the bounds of splits and rows. *)
LEMMA NextSplitsBounded ==
  ASSUME TypeInv, SplitsBounded, [Next]_vars
  PROVE  SplitsBounded'
<1>1. ASSUME NEW w \in Worker, Start(w) \/ LockBalanceMu(w) \/ GetUserBalance(w)
                                \/ LockWaitTimeout(w)
      PROVE  SplitsBounded'
  BY <1>1
  DEF SplitsBounded, Start, LockBalanceMu, GetUserBalance, LockWaitTimeout, database, local
<1>2. ASSUME NEW w \in Worker, FindLastFiatLogCache(w) PROVE SplitsBounded'
  BY <1>2, FindSplitsBounded
<1>3. ASSUME NEW w \in Worker, CreateFiatLogCache(w) PROVE SplitsBounded'
  BY <1>3, CreateSplitsBounded
<1>4. ASSUME NEW w \in Worker, UpdateUserBalance(w) PROVE SplitsBounded'
  <2>1. \A x \in Worker : written'[x].rows = written[x].rows
    BY <1>4, UpdateWrites
  <2> QED
    BY <1>4, <2>1 DEF SplitsBounded, UpdateUserBalance, local
<1>5. ASSUME NEW w \in Worker, UnlockBalanceMu(w) PROVE SplitsBounded'
  <2>1. \A x \in Worker : split'[x] \in {split[x], NoSplit}
    BY <1>5 DEF UnlockBalanceMu, TypeInv, TypeOK
  <2> QED
    BY <1>5, <2>1, NoSplitBounded DEF SplitsBounded, UnlockBalanceMu, database
<1>6. ASSUME NEW w \in Worker, Commit(w) \/ Rollback(w) PROVE SplitsBounded'
  <2>1. EndRequests({w})
    BY <1>6 DEF Commit, Rollback
  <2>2. \A r \in fiatLogCache' : r \in fiatLogCache \/ r \in written[w].rows
    BY <1>6 DEF Commit, Rollback
  <2> QED
    BY <2>1, <2>2, EndSplitsBounded
<1>7. ASSUME NEW o \in OSProcess, Crash(o) PROVE SplitsBounded'
  <2>1. /\ EndRequests({w \in Worker : ProcessOf[w] = o})
        /\ fiatLogCache' = fiatLogCache
    BY <1>7 DEF Crash
  <2> QED
    BY <2>1, EndSplitsBounded
<1>8. CASE UNCHANGED vars
  BY <1>8 DEF SplitsBounded, vars, database, local
<1> QED
  BY <1>1, <1>2, <1>3, <1>4, <1>5, <1>6, <1>7, <1>8 DEF Next, Proceed, Quiescent

(* Every row of the log posts whole fen and carries less than one, for any
   prices, any fen size and any interleaving of workers. *)
THEOREM LeftoverStaysBounded == Spec => []LeftoverBounded
<1>1. Init => SplitsBounded
  BY NoSplitBounded DEF Init, SplitsBounded, Clean
<1>2. TypeInv /\ SplitsBounded /\ [Next]_vars => (TypeInv /\ SplitsBounded)'
  BY NextTypeInv, NextSplitsBounded
<1>3. SplitsBounded => LeftoverBounded
  BY DEF SplitsBounded, WholeAndBounded, LeftoverBounded
<1> QED
  BY <1>1, <1>2, <1>3, InitTypeInv, PTL DEF Spec
-----------------------------------------------------------------------------
(* b is a balance that user u may have, if all of u's postings are checked. *)
Solvent(u, b) ==
  OnlyChecked(u) /\ InitialBalance[u] + Arrears[u] >= 0 => b + Arrears[u] >= 0

(* NoOverdraft, also of every balance that may still be stored or read: those
   of open snapshots, of uncommitted writes and of calls past their check. *)
EverythingSolvent ==
  /\ \A u \in User : Solvent(u, userBalance[u])
  /\ \A w \in Worker :
       /\ snapshot[w].open => Solvent(request[w].user, snapshot[w].balance)
       /\ written[w].dirty =>
            pc[w] # "idle" /\ Solvent(request[w].user, written[w].balance)
       /\ pc[w] \in {"create", "update"} => Solvent(request[w].user, newBalance[w])

(* A worker reads a solvent balance, from whichever view. *)
LEMMA SeenSolvent ==
  ASSUME TypeInv, EverythingSolvent, NEW w \in Worker
  PROVE  /\ Solvent(request[w].user, BalanceSeen(w))
         /\ Solvent(request[w].user, ViewOf(w).balance)
<1>1. request[w].user \in User
  BY DEF TypeInv, TypeOK, Request
<1>2. CurrentView(request[w].user).balance = userBalance[request[w].user]
  BY DEF CurrentView
<1>3. Solvent(request[w].user, ViewOf(w).balance)
  BY <1>1, <1>2 DEF EverythingSolvent, ViewOf
<1> QED
  BY <1>3 DEF EverythingSolvent, BalanceSeen

(* A checked call that goes on will store a solvent balance. *)
LEMMA GetSolvent ==
  ASSUME TypeInv, EverythingSolvent, NEW w \in Worker, GetUserBalance(w)
  PROVE  EverythingSolvent'
<1> DEFINE u == request[w].user
<1>1. pc[w] = "read" /\ u \in User
  BY DEF GetUserBalance, TypeInv, TypeOK, Request
<1>2. /\ userBalance' = userBalance /\ snapshot' = snapshot
      /\ written' = written /\ request' = request
  BY DEF GetUserBalance, database
<1>3. CASE pc' = [pc EXCEPT ![w] = "unlock"] /\ newBalance' = newBalance
  BY <1>2, <1>3 DEF EverythingSolvent, TypeInv, TypeOK
<1>4. CASE /\ ~Insufficient(w)
           /\ pc' = [pc EXCEPT ![w] = "create"]
           /\ newBalance' = [newBalance EXCEPT ![w] = BalanceSeen(w) + split[w].amount]
  <2>1. Solvent(u, BalanceSeen(w) + split[w].amount)
    <3>1. SUFFICES ASSUME OnlyChecked(u)
                   PROVE  BalanceSeen(w) + split[w].amount + Arrears[u] >= 0
      BY DEF Solvent
    <3>2. Current(w).check
      <4>1. request[w] \in Requests[w] /\ posted[w] + 1 \in 1 .. Len(request[w].calls)
        BY <1>1 DEF TypeInv, Engaged
      <4>2. DOMAIN request[w].calls = 1 .. Len(request[w].calls)
        BY LenProperties DEF TypeInv, TypeOK, Request
      <4> QED
        BY <3>1, <4>1, <4>2 DEF OnlyChecked, Current
    <3>3. BalanceSeen(w) \in Int /\ split[w].amount \in Int /\ Arrears[u] \in Int
      BY <1>1, ReadsTyped, LedgerAssumption DEF TypeInv, TypeOK
    <3> QED
      BY <1>4, <3>2, <3>3 DEF Insufficient
  <2> QED
    BY <1>2, <1>4, <2>1 DEF EverythingSolvent, TypeInv, TypeOK
<1> QED
  BY <1>3, <1>4 DEF GetUserBalance, Goto

(* Storing a solvent balance leaves every copy of it solvent. *)
LEMMA UpdateSolvent ==
  ASSUME TypeInv, EverythingSolvent, NEW w \in Worker, UpdateUserBalance(w)
  PROVE  EverythingSolvent'
<1> DEFINE u == request[w].user
<1>1. Solvent(u, newBalance[w]) /\ u \in User
  BY DEF EverythingSolvent, UpdateUserBalance, Goto, TypeInv, TypeOK, Request
<1>2. \A x \in User : userBalance'[x] = userBalance[x] \/ (x = u /\ userBalance'[x] = newBalance[w])
  BY DEF UpdateUserBalance, TypeInv, TypeOK
<1>3. \A x \in Worker :
        written'[x].dirty =>
          pc'[x] # "idle" /\ Solvent(request[x].user, written'[x].balance)
  <2>1. \A x \in Worker : pc'[x] = IF x = w THEN "unlock" ELSE pc[x]
    BY DEF UpdateUserBalance, Goto, TypeInv, TypeOK
  <2> QED
    BY <1>1, <2>1, UpdateWrites DEF EverythingSolvent
<1>4. \A x \in Worker : pc'[x] \in {"create", "update"} => pc[x] \in {"create", "update"}
  BY DEF UpdateUserBalance, Goto, TypeInv, TypeOK
<1>5. request' = request /\ snapshot' = snapshot /\ newBalance' = newBalance
  BY DEF UpdateUserBalance, local
<1> QED
  BY <1>1, <1>2, <1>3, <1>4, <1>5 DEF EverythingSolvent

(* Ending requests drops copies and adds none. *)
LEMMA EndSolvent ==
  ASSUME TypeInv, EverythingSolvent, NEW ws \in SUBSET Worker, EndRequests(ws),
         \A u \in User : Solvent(u, userBalance'[u])
  PROVE  EverythingSolvent'
BY DEF EverythingSolvent, EndRequests, Closed, Clean

(* The snapshot of a new request is a copy of the committed balance. *)
LEMMA StartSolvent ==
  ASSUME TypeInv, EverythingSolvent, NEW w \in Worker, Start(w)
  PROVE  EverythingSolvent'
<1>1. PICK r \in Requests[w] :
        /\ request' = [request EXCEPT ![w] = r]
        /\ snapshot' = [snapshot EXCEPT ![w] =
                          IF r.readsFirst THEN CurrentView(r.user) ELSE Closed]
  BY DEF Start
<1>2. r.user \in User
  BY LedgerAssumption DEF Request
<1>3. snapshot'[w].open => Solvent(r.user, snapshot'[w].balance)
  BY <1>1, <1>2 DEF EverythingSolvent, CurrentView, Closed, TypeInv, TypeOK
<1>4. /\ pc' = [pc EXCEPT ![w] = "lock"] /\ pc[w] = "idle"
      /\ userBalance' = userBalance /\ written' = written /\ newBalance' = newBalance
  BY DEF Start, Goto, database
<1>5. ~written[w].dirty
  BY <1>4 DEF EverythingSolvent
<1> QED
  BY <1>1, <1>3, <1>4, <1>5 DEF EverythingSolvent, TypeInv, TypeOK

(* Every step preserves solvency of all copies of a balance. *)
LEMMA NextSolvent ==
  ASSUME TypeInv, EverythingSolvent, [Next]_vars
  PROVE  EverythingSolvent'
<1>1. ASSUME NEW w \in Worker, Start(w) PROVE EverythingSolvent'
  BY <1>1, StartSolvent
<1>2. ASSUME NEW w \in Worker, LockBalanceMu(w) PROVE EverythingSolvent'
  BY <1>2 DEF EverythingSolvent, LockBalanceMu, Goto, database, local, TypeInv, TypeOK
<1>3. ASSUME NEW w \in Worker, FindLastFiatLogCache(w) PROVE EverythingSolvent'
  <2>1. \A x \in Worker :
          snapshot'[x].open => Solvent(request[x].user, snapshot'[x].balance)
    BY <1>3, SeenSolvent
    DEF EverythingSolvent, FindLastFiatLogCache, OpenView, Closed, TypeInv, TypeOK
  <2> QED
    BY <1>3, <2>1
    DEF EverythingSolvent, FindLastFiatLogCache, Goto, database, TypeInv, TypeOK
<1>4. ASSUME NEW w \in Worker, GetUserBalance(w) PROVE EverythingSolvent'
  BY <1>4, GetSolvent
<1>5. ASSUME NEW w \in Worker, CreateFiatLogCache(w) PROVE EverythingSolvent'
  BY <1>5, CreateWrites
  DEF EverythingSolvent, CreateFiatLogCache, Goto, local, TypeInv, TypeOK
<1>6. ASSUME NEW w \in Worker, UpdateUserBalance(w) PROVE EverythingSolvent'
  BY <1>6, UpdateSolvent
<1>7. ASSUME NEW w \in Worker, LockWaitTimeout(w) PROVE EverythingSolvent'
  BY <1>7 DEF EverythingSolvent, LockWaitTimeout, Goto, database, TypeInv, TypeOK
<1>8. ASSUME NEW w \in Worker, UnlockBalanceMu(w) PROVE EverythingSolvent'
  <2>1. \A x \in Worker : pc'[x] = pc[x] \/ pc'[x] \in {"finish", "lock"}
    BY <1>8 DEF UnlockBalanceMu, Goto, TypeInv, TypeOK
  <2>2. \A x \in Worker : x # w => newBalance'[x] = newBalance[x] /\ pc'[x] = pc[x]
    BY <1>8 DEF UnlockBalanceMu, Goto, TypeInv, TypeOK
  <2>3. pc'[w] \in {"finish", "lock"}
    BY <1>8 DEF UnlockBalanceMu, Goto, TypeInv, TypeOK
  <2> QED
    BY <1>8, <2>1, <2>2, <2>3 DEF EverythingSolvent, UnlockBalanceMu, database
<1>9. ASSUME NEW w \in Worker, Commit(w) PROVE EverythingSolvent'
  <2>1. \A u \in User : Solvent(u, userBalance'[u])
    BY <1>9 DEF Commit, EverythingSolvent, TypeInv, TypeOK, Request
  <2> QED
    BY <1>9, <2>1, EndSolvent DEF Commit
<1>10. ASSUME NEW w \in Worker, Rollback(w) PROVE EverythingSolvent'
  <2>1. \A u \in User : Solvent(u, userBalance'[u])
    BY <1>10 DEF Rollback, EverythingSolvent
  <2> QED
    BY <1>10, <2>1, EndSolvent DEF Rollback
<1>11. ASSUME NEW o \in OSProcess, Crash(o) PROVE EverythingSolvent'
  <2>1. \A u \in User : Solvent(u, userBalance'[u])
    BY <1>11 DEF Crash, EverythingSolvent
  <2>2. EndRequests({w \in Worker : ProcessOf[w] = o})
    BY <1>11 DEF Crash
  <2> QED
    BY <2>1, <2>2, EndSolvent
<1>12. CASE UNCHANGED vars
  BY <1>12 DEF EverythingSolvent, vars, database, local
<1> QED
  BY <1>1, <1>2, <1>3, <1>4, <1>5, <1>6, <1>7, <1>8, <1>9, <1>10, <1>11, <1>12
  DEF Next, Proceed, Quiescent

(* balance.go:217: the check holds for the balance that is finally stored, even
   when it was made against a snapshot that others have overtaken. *)
THEOREM CheckedNeverOverdraws == Spec => []NoOverdraft
<1>1. Init => EverythingSolvent
  BY DEF Init, EverythingSolvent, Solvent, Closed, Clean
<1>2. TypeInv /\ EverythingSolvent /\ [Next]_vars => (TypeInv /\ EverythingSolvent)'
  BY NextTypeInv, NextSolvent
<1>3. EverythingSolvent => NoOverdraft
  BY DEF EverythingSolvent, Solvent, NoOverdraft
<1> QED
  BY <1>1, <1>2, <1>3, InitTypeInv, PTL DEF Spec
-----------------------------------------------------------------------------
Logged(u, b, rows) == \E r \in rows : r.user = u /\ r.balance = b

(* BalanceFromLog, also of balances not yet visible: an uncommitted balance has
   its row among the uncommitted rows, and a call that is about to store one
   has inserted the row where the store will happen. *)
EverythingLogged ==
  /\ \A u \in User :
       userBalance[u] = InitialBalance[u] \/ Logged(u, userBalance[u], fiatLogCache)
  /\ \A w \in Worker :
       /\ written[w].dirty =>
            /\ pc[w] # "idle"
            /\ Logged(request[w].user, written[w].balance, written[w].rows)
       /\ pc[w] = "update" =>
            Logged(request[w].user, newBalance[w],
                   IF request[w].inTx THEN written[w].rows ELSE fiatLogCache)

(* A balance that was logged stays logged when rows are added. *)
LEMMA LoggedGrows ==
  ASSUME NEW u, NEW b, NEW rows, NEW more, rows \subseteq more, Logged(u, b, rows)
  PROVE  Logged(u, b, more)
BY DEF Logged

(* The balance about to be stored is logged by the row inserted for it. *)
LEMMA CreateLogged ==
  ASSUME TypeInv, EverythingLogged, NEW w \in Worker, CreateFiatLogCache(w)
  PROVE  EverythingLogged'
<1>1. /\ fiatLogCache \subseteq fiatLogCache'
      /\ request' = request /\ newBalance' = newBalance /\ userBalance' = userBalance
  BY DEF CreateFiatLogCache, local
<1>2. \A x \in Worker : pc'[x] = IF x = w THEN "update" ELSE pc[x]
  BY DEF CreateFiatLogCache, Goto, TypeInv, TypeOK
<1>3. \A x \in Worker : written[x].rows \subseteq written'[x].rows
  BY CreateWrites
<1>4. NewRow(w) \in IF request[w].inTx THEN written'[w].rows ELSE fiatLogCache'
  BY CreateWrites DEF CreateFiatLogCache
<1>5. NewRow(w).user = request[w].user /\ NewRow(w).balance = newBalance[w]
  BY DEF NewRow
<1>6. Logged(request[w].user, newBalance[w],
             IF request[w].inTx THEN written'[w].rows ELSE fiatLogCache')
  BY <1>4, <1>5 DEF Logged
<1>7. \A u \in User : userBalance[u] = InitialBalance[u]
                       \/ Logged(u, userBalance[u], fiatLogCache')
  BY <1>1, LoggedGrows DEF EverythingLogged
<1>8. \A x \in Worker : written'[x].dirty =>
        pc'[x] # "idle" /\ Logged(request[x].user, written'[x].balance, written'[x].rows)
  BY <1>2, <1>3, CreateWrites, LoggedGrows DEF EverythingLogged
<1>9. \A x \in Worker : pc'[x] = "update" =>
        Logged(request[x].user, newBalance[x],
               IF request[x].inTx THEN written'[x].rows ELSE fiatLogCache')
  BY <1>1, <1>2, <1>3, <1>6, LoggedGrows DEF EverythingLogged
<1> QED
  BY <1>1, <1>7, <1>8, <1>9 DEF EverythingLogged

(* The balance that is stored was logged by the same worker. *)
LEMMA UpdateLogged ==
  ASSUME TypeInv, EverythingLogged, NEW w \in Worker, UpdateUserBalance(w)
  PROVE  EverythingLogged'
<1>1. /\ pc[w] = "update" /\ request[w].user \in User
      /\ fiatLogCache' = fiatLogCache /\ request' = request /\ newBalance' = newBalance
  BY DEF UpdateUserBalance, Goto, local, TypeInv, TypeOK, Request
<1>2. \A x \in Worker : pc'[x] = IF x = w THEN "unlock" ELSE pc[x]
  BY DEF UpdateUserBalance, Goto, TypeInv, TypeOK
<1>3. \A u \in User : userBalance'[u] = InitialBalance[u]
                       \/ Logged(u, userBalance'[u], fiatLogCache)
  BY <1>1 DEF UpdateUserBalance, EverythingLogged, TypeInv, TypeOK
<1>4. \A x \in Worker : written'[x].dirty =>
        pc'[x] # "idle" /\ Logged(request[x].user, written'[x].balance, written'[x].rows)
  BY <1>1, <1>2, UpdateWrites DEF EverythingLogged
<1> QED
  BY <1>1, <1>2, <1>3, <1>4, UpdateWrites DEF EverythingLogged

(* Ending requests, with or without their rows, leaves logged what is stored. *)
LEMMA EndLogged ==
  ASSUME EverythingLogged, NEW ws \in SUBSET Worker, EndRequests(ws),
         fiatLogCache \subseteq fiatLogCache',
         \A u \in User : userBalance'[u] = InitialBalance[u]
                          \/ Logged(u, userBalance'[u], fiatLogCache')
  PROVE  EverythingLogged'
<1>1. \A x \in ws : ~written'[x].dirty /\ pc'[x] = "idle"
  BY DEF EndRequests, Clean
<1>2. \A x \in Worker \ ws :
        /\ written'[x] = written[x] /\ pc'[x] = pc[x]
        /\ request'[x] = request[x] /\ newBalance'[x] = newBalance[x]
  BY DEF EndRequests
<1>3. \A x \in Worker \ ws : pc[x] = "update" =>
        Logged(request[x].user, newBalance[x],
               IF request[x].inTx THEN written[x].rows ELSE fiatLogCache')
  BY LoggedGrows DEF EverythingLogged
<1> QED
  BY <1>1, <1>2, <1>3 DEF EverythingLogged

(* Every step keeps all stored balances logged. *)
LEMMA NextLogged ==
  ASSUME TypeInv, EverythingLogged, [Next]_vars
  PROVE  EverythingLogged'
<1>1. ASSUME NEW w \in Worker, Start(w) PROVE EverythingLogged'
  <2>1. \A x \in Worker : x # w => pc'[x] = pc[x] /\ request'[x] = request[x]
    BY <1>1 DEF Start, Goto, TypeInv, TypeOK
  <2>2. pc'[w] = "lock" /\ pc[w] = "idle"
    BY <1>1 DEF Start, Goto, TypeInv, TypeOK
  <2> QED
    BY <1>1, <2>1, <2>2 DEF EverythingLogged, Start, database
<1>2. ASSUME NEW w \in Worker,
             LockBalanceMu(w) \/ FindLastFiatLogCache(w) \/ LockWaitTimeout(w)
      PROVE  EverythingLogged'
  BY <1>2
  DEF EverythingLogged, LockBalanceMu, FindLastFiatLogCache, LockWaitTimeout, Goto,
      database, local, TypeInv, TypeOK
<1>3. ASSUME NEW w \in Worker, GetUserBalance(w) PROVE EverythingLogged'
  <2>1. \A x \in Worker :
          x # w => pc'[x] = pc[x] /\ newBalance'[x] = newBalance[x]
    BY <1>3 DEF GetUserBalance, Goto, TypeInv, TypeOK
  <2>2. pc'[w] \in {"create", "unlock"} /\ pc[w] = "read"
    BY <1>3 DEF GetUserBalance, Goto, TypeInv, TypeOK
  <2> QED
    BY <1>3, <2>1, <2>2 DEF EverythingLogged, GetUserBalance, database
<1>4. ASSUME NEW w \in Worker, CreateFiatLogCache(w) PROVE EverythingLogged'
  BY <1>4, CreateLogged
<1>5. ASSUME NEW w \in Worker, UpdateUserBalance(w) PROVE EverythingLogged'
  BY <1>5, UpdateLogged
<1>6. ASSUME NEW w \in Worker, UnlockBalanceMu(w) PROVE EverythingLogged'
  <2>1. \A x \in Worker :
          x # w => pc'[x] = pc[x] /\ newBalance'[x] = newBalance[x]
    BY <1>6 DEF UnlockBalanceMu, Goto, TypeInv, TypeOK
  <2>2. pc'[w] \in {"finish", "lock"}
    BY <1>6 DEF UnlockBalanceMu, Goto, TypeInv, TypeOK
  <2> QED
    BY <1>6, <2>1, <2>2 DEF EverythingLogged, UnlockBalanceMu, database
<1>7. ASSUME NEW w \in Worker, Commit(w) PROVE EverythingLogged'
  <2>1. /\ fiatLogCache' = fiatLogCache \cup written[w].rows
        /\ EndRequests({w}) /\ request[w].user \in User
    BY <1>7 DEF Commit, TypeInv, TypeOK, Request
  <2>2. \A u \in User : userBalance'[u] = InitialBalance[u]
                         \/ Logged(u, userBalance'[u], fiatLogCache')
    BY <1>7, <2>1, LoggedGrows DEF Commit, EverythingLogged, TypeInv, TypeOK
  <2> QED
    BY <2>1, <2>2, EndLogged
<1>8. ASSUME NEW w \in Worker, Rollback(w) PROVE EverythingLogged'
  <2>1. fiatLogCache' = fiatLogCache /\ userBalance' = userBalance /\ EndRequests({w})
    BY <1>8 DEF Rollback
  <2> QED
    BY <2>1, EndLogged DEF EverythingLogged
<1>9. ASSUME NEW o \in OSProcess, Crash(o) PROVE EverythingLogged'
  <2>1. /\ fiatLogCache' = fiatLogCache /\ userBalance' = userBalance
        /\ EndRequests({w \in Worker : ProcessOf[w] = o})
    BY <1>9 DEF Crash
  <2> QED
    BY <2>1, EndLogged DEF EverythingLogged
<1>10. CASE UNCHANGED vars
  BY <1>10 DEF EverythingLogged, vars, database, local
<1> QED
  BY <1>1, <1>2, <1>3, <1>4, <1>5, <1>6, <1>7, <1>8, <1>9, <1>10
  DEF Next, Proceed, Quiescent

(* Even under lost updates, crashes and partial failures outside of a
   transaction, a stored balance is the initial one or one the log shows. *)
THEOREM BalanceIsLogged == Spec => []BalanceFromLog
<1>1. Init => EverythingLogged
  BY DEF Init, EverythingLogged, Clean
<1>2. TypeInv /\ EverythingLogged /\ [Next]_vars => (TypeInv /\ EverythingLogged)'
  BY NextTypeInv, NextLogged
<1>3. EverythingLogged => BalanceFromLog
  BY DEF EverythingLogged, Logged, BalanceFromLog, RowsOf
<1> QED
  BY <1>1, <1>2, <1>3, InitTypeInv, PTL DEF Spec
-----------------------------------------------------------------------------
Sole(w, u, t) == Posters(u, t) = {w}

(* The committed rows of a type, and those that a worker is about to commit. *)
Pending(w, u, t) == OfType(fiatLogCache \cup written[w].rows, u, t)

(* Ids grow; the uncommitted rows of a worker are of types it posts, in a
   transaction of the user it works for. *)
RowsInv ==
  /\ IsFiniteSet(fiatLogCache)
  /\ \A r \in fiatLogCache : r.id <= lastId
  /\ \A w \in Worker :
       /\ IsFiniteSet(written[w].rows)
       /\ \A r \in written[w].rows :
            /\ r.id <= lastId
            /\ r.user = request[w].user
            /\ w \in Posters(r.user, r.type)
       /\ ~request[w].inTx => written[w].rows = {} /\ ~snapshot[w].open
       /\ pc[w] = "idle" => written[w].rows = {} /\ ~snapshot[w].open

(* A snapshot may be stale, but not in the rows that only its owner posts. *)
ViewsInv ==
  \A w \in Worker : snapshot[w].open =>
    /\ \A r \in snapshot[w].rows : r.user = request[w].user
    /\ \A t \in LogType : Sole(w, request[w].user, t) =>
         OfType(snapshot[w].rows, request[w].user, t)
           = OfType(fiatLogCache, request[w].user, t)

(* s is the amount that was asked for with the remainder of the last row. *)
Continues(s, amount, rows) ==
  IF rows = {} THEN s = amount
  ELSE \E last \in rows :
         (\A r \in rows : r.id <= last.id) /\ s = amount + last.unsettle

SplitsInv ==
  \A w \in Worker : pc[w] \in {"read", "create"} =>
    (Sole(w, request[w].user, Current(w).type) =>
       Continues(split[w].amount + split[w].leftover, Current(w).amount,
                 Pending(w, request[w].user, Current(w).type)))

CarriedInv ==
  \A w \in Worker, u \in User, t \in LogType : Sole(w, u, t) =>
    Carried(OfType(fiatLogCache, u, t)) /\ Carried(Pending(w, u, t))

(* FractionsConserved, also of rows not yet committed, and of the split that
   becomes the next row: it continues the last row, because nobody else adds
   rows of the type while it is made. *)
FractionsInv == RowsInv /\ ViewsInv /\ SplitsInv /\ CarriedInv

(* The sums of no rows, and of one row more. *)
LEMMA SumsEmpty == SumAsked({}) = 0 /\ SumPosted({}) = 0
BY SumEmpty DEF SumAsked, SumPosted

LEMMA SumsOneMore ==
  ASSUME NEW rows \in SUBSET Row, IsFiniteSet(rows), NEW n \in Row, n \notin rows
  PROVE  /\ SumAsked(rows) \in Int /\ SumPosted(rows) \in Int
         /\ SumAsked(rows \cup {n}) = SumAsked(rows) + n.raw
         /\ SumPosted(rows \cup {n}) = SumPosted(rows) + n.amount
<1> DEFINE asked(s) == [r \in s |-> r.raw]
           amounts(s) == [r \in s |-> r.amount]
<1>1. \A r \in rows \cup {n} : r.raw \in Int /\ r.amount \in Int
  BY DEF Row
<1>2. /\ \A r \in rows \cup {n} : asked(rows \cup {n})[r] = r.raw
      /\ \A r \in rows \cup {n} : amounts(rows \cup {n})[r] = r.amount
      /\ \A r \in rows : asked(rows)[r] = r.raw /\ amounts(rows)[r] = r.amount
  OBVIOUS
<1>3. /\ SumAsked(rows) = SumFunctionOnSet(asked(rows), rows)
      /\ SumPosted(rows) = SumFunctionOnSet(amounts(rows), rows)
      /\ SumAsked(rows \cup {n}) = SumFunctionOnSet(asked(rows \cup {n}), rows \cup {n})
      /\ SumPosted(rows \cup {n}) = SumFunctionOnSet(amounts(rows \cup {n}), rows \cup {n})
  BY DEF SumAsked, SumPosted
<1> HIDE DEF asked, amounts
<1>4. SumFunctionOnSet(asked(rows), rows) \in Int
  BY <1>1, <1>2, SumInt
<1>5. SumFunctionOnSet(amounts(rows), rows) \in Int
  BY <1>1, <1>2, SumInt
<1>6. SumFunctionOnSet(asked(rows \cup {n}), rows \cup {n})
        = n.raw + SumFunctionOnSet(asked(rows), rows)
  <2> DEFINE f == asked(rows \cup {n})
             h == asked(rows)
  <2>1. /\ f[n] = n.raw
        /\ \A r \in rows \cup {n} : f[r] \in Int
        /\ \A r \in rows : f[r] = h[r]
    BY <1>1, <1>2
  <2> HIDE DEF f, h
  <2>2. SumFunctionOnSet(f, rows \cup {n}) = f[n] + SumFunctionOnSet(h, rows)
    BY <2>1, SumOneMore
  <2> QED BY <2>1, <2>2 DEF f, h
<1>7. SumFunctionOnSet(amounts(rows \cup {n}), rows \cup {n})
        = n.amount + SumFunctionOnSet(amounts(rows), rows)
  <2> DEFINE f == amounts(rows \cup {n})
             h == amounts(rows)
  <2>1. /\ f[n] = n.amount
        /\ \A r \in rows \cup {n} : f[r] \in Int
        /\ \A r \in rows : f[r] = h[r]
    BY <1>1, <1>2
  <2> HIDE DEF f, h
  <2>2. SumFunctionOnSet(f, rows \cup {n}) = f[n] + SumFunctionOnSet(h, rows)
    BY <2>1, SumOneMore
  <2> QED BY <2>1, <2>2 DEF f, h
<1> QED
  BY <1>1, <1>3, <1>4, <1>5, <1>6, <1>7

(* A row whose split continues the last row keeps the sums in step. *)
LEMMA CarriedOn ==
  ASSUME NEW rows \in SUBSET Row, IsFiniteSet(rows), Carried(rows), NEW n \in Row,
         \A r \in rows : r.id < n.id,
         Continues(n.amount + n.unsettle, n.raw, rows)
  PROVE  Carried(rows \cup {n})
<1>1. n \notin rows
  BY DEF Row
<1>2. /\ SumAsked(rows) \in Int /\ SumPosted(rows) \in Int
      /\ SumAsked(rows \cup {n}) = SumAsked(rows) + n.raw
      /\ SumPosted(rows \cup {n}) = SumPosted(rows) + n.amount
  BY <1>1, SumsOneMore
<1>3. n.raw \in Int /\ n.amount \in Int /\ n.unsettle \in Int /\ n.id \in Nat
      /\ \A r \in rows : r.id \in Nat /\ r.unsettle \in Int
  BY DEF Row
<1>4. SumAsked(rows \cup {n}) = SumPosted(rows \cup {n}) + n.unsettle
  <2>1. CASE rows = {}
    BY <1>2, <1>3, <2>1, SumsEmpty DEF Continues
  <2>2. CASE rows # {}
    <3>1. PICK last \in rows : /\ \A r \in rows : r.id <= last.id
                               /\ n.amount + n.unsettle = n.raw + last.unsettle
      BY <2>2 DEF Continues
    <3>2. SumAsked(rows) = SumPosted(rows) + last.unsettle
      BY <3>1 DEF Carried
    <3> QED
      BY <1>2, <1>3, <3>1, <3>2
  <2> QED
    BY <2>1, <2>2
<1>5. ASSUME NEW last \in rows \cup {n}, \A r \in rows \cup {n} : r.id <= last.id
      PROVE  last = n
  BY <1>3, <1>5
<1> QED
  BY <1>4, <1>5 DEF Carried

(* The call a worker is at is of a type that it posts for its user. *)
LEMMA CurrentPosts ==
  ASSUME TypeInv, NEW w \in Worker, pc[w] # "idle"
  PROVE  /\ request[w].user \in User /\ Current(w).type \in LogType
         /\ w \in Posters(request[w].user, Current(w).type)
<1>1. Current(w) \in Call
  BY CurrentIsCall
<1>2. request[w] \in Requests[w] /\ posted[w] + 1 \in 1 .. Len(request[w].calls)
  BY DEF TypeInv, Engaged
<1>3. DOMAIN request[w].calls = 1 .. Len(request[w].calls)
  BY LenProperties DEF TypeInv, TypeOK, Request
<1> QED
  BY <1>1, <1>2, <1>3 DEF Posters, Current, Call, TypeInv, TypeOK, Request

(* What a worker finds of a type that only it posts is all there is. *)
LEMMA SeenIsPending ==
  ASSUME TypeInv, FractionsInv, NEW w \in Worker, pc[w] # "idle",
         Sole(w, request[w].user, Current(w).type)
  PROVE  SameType(w) = Pending(w, request[w].user, Current(w).type)
<1> DEFINE u == request[w].user
           t == Current(w).type
<1>1. t \in LogType
  BY CurrentPosts
<1>2. /\ \A r \in ViewOf(w).rows : r.user = u
      /\ OfType(ViewOf(w).rows, u, t) = OfType(fiatLogCache, u, t)
  <2>1. CASE request[w].inTx /\ snapshot[w].open
    BY <1>1, <2>1 DEF ViewOf, FractionsInv, ViewsInv
  <2>2. CASE ~(request[w].inTx /\ snapshot[w].open)
    BY <2>2 DEF ViewOf, CurrentView, RowsOf, OfType
  <2> QED
    BY <2>1, <2>2
<1>3. \A r \in written[w].rows : r.user = u
  BY DEF FractionsInv, RowsInv
<1> QED
  BY <1>2, <1>3 DEF SameType, RowsSeen, Pending, OfType

(* Steps that touch neither rows, views nor the splits in use. *)
LEMMA QuietFractions ==
  ASSUME FractionsInv, UNCHANGED <<fiatLogCache, lastId, request, snapshot>>,
         \A x \in Worker :
           /\ written'[x].rows = written[x].rows
           /\ pc'[x] = "idle" => pc[x] = "idle"
           /\ pc'[x] \in {"read", "create"} =>
                /\ pc[x] \in {"read", "create"}
                /\ split'[x] = split[x] /\ posted'[x] = posted[x]
  PROVE  FractionsInv'
<1>1. RowsInv'
  BY DEF FractionsInv, RowsInv
<1>2. ViewsInv'
  BY DEF FractionsInv, ViewsInv
<1>3. \A x \in Worker : \A u, t : Pending(x, u, t)' = Pending(x, u, t)
  BY DEF Pending
<1>4. CarriedInv'
  BY <1>3 DEF FractionsInv, CarriedInv
<1>5. SplitsInv'
  <2> SUFFICES ASSUME NEW x \in Worker, pc'[x] \in {"read", "create"}
               PROVE  Sole(x, request'[x].user, Current(x)'.type) =>
                        Continues(split'[x].amount + split'[x].leftover, Current(x)'.amount,
                                  Pending(x, request[x].user, Current(x).type)')
    BY DEF SplitsInv
  <2>1. Current(x)' = Current(x) /\ split'[x] = split[x] /\ pc[x] \in {"read", "create"}
    BY DEF Current
  <2> QED
    BY <1>3, <2>1 DEF FractionsInv, SplitsInv
<1> QED
  BY <1>1, <1>2, <1>4, <1>5 DEF FractionsInv

(* A new request has no rows, and its view, if it has one, is current. *)
LEMMA StartFractions ==
  ASSUME TypeInv, FractionsInv, NEW w \in Worker, Start(w)
  PROVE  FractionsInv'
<1>1. PICK r \in Requests[w] :
        /\ request' = [request EXCEPT ![w] = r]
        /\ snapshot' = [snapshot EXCEPT ![w] =
                          IF r.readsFirst THEN CurrentView(r.user) ELSE Closed]
  BY DEF Start
<1>2. /\ UNCHANGED <<fiatLogCache, lastId, written, split, posted>>
      /\ pc[w] = "idle" /\ pc' = [pc EXCEPT ![w] = "lock"]
  BY DEF Start, Goto, database
<1>3. written[w].rows = {}
  BY <1>2 DEF FractionsInv, RowsInv
<1>4. \A x \in Worker : x # w => /\ request'[x] = request[x] /\ snapshot'[x] = snapshot[x]
                                 /\ pc'[x] = pc[x]
  BY <1>1, <1>2 DEF TypeInv, TypeOK
<1>5. /\ request'[w] = r /\ pc'[w] = "lock"
      /\ snapshot'[w] = IF r.readsFirst THEN CurrentView(r.user) ELSE Closed
  BY <1>1, <1>2 DEF TypeInv, TypeOK
<1>6. RowsInv'
  <2>1. r.readsFirst => r.inTx
    BY LedgerAssumption
  <2>2. ~Closed.open
    BY DEF Closed
  <2> QED
    BY <1>2, <1>3, <1>4, <1>5, <2>1, <2>2 DEF FractionsInv, RowsInv
<1>7. ViewsInv'
  <2> SUFFICES ASSUME NEW x \in Worker, snapshot'[x].open
               PROVE  /\ \A q \in snapshot'[x].rows : q.user = request'[x].user
                      /\ \A t \in LogType : Sole(x, request'[x].user, t) =>
                           OfType(snapshot'[x].rows, request'[x].user, t)
                             = OfType(fiatLogCache, request'[x].user, t)
    BY <1>2 DEF ViewsInv
  <2>1. CASE x # w
    BY <1>4, <2>1 DEF FractionsInv, ViewsInv
  <2>2. CASE x = w
    <3>1. snapshot'[x] = CurrentView(r.user)
      BY <1>5, <2>2 DEF Closed
    <3> QED
      BY <1>5, <2>2, <3>1 DEF CurrentView, RowsOf, OfType
  <2> QED
    BY <2>1, <2>2
<1>8. SplitsInv'
  <2> SUFFICES ASSUME NEW x \in Worker, pc'[x] \in {"read", "create"}
               PROVE  Sole(x, request'[x].user, Current(x)'.type) =>
                        Continues(split'[x].amount + split'[x].leftover, Current(x)'.amount,
                                  Pending(x, request[x].user, Current(x).type)')
    BY DEF SplitsInv
  <2>1. x # w /\ Current(x)' = Current(x) /\ split'[x] = split[x] /\ pc[x] \in {"read", "create"}
        /\ request'[x] = request[x]
    BY <1>2, <1>4, <1>5 DEF Current
  <2>2. Pending(x, request[x].user, Current(x).type)' = Pending(x, request[x].user, Current(x).type)
    BY <1>2, <2>1 DEF Pending
  <2> QED
    BY <2>1, <2>2 DEF FractionsInv, SplitsInv
<1>9. CarriedInv'
  BY <1>2 DEF FractionsInv, CarriedInv, Pending
<1> QED
  BY <1>6, <1>7, <1>8, <1>9 DEF FractionsInv

(* The split that is computed continues the last row of its type. *)
LEMMA FindFractions ==
  ASSUME TypeInv, FractionsInv, NEW w \in Worker, FindLastFiatLogCache(w)
  PROVE  FractionsInv'
<1> DEFINE u == request[w].user
           t == Current(w).type
<1>1. /\ UNCHANGED <<fiatLogCache, lastId, written, request, posted>>
      /\ pc[w] = "find" /\ pc' = [pc EXCEPT ![w] = "read"]
      /\ snapshot' = [snapshot EXCEPT ![w] = IF request[w].inTx THEN ViewOf(w) ELSE Closed]
  BY DEF FindLastFiatLogCache, Goto, OpenView, database
<1>2. Current(w) \in Call
  BY <1>1, CurrentIsCall
<1>3. RowsInv'
  <2>1. ~request[w].inTx => ~snapshot'[w].open
    BY <1>1 DEF Closed, TypeInv, TypeOK
  <2>2. \A x \in Worker : pc'[x] = "idle" => pc[x] = "idle" /\ x # w
    BY <1>1 DEF TypeInv, TypeOK
  <2>3. \A x \in Worker : x # w => snapshot'[x] = snapshot[x]
    BY <1>1 DEF TypeInv, TypeOK
  <2> QED
    BY <1>1, <2>1, <2>2, <2>3 DEF FractionsInv, RowsInv
<1>4. ViewsInv'
  <2> SUFFICES ASSUME NEW x \in Worker, snapshot'[x].open
               PROVE  /\ \A q \in snapshot'[x].rows : q.user = request[x].user
                      /\ \A s \in LogType : Sole(x, request[x].user, s) =>
                           OfType(snapshot'[x].rows, request[x].user, s)
                             = OfType(fiatLogCache, request[x].user, s)
    BY <1>1 DEF ViewsInv
  <2>1. CASE x # w \/ (request[w].inTx /\ snapshot[w].open)
    <3>1. snapshot'[x] = snapshot[x]
      BY <1>1, <2>1 DEF ViewOf, TypeInv, TypeOK
    <3> QED
      BY <3>1 DEF FractionsInv, ViewsInv
  <2>2. CASE x = w /\ ~(request[w].inTx /\ snapshot[w].open)
    <3>1. snapshot'[x] = CurrentView(u)
      BY <1>1, <2>2 DEF ViewOf, Closed, TypeInv, TypeOK
    <3> QED
      BY <2>2, <3>1 DEF CurrentView, RowsOf, OfType
  <2> QED
    BY <2>1, <2>2
<1>5. SplitsInv'
  <2> SUFFICES ASSUME NEW x \in Worker, pc'[x] \in {"read", "create"},
                      Sole(x, request[x].user, Current(x).type)
               PROVE  Continues(split'[x].amount + split'[x].leftover, Current(x).amount,
                                Pending(x, request[x].user, Current(x).type))
    BY <1>1 DEF SplitsInv, Pending, Current
  <2>1. CASE x # w
    <3>1. split'[x] = split[x] /\ pc'[x] = pc[x]
      BY <1>1, <2>1 DEF FindLastFiatLogCache, TypeInv, TypeOK
    <3> QED
      BY <3>1 DEF FractionsInv, SplitsInv
  <2>2. CASE x = w
    <3>1. SameType(w) = Pending(w, u, t)
      BY <1>1, <2>2, SeenIsPending
    <3>2. CASE SameType(w) = {} /\ split' = [split EXCEPT ![w] = CalcLeftover(Current(w).amount)]
      <4>1. split'[w] = CalcLeftover(Current(w).amount)
        BY <3>2 DEF TypeInv, TypeOK
      <4>2. split'[w].amount + split'[w].leftover = Current(w).amount
        BY <1>2, <4>1, CalcLeftoverSplits DEF Call
      <4> QED
        BY <2>2, <3>1, <3>2, <4>2 DEF Continues
    <3>3. ASSUME NEW last \in SameType(w), \A r \in SameType(w) : r.id <= last.id,
                 split' = [split EXCEPT ![w] =
                            CalcLeftover(Current(w).amount + last.unsettle)]
          PROVE  Continues(split'[w].amount + split'[w].leftover, Current(w).amount,
                           SameType(w))
      <4>1. split'[w] = CalcLeftover(Current(w).amount + last.unsettle)
        BY <3>3 DEF TypeInv, TypeOK
      <4>2. last \in Row
        BY ReadsTyped DEF SameType
      <4>3. Current(w).amount + last.unsettle \in Int
        BY <1>2, <4>2 DEF Call, Row
      <4>4. split'[w].amount + split'[w].leftover = Current(w).amount + last.unsettle
        BY <4>1, <4>3, CalcLeftoverSplits
      <4> QED
        BY <3>3, <4>4 DEF Continues
    <3> QED
      BY <2>2, <3>1, <3>2, <3>3 DEF FindLastFiatLogCache
  <2> QED
    BY <2>1, <2>2
<1>6. CarriedInv'
  BY <1>1 DEF FractionsInv, CarriedInv, Pending
<1> QED
  BY <1>3, <1>4, <1>5, <1>6 DEF FractionsInv

(* The new row goes on where the last row of its type ended. *)
LEMMA CreateFractions ==
  ASSUME TypeInv, FractionsInv, NEW w \in Worker, CreateFiatLogCache(w)
  PROVE  FractionsInv'
<1> DEFINE u == request[w].user
           t == Current(w).type
           n == NewRow(w)
<1>1. /\ UNCHANGED <<request, posted, split, snapshot>> /\ lastId' = lastId + 1
      /\ pc[w] = "create" /\ pc' = [pc EXCEPT ![w] = "update"]
      /\ fiatLogCache' = IF request[w].inTx THEN fiatLogCache ELSE fiatLogCache \cup {n}
  BY DEF CreateFiatLogCache, Goto, local
<1>2. \A x \in Worker : written'[x].rows = IF x = w /\ request[w].inTx
                                          THEN written[x].rows \cup {n} ELSE written[x].rows
  BY CreateWrites
<1>3. /\ u \in User /\ t \in LogType /\ w \in Posters(u, t)
      /\ Current(w) \in Call
  BY <1>1, CurrentPosts, CurrentIsCall
<1>4. /\ n \in Row /\ n.id = lastId + 1 /\ n.user = u /\ n.type = t
      /\ n.raw = Current(w).amount /\ n.amount = split[w].amount
      /\ n.unsettle = split[w].leftover
  BY <1>3 DEF NewRow, Row, Call, TypeInv, TypeOK
<1>5. lastId \in Nat
  BY DEF TypeInv, TypeOK
<1>6. /\ \A r \in fiatLogCache : r.id \in Nat
      /\ \A x \in Worker : \A r \in written[x].rows : r.id \in Nat
  BY DEF TypeInv, TypeOK, Row
<1> HIDE DEF n
<1>7. RowsInv'
  <2>1. IsFiniteSet(fiatLogCache')
    BY <1>1, FS_AddElement DEF FractionsInv, RowsInv
  <2>2. \A r \in fiatLogCache' : r.id <= lastId'
    BY <1>1, <1>4, <1>5, <1>6 DEF FractionsInv, RowsInv
  <2>3. \A x \in Worker : IsFiniteSet(written'[x].rows)
    <3>1. \A x \in Worker : IsFiniteSet(written[x].rows) /\ IsFiniteSet(written[x].rows \cup {n})
      BY FS_AddElement DEF FractionsInv, RowsInv
    <3> QED
      BY <1>2, <3>1
  <2>4. ASSUME NEW x \in Worker, NEW r \in written'[x].rows
        PROVE  r.id <= lastId' /\ r.user = request[x].user /\ x \in Posters(r.user, r.type)
    <3>1. CASE r \in written[x].rows
      BY <1>1, <1>5, <1>6, <3>1 DEF FractionsInv, RowsInv
    <3>2. CASE x = w /\ r = n
      BY <1>1, <1>3, <1>4, <1>5, <3>2
    <3> QED
      BY <1>2, <2>4, <3>1, <3>2
  <2>5. \A x \in Worker : /\ ~request[x].inTx => written'[x].rows = {} /\ ~snapshot[x].open
                          /\ pc'[x] = "idle" => written'[x].rows = {} /\ ~snapshot[x].open
    BY <1>1, <1>2 DEF FractionsInv, RowsInv, TypeInv, TypeOK
  <2> QED
    BY <1>1, <2>1, <2>2, <2>3, <2>4, <2>5 DEF RowsInv
<1>8. ASSUME NEW x \in Worker, NEW v, NEW s, Sole(x, v, s), x # w
      PROVE  ~(v = u /\ s = t)
  BY <1>3, <1>8 DEF Sole
<1>9. ASSUME NEW v, NEW s, ~(v = u /\ s = t)
      PROVE  /\ OfType(fiatLogCache', v, s) = OfType(fiatLogCache, v, s)
             /\ \A x \in Worker : Pending(x, v, s)' = Pending(x, v, s)
  BY <1>1, <1>2, <1>4, <1>9 DEF OfType, Pending
<1>10. ViewsInv'
  <2> SUFFICES ASSUME NEW x \in Worker, snapshot[x].open, NEW s \in LogType,
                      Sole(x, request[x].user, s)
               PROVE  OfType(fiatLogCache', request[x].user, s)
                        = OfType(fiatLogCache, request[x].user, s)
    BY <1>1 DEF ViewsInv, FractionsInv
  <2>1. CASE x = w
    BY <1>1, <2>1 DEF FractionsInv, RowsInv
  <2> QED
    BY <1>8, <1>9, <2>1
<1>11. SplitsInv'
  <2> SUFFICES ASSUME NEW x \in Worker, pc'[x] \in {"read", "create"},
                      Sole(x, request[x].user, Current(x).type)
               PROVE  Continues(split[x].amount + split[x].leftover, Current(x).amount,
                                Pending(x, request[x].user, Current(x).type)')
    BY <1>1 DEF SplitsInv, Current
  <2>1. x # w /\ pc'[x] = pc[x]
    BY <1>1 DEF TypeInv, TypeOK
  <2>2. Pending(x, request[x].user, Current(x).type)' = Pending(x, request[x].user, Current(x).type)
    <3>1. request'[x].user = request[x].user /\ Current(x)' = Current(x)
      BY <1>1 DEF Current
    <3>2. ~(request[x].user = u /\ Current(x).type = t)
      BY <1>8, <2>1
    <3> QED
      BY <1>1, <1>2, <1>4, <2>1, <3>1, <3>2 DEF OfType, Pending
  <2> QED
    BY <2>1, <2>2 DEF FractionsInv, SplitsInv
<1>12. CarriedInv'
  <2> SUFFICES ASSUME NEW x \in Worker, NEW v \in User, NEW s \in LogType, Sole(x, v, s)
               PROVE  Carried(OfType(fiatLogCache', v, s)) /\ Carried(Pending(x, v, s)')
    BY DEF CarriedInv
  <2>1. CASE ~(v = u /\ s = t)
    BY <1>9, <2>1 DEF FractionsInv, CarriedInv
  <2>2. CASE v = u /\ s = t
    <3>1. x = w
      BY <1>8, <2>2
    <3> DEFINE rows == Pending(w, u, t)
    <3>2. Carried(rows) /\ Carried(OfType(fiatLogCache, u, t))
      BY <2>2, <3>1 DEF FractionsInv, CarriedInv
    <3>3. rows \in SUBSET Row /\ IsFiniteSet(rows)
      <4>1. IsFiniteSet(fiatLogCache \cup written[w].rows)
        BY FS_Union DEF FractionsInv, RowsInv
      <4>2. rows \subseteq fiatLogCache \cup written[w].rows
        BY DEF Pending, OfType
      <4> QED
        BY <4>1, <4>2, FS_Subset DEF TypeInv, TypeOK
    <3>4. \A r \in rows : r.id < n.id
      BY <1>4, <1>5, <1>6 DEF FractionsInv, RowsInv, Pending, OfType
    <3>5. Continues(n.amount + n.unsettle, n.raw, rows)
      BY <1>1, <1>4, <2>2, <3>1 DEF FractionsInv, SplitsInv
    <3>6. Carried(rows \cup {n})
      <4> HIDE DEF rows
      <4> QED BY <1>4, <3>2, <3>3, <3>4, <3>5, CarriedOn
    <3>7. Pending(w, v, s)' = rows \cup {n}
      <4>1. OfType(fiatLogCache' \cup written'[w].rows, u, t) = rows \cup {n}
        BY <1>1, <1>2, <1>4 DEF Pending, OfType
      <4>2. Pending(w, v, s)' = OfType(fiatLogCache' \cup written'[w].rows, v, s)
        BY DEF Pending
      <4> QED
        BY <2>2, <4>1, <4>2
    <3>8. Carried(OfType(fiatLogCache', u, t))
      <4>1. CASE request[w].inTx
        BY <1>1, <3>2, <4>1
      <4>2. CASE ~request[w].inTx
        <5>1. written[w].rows = {}
          BY <4>2 DEF FractionsInv, RowsInv
        <5>2. OfType(fiatLogCache', u, t) = rows \cup {n}
          BY <1>1, <1>4, <4>2, <5>1 DEF Pending, OfType
        <5> QED
          BY <3>6, <5>2
      <4> QED
        BY <4>1, <4>2
    <3> QED
      BY <2>2, <3>1, <3>6, <3>7, <3>8
  <2> QED
    BY <2>1, <2>2
<1> QED
  BY <1>7, <1>10, <1>11, <1>12 DEF FractionsInv

(* Requests that end leave no rows and no view. *)
LEMMA EndFractions ==
  ASSUME TypeInv, FractionsInv, NEW ws \in SUBSET Worker, EndRequests(ws),
         IsFiniteSet(fiatLogCache'), \A r \in fiatLogCache' : r.id <= lastId,
         \A x \in Worker \ ws : \A v, s : Sole(x, v, s) =>
           OfType(fiatLogCache', v, s) = OfType(fiatLogCache, v, s),
         \A x \in ws, v \in User, s \in LogType : Sole(x, v, s) =>
           Carried(OfType(fiatLogCache', v, s))
  PROVE  FractionsInv'
<1>1. \A x \in ws : /\ written'[x].rows = {} /\ ~snapshot'[x].open /\ pc'[x] = "idle"
  BY DEF EndRequests, Closed, Clean
<1>2. \A x \in Worker \ ws :
        /\ written'[x] = written[x] /\ snapshot'[x] = snapshot[x] /\ pc'[x] = pc[x]
        /\ request'[x] = request[x] /\ split'[x] = split[x] /\ posted'[x] = posted[x]
  BY DEF EndRequests
<1>3. lastId' = lastId
  BY DEF EndRequests
<1>4. RowsInv'
  <2>1. \A x \in Worker : IsFiniteSet(written'[x].rows)
    BY <1>1, <1>2, FS_EmptySet DEF FractionsInv, RowsInv
  <2> QED
    BY <1>1, <1>2, <1>3, <2>1 DEF FractionsInv, RowsInv
<1>5. ViewsInv'
  BY <1>1, <1>2 DEF FractionsInv, ViewsInv
<1>6. ASSUME NEW x \in Worker \ ws, NEW v, NEW s, Sole(x, v, s)
      PROVE  /\ OfType(fiatLogCache', v, s) = OfType(fiatLogCache, v, s)
             /\ Pending(x, v, s)' = Pending(x, v, s)
  <2>1. OfType(fiatLogCache', v, s) = OfType(fiatLogCache, v, s)
    BY <1>6
  <2>2. Pending(x, v, s)' = OfType(fiatLogCache', v, s) \cup OfType(written'[x].rows, v, s)
    BY DEF Pending, OfType
  <2>3. Pending(x, v, s) = OfType(fiatLogCache, v, s) \cup OfType(written[x].rows, v, s)
    BY DEF Pending, OfType
  <2> QED
    BY <1>2, <2>1, <2>2, <2>3
<1>7. ASSUME NEW x \in ws, NEW v, NEW s
      PROVE  Pending(x, v, s)' = OfType(fiatLogCache', v, s)
  BY <1>1 DEF Pending, OfType
<1>8. CarriedInv'
  <2> SUFFICES ASSUME NEW x \in Worker, NEW v \in User, NEW s \in LogType, Sole(x, v, s)
               PROVE  Carried(OfType(fiatLogCache', v, s)) /\ Carried(Pending(x, v, s)')
    BY DEF CarriedInv
  <2>1. CASE x \in ws
    BY <1>7, <2>1
  <2>2. CASE x \notin ws
    <3>1. Carried(OfType(fiatLogCache, v, s)) /\ Carried(Pending(x, v, s))
      BY DEF FractionsInv, CarriedInv
    <3> QED
      BY <1>6, <2>2, <3>1
  <2> QED
    BY <2>1, <2>2
<1>9. SplitsInv'
  <2> SUFFICES ASSUME NEW x \in Worker, pc'[x] \in {"read", "create"}
               PROVE  Sole(x, request'[x].user, Current(x)'.type) =>
                        Continues(split'[x].amount + split'[x].leftover, Current(x)'.amount,
                                  Pending(x, request[x].user, Current(x).type)')
    BY DEF SplitsInv
  <2>1. x \in Worker \ ws
    BY <1>1
  <2>2. Current(x)' = Current(x) /\ request'[x] = request[x] /\ split'[x] = split[x]
    BY <1>2, <2>1 DEF Current
  <2>3. SUFFICES ASSUME Sole(x, request[x].user, Current(x).type)
                 PROVE  Continues(split[x].amount + split[x].leftover, Current(x).amount,
                                  Pending(x, request[x].user, Current(x).type)')
    BY <2>2
  <2>4. Pending(x, request[x].user, Current(x).type)'
          = OfType(fiatLogCache', request[x].user, Current(x).type)
              \cup OfType(written'[x].rows, request[x].user, Current(x).type)
    BY <2>2 DEF Pending, OfType
  <2>5. Pending(x, request[x].user, Current(x).type)
          = OfType(fiatLogCache, request[x].user, Current(x).type)
              \cup OfType(written[x].rows, request[x].user, Current(x).type)
    BY DEF Pending, OfType
  <2>6. OfType(fiatLogCache', request[x].user, Current(x).type)
          = OfType(fiatLogCache, request[x].user, Current(x).type)
    BY <1>6, <2>1, <2>3
  <2>7. Pending(x, request[x].user, Current(x).type)' = Pending(x, request[x].user, Current(x).type)
    BY <1>2, <2>1, <2>4, <2>5, <2>6
  <2> QED
    BY <1>2, <2>1, <2>3, <2>7 DEF FractionsInv, SplitsInv
<1> QED
  BY <1>4, <1>5, <1>8, <1>9 DEF FractionsInv

(* A rollback, or a crash, drops rows that were not committed. *)
LEMMA DropFractions ==
  ASSUME TypeInv, FractionsInv, NEW ws \in SUBSET Worker, EndRequests(ws),
         UNCHANGED fiatLogCache
  PROVE  FractionsInv'
<1>1. IsFiniteSet(fiatLogCache') /\ \A r \in fiatLogCache' : r.id <= lastId
  BY DEF FractionsInv, RowsInv
<1>2. \A x \in ws, v \in User, s \in LogType : Sole(x, v, s) =>
        Carried(OfType(fiatLogCache', v, s))
  BY DEF FractionsInv, CarriedInv
<1> QED
  BY <1>1, <1>2, EndFractions

(* A commit makes the pending rows the committed ones. *)
LEMMA CommitFractions ==
  ASSUME TypeInv, FractionsInv, NEW w \in Worker, Commit(w)
  PROVE  FractionsInv'
<1>1. EndRequests({w}) /\ fiatLogCache' = fiatLogCache \cup written[w].rows
  BY DEF Commit
<1>2. IsFiniteSet(fiatLogCache') /\ \A r \in fiatLogCache' : r.id <= lastId
  BY <1>1, FS_Union DEF FractionsInv, RowsInv
<1>3. ASSUME NEW x \in Worker \ {w}, NEW v, NEW s, Sole(x, v, s)
      PROVE  OfType(fiatLogCache', v, s) = OfType(fiatLogCache, v, s)
  <2>1. \A r \in written[w].rows : w \in Posters(r.user, r.type)
    BY DEF FractionsInv, RowsInv
  <2>2. w \notin Posters(v, s)
    BY <1>3 DEF Sole
  <2> QED
    BY <1>1, <2>1, <2>2 DEF OfType
<1>4. \A v \in User, s \in LogType : Sole(w, v, s) => Carried(OfType(fiatLogCache', v, s))
  BY <1>1 DEF FractionsInv, CarriedInv, Pending
<1> QED
  BY <1>1, <1>2, <1>3, <1>4, EndFractions

(* Every step keeps the fractions. *)
LEMMA NextFractions ==
  ASSUME TypeInv, FractionsInv, [Next]_vars
  PROVE  FractionsInv'
<1>1. ASSUME NEW w \in Worker, Start(w) PROVE FractionsInv'
  BY <1>1, StartFractions
<1>2. ASSUME NEW w \in Worker, LockBalanceMu(w) PROVE FractionsInv'
  BY <1>2, QuietFractions DEF LockBalanceMu, Goto, database, local, TypeInv, TypeOK
<1>3. ASSUME NEW w \in Worker, FindLastFiatLogCache(w) PROVE FractionsInv'
  BY <1>3, FindFractions
<1>4. ASSUME NEW w \in Worker, GetUserBalance(w) PROVE FractionsInv'
  <2>1. /\ UNCHANGED <<fiatLogCache, lastId, request, snapshot, written, split, posted>>
        /\ pc[w] = "read" /\ \A x \in Worker : x # w => pc'[x] = pc[x]
        /\ pc'[w] \in {"create", "unlock"}
    BY <1>4 DEF GetUserBalance, Goto, database, TypeInv, TypeOK
  <2> QED
    BY <2>1, QuietFractions
<1>5. ASSUME NEW w \in Worker, CreateFiatLogCache(w) PROVE FractionsInv'
  BY <1>5, CreateFractions
<1>6. ASSUME NEW w \in Worker, UpdateUserBalance(w) PROVE FractionsInv'
  <2>1. \A x \in Worker : written'[x].rows = written[x].rows
    BY <1>6, UpdateWrites
  <2>2. /\ UNCHANGED <<fiatLogCache, lastId, request, snapshot, split, posted>>
        /\ \A x \in Worker : pc'[x] = IF x = w THEN "unlock" ELSE pc[x]
    BY <1>6 DEF UpdateUserBalance, Goto, local, TypeInv, TypeOK
  <2> QED
    BY <2>1, <2>2, QuietFractions
<1>7. ASSUME NEW w \in Worker, LockWaitTimeout(w) PROVE FractionsInv'
  BY <1>7, QuietFractions DEF LockWaitTimeout, Goto, database, TypeInv, TypeOK
<1>8. ASSUME NEW w \in Worker, UnlockBalanceMu(w) PROVE FractionsInv'
  <2>1. /\ UNCHANGED <<fiatLogCache, lastId, request, snapshot, written>>
        /\ pc'[w] \in {"finish", "lock"}
        /\ \A x \in Worker : x # w => /\ pc'[x] = pc[x] /\ split'[x] = split[x]
                                      /\ posted'[x] = posted[x]
    BY <1>8 DEF UnlockBalanceMu, Goto, database, TypeInv, TypeOK
  <2> QED
    BY <2>1, QuietFractions
<1>9. ASSUME NEW w \in Worker, Commit(w) PROVE FractionsInv'
  BY <1>9, CommitFractions
<1>10. ASSUME NEW w \in Worker, Rollback(w) PROVE FractionsInv'
  BY <1>10, DropFractions DEF Rollback
<1>11. ASSUME NEW o \in OSProcess, Crash(o) PROVE FractionsInv'
  <2>1. EndRequests({w \in Worker : ProcessOf[w] = o}) /\ UNCHANGED fiatLogCache
    BY <1>11 DEF Crash
  <2> QED
    BY <2>1, DropFractions
<1>12. CASE UNCHANGED vars
  BY <1>12, QuietFractions DEF vars, database, local
<1> QED
  BY <1>1, <1>2, <1>3, <1>4, <1>5, <1>6, <1>7, <1>8, <1>9, <1>10, <1>11, <1>12
  DEF Next, Proceed, Quiescent

(* Nothing is posted at first. *)
LEMMA InitFractions == Init => FractionsInv
<1> SUFFICES ASSUME Init PROVE FractionsInv
  OBVIOUS
<1>1. /\ fiatLogCache = {} /\ \A w \in Worker : /\ written[w].rows = {} /\ ~snapshot[w].open
                                               /\ pc[w] = "idle"
  BY DEF Init, Clean, Closed
<1>2. RowsInv
  BY <1>1, FS_EmptySet DEF RowsInv
<1>3. ViewsInv /\ SplitsInv
  BY <1>1 DEF ViewsInv, SplitsInv
<1>4. CarriedInv
  BY <1>1 DEF CarriedInv, Carried, OfType, Pending
<1> QED
  BY <1>2, <1>3, <1>4 DEF FractionsInv

(* balance.go:202 "小于1分的零头只记录，等凑齐1分以上才结算": for a type that one
   worker posts to a user, whatever others post to the same user, and through
   failures, lock timeouts and crashes, no fraction of a fen is lost or charged
   twice. *)
THEOREM FractionsAreConserved == Spec => []FractionsConserved
<1>1. TypeInv /\ FractionsInv /\ [Next]_vars => (TypeInv /\ FractionsInv)'
  BY NextTypeInv, NextFractions
<1>2. FractionsInv => FractionsConserved
  <2> SUFFICES ASSUME FractionsInv, NEW u \in User, NEW t \in LogType,
                      NEW w \in Worker, Posters(u, t) = {w}
               PROVE  Carried(OfType(fiatLogCache, u, t))
    BY DEF FractionsConserved
  <2> QED
    BY DEF FractionsInv, CarriedInv, Sole
<1> QED
  BY <1>1, <1>2, InitTypeInv, InitFractions, PTL DEF Spec
-----------------------------------------------------------------------------
Inside == {"find", "read", "create", "update", "unlock"}

(* The mutex of a process excludes, and row locks belong to transactions. *)
LocksInv ==
  /\ \A w \in Worker : pc[w] \in Inside => balanceMu[ProcessOf[w]] = w
  /\ \A u \in User : rowLock[u] # NoWorker =>
       /\ pc[rowLock[u]] # "idle"
       /\ request[rowLock[u]].user = u /\ request[rowLock[u]].inTx
  /\ \A w \in Worker : written[w].dirty => pc[w] # "idle" /\ request[w].inTx

(* The initial balance and all that was posted, of a user, committed, ... *)
TotalOf(u) == InitialBalance[u] + SumPosted(RowsOf(fiatLogCache, u))
(* ... and as the worker leaves it that serves the user. *)
Total(w) ==
  InitialBalance[request[w].user]
    + SumPosted(RowsOf(fiatLogCache \cup written[w].rows, request[w].user))

(* A bare statement has inserted its row and not yet stored the balance. *)
HalfWay(u) ==
  \E w \in Worker : pc[w] = "update" /\ request[w].user = u /\ ~request[w].inTx

(* LedgerBalanced, also of what is not committed, and of the balance about to
   be stored, for the users whose postings do not overlap. *)
WorkBalanced(w) ==
  /\ snapshot[w].open => snapshot[w].balance = userBalance[request[w].user]
  /\ pc[w] = "create" => newBalance[w] = BalanceSeen(w) + split[w].amount
  /\ pc[w] = "update" => newBalance[w] = Total(w)
  /\ request[w].inTx /\ pc[w] # "update" => BalanceSeen(w) = Total(w)

BalancedInv ==
  /\ \A w \in Worker :
       pc[w] # "idle" /\ Undisturbed(request[w].user) => WorkBalanced(w)
  /\ \A u \in User :
       Undisturbed(u) /\ ~HalfWay(u) => userBalance[u] = TotalOf(u)

(* The mutex and the row locks, step by step. *)
LEMMA LockLocks ==
  ASSUME TypeInv, LocksInv, NEW w \in Worker, LockBalanceMu(w)
  PROVE  LocksInv'
<1>1. /\ UNCHANGED <<rowLock, request, written>>
      /\ pc[w] = "lock" /\ pc' = [pc EXCEPT ![w] = "find"]
      /\ balanceMu[ProcessOf[w]] = NoWorker
      /\ balanceMu' = [balanceMu EXCEPT ![ProcessOf[w]] = w]
  BY DEF LockBalanceMu, Goto, database, local
<1>2. \A x \in Worker : pc'[x] = IF x = w THEN "find" ELSE pc[x]
  BY <1>1 DEF TypeInv, TypeOK
<1>3. \A x \in Worker : /\ ProcessOf[x] \in OSProcess /\ x # NoWorker
                        /\ balanceMu'[ProcessOf[x]] = IF ProcessOf[x] = ProcessOf[w] THEN w
                                                     ELSE balanceMu[ProcessOf[x]]
  BY <1>1, LedgerAssumption DEF TypeInv, TypeOK
<1>4. \A x \in Worker : pc'[x] \in Inside => balanceMu'[ProcessOf[x]] = x
  BY <1>1, <1>2, <1>3 DEF LocksInv
<1>5. \A u \in User : rowLock[u] # NoWorker => rowLock[u] \in Worker
  BY DEF TypeInv, TypeOK
<1> QED
  BY <1>1, <1>2, <1>4, <1>5 DEF LocksInv

(* Steps of a worker that holds the mutex and keeps it. *)
LEMMA InsideLocks ==
  ASSUME TypeInv, LocksInv, NEW w \in Worker, pc[w] \in Inside,
         NEW next \in Inside, pc' = [pc EXCEPT ![w] = next],
         UNCHANGED <<balanceMu, request>>,
         \A u \in User : rowLock'[u] = rowLock[u]
           \/ (rowLock'[u] = w /\ request[w].user = u /\ request[w].inTx),
         \A x \in Worker : written'[x].dirty =>
           written[x].dirty \/ (x = w /\ request[w].inTx)
  PROVE  LocksInv'
<1>1. \A x \in Worker : pc'[x] = IF x = w THEN next ELSE pc[x]
  BY DEF TypeInv, TypeOK
<1>2. \A x \in Worker : pc'[x] \in Inside => balanceMu'[ProcessOf[x]] = x
  BY <1>1 DEF LocksInv
<1>3. next # "idle"
  BY DEF Inside
<1>4. \A u \in User : rowLock[u] # NoWorker => rowLock[u] \in Worker
  BY DEF TypeInv, TypeOK
<1> QED
  BY <1>1, <1>2, <1>3, <1>4 DEF LocksInv

(* Its release leaves the others of its process outside, where they were. *)
LEMMA UnlockLocks ==
  ASSUME TypeInv, LocksInv, NEW w \in Worker, UnlockBalanceMu(w)
  PROVE  LocksInv'
<1>1. /\ UNCHANGED <<rowLock, request, written>> /\ pc[w] = "unlock"
      /\ pc'[w] \in {"finish", "lock"} /\ \A x \in Worker : x # w => pc'[x] = pc[x]
      /\ balanceMu' = [balanceMu EXCEPT ![ProcessOf[w]] = NoWorker]
  BY DEF UnlockBalanceMu, Goto, database, TypeInv, TypeOK
<1>2. \A x \in Worker : x # w /\ pc[x] \in Inside => ProcessOf[x] # ProcessOf[w]
  BY <1>1 DEF LocksInv, Inside
<1>3. \A x \in Worker : pc'[x] \in Inside => balanceMu'[ProcessOf[x]] = x
  <2> SUFFICES ASSUME NEW x \in Worker, pc'[x] \in Inside
               PROVE  balanceMu'[ProcessOf[x]] = x
    OBVIOUS
  <2>1. x # w /\ pc[x] \in Inside
    BY <1>1 DEF Inside
  <2>2. ProcessOf[x] \in OSProcess /\ ProcessOf[x] # ProcessOf[w] /\ balanceMu[ProcessOf[x]] = x
    BY <1>2, <2>1, LedgerAssumption DEF LocksInv
  <2> QED
    BY <1>1, <2>2 DEF TypeInv, TypeOK
<1>4. \A u \in User : rowLock[u] # NoWorker => rowLock[u] \in Worker
  BY DEF TypeInv, TypeOK
<1> QED
  BY <1>1, <1>3, <1>4 DEF LocksInv

(* The ends of requests release their row locks; the mutexes that go were of
   workers that end. *)
LEMMA EndLocks ==
  ASSUME TypeInv, LocksInv, NEW ws \in SUBSET Worker, EndRequests(ws),
         \A x \in Worker \ ws : pc[x] \in Inside =>
           balanceMu'[ProcessOf[x]] = balanceMu[ProcessOf[x]]
  PROVE  LocksInv'
<1>1. \A x \in ws : pc'[x] = "idle" /\ ~written'[x].dirty
  BY DEF EndRequests, Clean
<1>2. \A x \in Worker \ ws :
        pc'[x] = pc[x] /\ request'[x] = request[x] /\ written'[x] = written[x]
  BY DEF EndRequests
<1>3. \A x \in Worker : pc'[x] \in Inside => balanceMu'[ProcessOf[x]] = x
  BY <1>1, <1>2 DEF LocksInv, Inside
<1>4. \A u \in User : rowLock'[u] # NoWorker =>
        rowLock[u] \in Worker \ ws /\ rowLock'[u] = rowLock[u]
  BY DEF EndRequests, TypeInv, TypeOK
<1>5. \A u \in User : rowLock'[u] # NoWorker =>
        /\ pc'[rowLock'[u]] # "idle"
        /\ request'[rowLock'[u]].user = u /\ request'[rowLock'[u]].inTx
  BY <1>2, <1>4 DEF LocksInv
<1>6. \A x \in Worker : written'[x].dirty => pc'[x] # "idle" /\ request'[x].inTx
  BY <1>1, <1>2 DEF LocksInv
<1> QED
  BY <1>3, <1>5, <1>6 DEF LocksInv

(* Every step keeps the locks. *)
LEMMA NextLocks ==
  ASSUME TypeInv, LocksInv, [Next]_vars
  PROVE  LocksInv'
<1>1. ASSUME NEW w \in Worker, Start(w) PROVE LocksInv'
  <2>1. /\ UNCHANGED <<rowLock, balanceMu, written>> /\ pc[w] = "idle" /\ pc'[w] = "lock"
        /\ \A x \in Worker : x # w => pc'[x] = pc[x] /\ request'[x] = request[x]
    BY <1>1 DEF Start, Goto, database, TypeInv, TypeOK
  <2>2. \A u \in User : rowLock[u] # NoWorker => rowLock[u] \in Worker
    BY DEF TypeInv, TypeOK
  <2>3. \A u \in User : rowLock[u] # w
    BY <2>1, LedgerAssumption DEF LocksInv
  <2>4. \A x \in Worker : pc'[x] \in Inside => balanceMu'[ProcessOf[x]] = x
    BY <2>1 DEF LocksInv, Inside
  <2>5. \A u \in User : rowLock'[u] # NoWorker =>
          /\ pc'[rowLock'[u]] # "idle"
          /\ request'[rowLock'[u]].user = u /\ request'[rowLock'[u]].inTx
    BY <2>1, <2>2, <2>3 DEF LocksInv
  <2>6. \A x \in Worker : written'[x].dirty => pc'[x] # "idle" /\ request'[x].inTx
    BY <2>1 DEF LocksInv
  <2> QED
    BY <2>4, <2>5, <2>6 DEF LocksInv
<1>2. ASSUME NEW w \in Worker, LockBalanceMu(w) PROVE LocksInv'
  BY <1>2, LockLocks
<1>3. ASSUME NEW w \in Worker, FindLastFiatLogCache(w) PROVE LocksInv'
  <2>1. /\ pc[w] \in Inside /\ "read" \in Inside /\ pc' = [pc EXCEPT ![w] = "read"]
        /\ UNCHANGED <<balanceMu, request, rowLock, written>>
    BY <1>3 DEF FindLastFiatLogCache, Goto, database, Inside
  <2> QED
    BY <2>1, InsideLocks
<1>4. ASSUME NEW w \in Worker, GetUserBalance(w) PROVE LocksInv'
  <2>1. /\ pc[w] \in Inside /\ UNCHANGED <<balanceMu, request, rowLock, written>>
        /\ \E next \in Inside : pc' = [pc EXCEPT ![w] = next]
    BY <1>4 DEF GetUserBalance, Goto, database, Inside
  <2> QED
    BY <2>1, InsideLocks
<1>5. ASSUME NEW w \in Worker, CreateFiatLogCache(w) PROVE LocksInv'
  <2>1. /\ pc[w] \in Inside /\ "update" \in Inside /\ pc' = [pc EXCEPT ![w] = "update"]
        /\ UNCHANGED <<balanceMu, request, rowLock>>
    BY <1>5 DEF CreateFiatLogCache, Goto, local, Inside
  <2>2. \A x \in Worker : written'[x].dirty = written[x].dirty
    BY <1>5, CreateWrites
  <2> QED
    BY <2>1, <2>2, InsideLocks
<1>6. ASSUME NEW w \in Worker, UpdateUserBalance(w) PROVE LocksInv'
  <2>1. /\ pc[w] \in Inside /\ "unlock" \in Inside /\ pc' = [pc EXCEPT ![w] = "unlock"]
        /\ UNCHANGED <<balanceMu, request>>
    BY <1>6 DEF UpdateUserBalance, Goto, local, Inside
  <2>2. \A x \in Worker : written'[x].dirty => written[x].dirty \/ (x = w /\ request[w].inTx)
    BY <1>6, UpdateWrites
  <2>3. \A u \in User : rowLock'[u] = rowLock[u]
          \/ (rowLock'[u] = w /\ request[w].user = u /\ request[w].inTx)
    BY <1>6 DEF UpdateUserBalance, TypeInv, TypeOK
  <2> QED
    BY <2>1, <2>2, <2>3, InsideLocks
<1>7. ASSUME NEW w \in Worker, LockWaitTimeout(w) PROVE LocksInv'
  <2>1. /\ pc[w] \in Inside /\ "unlock" \in Inside /\ pc' = [pc EXCEPT ![w] = "unlock"]
        /\ UNCHANGED <<balanceMu, request, rowLock, written>>
    BY <1>7 DEF LockWaitTimeout, Goto, database, Inside
  <2> QED
    BY <2>1, InsideLocks
<1>8. ASSUME NEW w \in Worker, UnlockBalanceMu(w) PROVE LocksInv'
  BY <1>8, UnlockLocks
<1>9. ASSUME NEW w \in Worker, Commit(w) \/ Rollback(w) PROVE LocksInv'
  BY <1>9, EndLocks DEF Commit, Rollback
<1>10. ASSUME NEW o \in OSProcess, Crash(o) PROVE LocksInv'
  <2>1. EndRequests({w \in Worker : ProcessOf[w] = o})
        /\ balanceMu' = [balanceMu EXCEPT ![o] = NoWorker]
    BY <1>10 DEF Crash
  <2>2. \A x \in Worker \ {w \in Worker : ProcessOf[w] = o} :
          balanceMu'[ProcessOf[x]] = balanceMu[ProcessOf[x]]
    BY <2>1, LedgerAssumption DEF TypeInv, TypeOK
  <2> QED
    BY <2>1, <2>2, EndLocks
<1>11. CASE UNCHANGED vars
  BY <1>11 DEF LocksInv, vars, database, local
<1> QED
  BY <1>1, <1>2, <1>3, <1>4, <1>5, <1>6, <1>7, <1>8, <1>9, <1>10, <1>11
  DEF Next, Proceed, Quiescent

(* Whoever else serves the same undisturbed user has not read it yet. *)
LEMMA OthersOutside ==
  ASSUME TypeInv, LocksInv, NEW w \in Worker, pc[w] # "idle",
         NEW x \in Worker, x # w, pc[x] # "idle",
         request[x].user = request[w].user, Undisturbed(request[w].user)
  PROVE  /\ BareStatements(request[w].user) /\ ~request[w].inTx /\ ~request[x].inTx
         /\ ProcessOf[x] = ProcessOf[w] /\ ProcessOf[w] \notin Mortal
         /\ pc[w] \in Inside => pc[x] \notin Inside
<1>1. request[w] \in Requests[w] /\ request[x] \in Requests[x]
  BY DEF TypeInv, Engaged
<1>2. ~OneTransaction(request[w].user)
  BY <1>1 DEF OneTransaction
<1>3. BareStatements(request[w].user)
  BY <1>2 DEF Undisturbed
<1>4. PICK o \in OSProcess \ Mortal : \A y \in Worker : \A r \in Requests[y] :
        r.user = request[w].user => ProcessOf[y] = o /\ ~r.inTx /\ Len(r.calls) = 1
  BY <1>3 DEF BareStatements
<1>5. ProcessOf[x] = o /\ ProcessOf[w] = o /\ ~request[w].inTx /\ ~request[x].inTx
  BY <1>1, <1>4
<1> QED
  BY <1>3, <1>5 DEF LocksInv

(* The balance that a worker reads, and the total that it leaves, spelled out. *)
LEMMA SeenCases ==
  ASSUME TypeInv, RowsInv, LocksInv, NEW w \in Worker, pc[w] # "idle",
         snapshot[w].open => snapshot[w].balance = userBalance[request[w].user]
  PROVE  BalanceSeen(w) = IF written[w].dirty THEN written[w].balance
                                             ELSE userBalance[request[w].user]
BY DEF BalanceSeen, ViewOf, CurrentView

LEMMA TotalsTyped ==
  ASSUME TypeInv, RowsInv
  PROVE  /\ \A u \in User : /\ RowsOf(fiatLogCache, u) \in SUBSET Row
                            /\ IsFiniteSet(RowsOf(fiatLogCache, u))
         /\ \A w \in Worker :
              /\ RowsOf(fiatLogCache \cup written[w].rows, request[w].user) \in SUBSET Row
              /\ IsFiniteSet(RowsOf(fiatLogCache \cup written[w].rows, request[w].user))
<1>1. ASSUME NEW w \in Worker
      PROVE  IsFiniteSet(fiatLogCache \cup written[w].rows)
  BY FS_Union DEF RowsInv
<1>2. ASSUME NEW S \in SUBSET Row, IsFiniteSet(S), NEW u
      PROVE  RowsOf(S, u) \in SUBSET Row /\ IsFiniteSet(RowsOf(S, u))
  <2>1. RowsOf(S, u) \subseteq S
    BY DEF RowsOf
  <2> QED
    BY <1>2, <2>1, FS_Subset
<1>3. IsFiniteSet(fiatLogCache) /\ fiatLogCache \in SUBSET Row
  BY DEF RowsInv, TypeInv, TypeOK
<1>4. \A w \in Worker : fiatLogCache \cup written[w].rows \in SUBSET Row
  BY DEF TypeInv, TypeOK
<1> QED
  BY <1>1, <1>2, <1>3, <1>4

(* What nobody has touched stays balanced. *)
LEMMA WorkKept ==
  ASSUME NEW x \in Worker, WorkBalanced(x),
         /\ pc'[x] = pc[x] /\ request'[x] = request[x] /\ snapshot'[x] = snapshot[x]
         /\ written'[x] = written[x] /\ newBalance'[x] = newBalance[x] /\ split'[x] = split[x]
         /\ userBalance'[request[x].user] = userBalance[request[x].user]
         /\ RowsOf(fiatLogCache', request[x].user) = RowsOf(fiatLogCache, request[x].user)
  PROVE  WorkBalanced(x)'
<1>1. /\ ViewOf(x)' = ViewOf(x)
      /\ BalanceSeen(x)' = BalanceSeen(x)
  BY DEF ViewOf, CurrentView, BalanceSeen
<1>2. RowsOf(fiatLogCache' \cup written'[x].rows, request'[x].user)
        = RowsOf(fiatLogCache \cup written[x].rows, request[x].user)
  BY DEF RowsOf
<1>3. Total(x)' = Total(x)
  BY <1>2 DEF Total
<1> QED
  BY <1>1, <1>3 DEF WorkBalanced

(* Outside of a transaction and of the mutex there is nothing to balance. *)
LEMMA WorkOutside ==
  ASSUME RowsInv', NEW x \in Worker, ~request'[x].inTx, pc'[x] \notin {"create", "update"}
  PROVE  WorkBalanced(x)'
BY DEF RowsInv, WorkBalanced

(* No statement of another worker is half way while this one looks. *)
LEMMA NotHalfWay ==
  ASSUME TypeInv, LocksInv, NEW w \in Worker, pc[w] # "idle",
         Undisturbed(request[w].user),
         request[w].inTx \/ pc[w] \in Inside \ {"update"}
  PROVE  ~HalfWay(request[w].user)
<1> SUFFICES ASSUME NEW x \in Worker, pc[x] = "update", ~request[x].inTx,
                    request[x].user = request[w].user
             PROVE  FALSE
  BY DEF HalfWay
<1>1. x # w /\ pc[x] \in Inside
  BY DEF Inside
<1> QED
  BY <1>1, OthersOutside

(* A transaction of an undisturbed user that begins finds no half statement. *)
LEMMA NoneHalfWay ==
  ASSUME TypeInv, NEW w \in Worker, NEW r \in Requests[w], r.inTx, Undisturbed(r.user)
  PROVE  ~HalfWay(r.user)
<1>1. OneTransaction(r.user)
  BY DEF Undisturbed, BareStatements
<1> QED
  BY <1>1 DEF HalfWay, OneTransaction, TypeInv, Engaged

(* Before it stores a balance, a worker sees the total. *)
LEMMA SeesTotal ==
  ASSUME TypeInv, RowsInv, LocksInv, BalancedInv, NEW w \in Worker,
         pc[w] \in Inside \ {"update"}, Undisturbed(request[w].user)
  PROVE  BalanceSeen(w) = Total(w)
<1>1. pc[w] # "idle" /\ request[w].user \in User
  BY DEF Inside, TypeInv, TypeOK, Request
<1>2. CASE request[w].inTx
  BY <1>1, <1>2 DEF BalancedInv, WorkBalanced
<1>3. CASE ~request[w].inTx
  <2>1. userBalance[request[w].user] = TotalOf(request[w].user)
    BY <1>1, NotHalfWay DEF BalancedInv
  <2>2. written[w].rows = {} /\ ~written[w].dirty
    BY <1>3 DEF RowsInv, LocksInv
  <2>3. BalanceSeen(w) = userBalance[request[w].user]
    BY <1>3, <2>2 DEF BalanceSeen, ViewOf, CurrentView
  <2>4. fiatLogCache \cup written[w].rows = fiatLogCache
    BY <2>2
  <2> QED
    BY <2>1, <2>3, <2>4 DEF Total, TotalOf
<1> QED
  BY <1>2, <1>3

(* Steps that change no table keep the committed totals, and the work of
   others. *)
LEMMA QuietBalanced ==
  ASSUME BalancedInv, NEW w \in Worker, UNCHANGED <<userBalance, fiatLogCache>>,
         pc[w] # "update", pc'[w] # "update",
         \A x \in Worker : x # w =>
           /\ pc'[x] = pc[x] /\ request'[x] = request[x] /\ snapshot'[x] = snapshot[x]
           /\ written'[x] = written[x] /\ newBalance'[x] = newBalance[x]
           /\ split'[x] = split[x],
         pc'[w] # "idle" /\ Undisturbed(request'[w].user) => WorkBalanced(w)'
  PROVE  BalancedInv'
<1>1. ASSUME NEW x \in Worker, x # w, pc'[x] # "idle", Undisturbed(request'[x].user)
      PROVE  WorkBalanced(x)'
  <2>1. WorkBalanced(x)
    BY <1>1 DEF BalancedInv
  <2> QED
    BY <1>1, <2>1, WorkKept
<1>2. \A u : HalfWay(u)' <=> HalfWay(u)
  <2>1. \A x \in Worker : \A u : x # w =>
          ((pc'[x] = "update" /\ request'[x].user = u /\ ~request'[x].inTx)
             <=> (pc[x] = "update" /\ request[x].user = u /\ ~request[x].inTx))
    OBVIOUS
  <2> QED
    BY <2>1 DEF HalfWay
<1>3. \A u : TotalOf(u)' = TotalOf(u)
  BY DEF TotalOf
<1> QED
  BY <1>1, <1>2, <1>3 DEF BalancedInv

(* A transaction begins on a balanced ledger. *)
LEMMA StartBalanced ==
  ASSUME TypeInv, RowsInv, LocksInv, BalancedInv, NEW w \in Worker, Start(w)
  PROVE  BalancedInv'
<1>1. PICK r \in Requests[w] :
        /\ request' = [request EXCEPT ![w] = r]
        /\ snapshot' = [snapshot EXCEPT ![w] =
                          IF r.readsFirst THEN CurrentView(r.user) ELSE Closed]
  BY DEF Start
<1>2. /\ UNCHANGED <<userBalance, fiatLogCache, written, newBalance, split>>
      /\ pc[w] = "idle" /\ pc' = [pc EXCEPT ![w] = "lock"]
  BY DEF Start, Goto, database
<1>3. /\ written[w].rows = {} /\ ~written[w].dirty
  BY <1>2 DEF RowsInv, LocksInv
<1>4. \A x \in Worker : x # w => /\ request'[x] = request[x] /\ snapshot'[x] = snapshot[x]
                                 /\ pc'[x] = pc[x]
  BY <1>1, <1>2 DEF TypeInv, TypeOK
<1>5. /\ request'[w] = r /\ pc'[w] = "lock" /\ r.user \in User
      /\ snapshot'[w] = IF r.readsFirst THEN CurrentView(r.user) ELSE Closed
  <2>1. r \in Request
    BY LedgerAssumption
  <2>2. r.user \in User
    BY <2>1 DEF Request
  <2> QED
    BY <1>1, <1>2, <2>2 DEF TypeInv, TypeOK
<1>6. ASSUME Undisturbed(r.user)
      PROVE  WorkBalanced(w)'
  <2>1. snapshot'[w].open => snapshot'[w].balance = userBalance[r.user]
    BY <1>5 DEF CurrentView, Closed
  <2>2. ASSUME r.inTx PROVE BalanceSeen(w)' = Total(w)'
    <3>1. userBalance[r.user] = TotalOf(r.user)
      BY <1>5, <1>6, <2>2, NoneHalfWay DEF BalancedInv
    <3>2. BalanceSeen(w)' = userBalance[r.user]
      BY <1>2, <1>3, <1>5, <2>1 DEF BalanceSeen, ViewOf, CurrentView
    <3>3. fiatLogCache \cup written[w].rows = fiatLogCache
      BY <1>3
    <3>4. Total(w)' = TotalOf(r.user)
      BY <1>2, <1>5, <3>3 DEF Total, TotalOf
    <3> QED
      BY <3>1, <3>2, <3>4
  <2> QED
    BY <1>2, <1>5, <2>1, <2>2 DEF WorkBalanced
<1> QED
  BY <1>2, <1>4, <1>5, <1>6, QuietBalanced

(* The first read opens a view of the same balance. *)
LEMMA FindBalanced ==
  ASSUME TypeInv, RowsInv, LocksInv, BalancedInv, NEW w \in Worker, FindLastFiatLogCache(w)
  PROVE  BalancedInv'
<1>1. /\ UNCHANGED <<userBalance, fiatLogCache, written, newBalance, request>>
      /\ pc[w] = "find" /\ pc' = [pc EXCEPT ![w] = "read"]
      /\ snapshot' = [snapshot EXCEPT ![w] = IF request[w].inTx THEN ViewOf(w) ELSE Closed]
      /\ \A x \in Worker : x # w => split'[x] = split[x]
  BY DEF FindLastFiatLogCache, Goto, OpenView, database, TypeInv, TypeOK
<1>2. \A x \in Worker : x # w => pc'[x] = pc[x] /\ snapshot'[x] = snapshot[x]
  BY <1>1 DEF TypeInv, TypeOK
<1>3. pc'[w] = "read" /\ snapshot'[w] = IF request[w].inTx THEN ViewOf(w) ELSE Closed
  BY <1>1 DEF TypeInv, TypeOK
<1>4. ASSUME Undisturbed(request[w].user) PROVE WorkBalanced(w)'
  <2>1. WorkBalanced(w)
    BY <1>1, <1>4 DEF BalancedInv
  <2>2. ViewOf(w).balance = userBalance[request[w].user]
    BY <2>1 DEF WorkBalanced, ViewOf, CurrentView
  <2>3. snapshot'[w].open => snapshot'[w].balance = userBalance[request[w].user]
    BY <1>3, <2>2 DEF Closed
  <2>4. ViewOf(w)'.balance = userBalance[request[w].user]
    BY <1>1, <2>3 DEF ViewOf, CurrentView
  <2>5. BalanceSeen(w)' = BalanceSeen(w)
    BY <1>1, <2>2, <2>4 DEF BalanceSeen
  <2>6. Total(w)' = Total(w)
    BY <1>1 DEF Total
  <2> QED
    BY <1>1, <1>3, <2>1, <2>3, <2>5, <2>6 DEF WorkBalanced
<1> QED
  BY <1>1, <1>2, <1>3, <1>4, QuietBalanced

(* The balance to store is computed from the balance that is read. *)
LEMMA GetBalanced ==
  ASSUME TypeInv, RowsInv, LocksInv, BalancedInv, NEW w \in Worker, GetUserBalance(w)
  PROVE  BalancedInv'
<1>1. /\ UNCHANGED <<userBalance, fiatLogCache, written, request, snapshot, split>>
      /\ pc[w] = "read" /\ pc'[w] \in {"create", "unlock"}
      /\ \A x \in Worker : x # w => pc'[x] = pc[x] /\ newBalance'[x] = newBalance[x]
      /\ pc'[w] = "create" => newBalance'[w] = BalanceSeen(w) + split[w].amount
  BY DEF GetUserBalance, Goto, database, TypeInv, TypeOK
<1>2. ASSUME Undisturbed(request[w].user) PROVE WorkBalanced(w)'
  <2>1. WorkBalanced(w)
    BY <1>1, <1>2 DEF BalancedInv
  <2>2. BalanceSeen(w)' = BalanceSeen(w)
    BY <1>1 DEF BalanceSeen, ViewOf, CurrentView
  <2>3. Total(w)' = Total(w)
    BY <1>1 DEF Total
  <2> QED
    BY <1>1, <2>1, <2>2, <2>3 DEF WorkBalanced
<1> QED
  BY <1>1, <1>2, QuietBalanced

(* The inserted row adds to the total what the balance will gain. *)
LEMMA CreateBalanced ==
  ASSUME TypeInv, RowsInv, RowsInv', LocksInv, BalancedInv, NEW w \in Worker,
         CreateFiatLogCache(w)
  PROVE  BalancedInv'
<1> DEFINE u == request[w].user
           n == NewRow(w)
<1>1. /\ UNCHANGED <<userBalance, request, snapshot, newBalance, split>>
      /\ pc[w] = "create" /\ pc' = [pc EXCEPT ![w] = "update"]
      /\ fiatLogCache' = IF request[w].inTx THEN fiatLogCache ELSE fiatLogCache \cup {n}
      /\ \A x \in Worker : x # w => written'[x] = written[x]
  BY DEF CreateFiatLogCache, Goto, local, TypeInv, TypeOK
<1>2. /\ written'[w].dirty = written[w].dirty /\ written'[w].balance = written[w].balance
      /\ written'[w].rows = IF request[w].inTx THEN written[w].rows \cup {n}
                                              ELSE written[w].rows
  BY CreateWrites
<1>3. \A x \in Worker : pc'[x] = IF x = w THEN "update" ELSE pc[x]
  BY <1>1 DEF TypeInv, TypeOK
<1>4. /\ n \in Row /\ n.id = lastId + 1 /\ n.user = u /\ n.amount = split[w].amount
      /\ u \in User /\ lastId \in Nat
  <2>1. Current(w) \in Call
    BY <1>1, CurrentIsCall
  <2>2. u \in User /\ lastId \in Nat
    BY DEF TypeInv, TypeOK, Request
  <2> QED
    BY <2>1, <2>2 DEF NewRow, Row, Call, TypeInv, TypeOK
<1>5. n \notin fiatLogCache /\ n \notin written[w].rows
  BY <1>4 DEF RowsInv
<1> HIDE DEF n
<1>6. ASSUME Undisturbed(u) PROVE WorkBalanced(w)'
  <2> DEFINE rows == RowsOf(fiatLogCache \cup written[w].rows, u)
  <2>1. WorkBalanced(w)
    BY <1>1, <1>6 DEF BalancedInv
  <2>2. newBalance[w] = BalanceSeen(w) + split[w].amount /\ BalanceSeen(w) = Total(w)
    BY <1>1, <1>6, <2>1, SeesTotal DEF WorkBalanced, Inside
  <2>3. RowsOf(fiatLogCache' \cup written'[w].rows, u) = rows \cup {n}
    BY <1>1, <1>2, <1>4 DEF RowsOf
  <2>4. rows \in SUBSET Row /\ IsFiniteSet(rows) /\ n \notin rows
    BY <1>5, TotalsTyped DEF RowsOf
  <2>5. SumPosted(rows \cup {n}) = SumPosted(rows) + n.amount /\ SumPosted(rows) \in Int
    <3> HIDE DEF rows
    <3> QED BY <1>4, <2>4, SumsOneMore
  <2>6. Total(w) = InitialBalance[u] + SumPosted(rows)
    BY DEF Total
  <2>7. Total(w)' = InitialBalance[u] + SumPosted(rows \cup {n})
    <3>1. Total(w)' = InitialBalance[request'[w].user]
                        + SumPosted(RowsOf(fiatLogCache' \cup written'[w].rows, request'[w].user))
      BY DEF Total
    <3>2. request'[w].user = u
      BY <1>1
    <3> QED
      BY <2>3, <3>1, <3>2
  <2>8. newBalance[w] = Total(w)'
    <3>1. InitialBalance[u] \in Int /\ split[w].amount \in Int
      BY <1>4, LedgerAssumption DEF TypeInv, TypeOK
    <3> HIDE DEF rows, u
    <3> QED
      BY <1>4, <2>2, <2>5, <2>6, <2>7, <3>1
  <2> QED
    BY <1>1, <1>3, <2>1, <2>8 DEF WorkBalanced
<1>7. \A v : v # u => RowsOf(fiatLogCache', v) = RowsOf(fiatLogCache, v)
  BY <1>1, <1>4 DEF RowsOf
<1>8. ASSUME NEW x \in Worker, x # w, pc'[x] # "idle", Undisturbed(request[x].user)
      PROVE  WorkBalanced(x)'
  <2>1. WorkBalanced(x) /\ pc[x] # "idle"
    BY <1>3, <1>8 DEF BalancedInv
  <2>2. CASE request[x].user # u
    BY <1>1, <1>3, <1>7, <1>8, <2>1, <2>2, WorkKept
  <2>3. CASE request[x].user = u
    <3>1. ~request[x].inTx /\ pc[x] \notin Inside
      BY <1>1, <1>8, <2>1, <2>3, OthersOutside DEF Inside
    <3> QED
      BY <1>1, <1>3, <1>8, <3>1, WorkOutside DEF Inside
  <2> QED
    BY <2>2, <2>3
<1>9. ASSUME NEW v \in User, Undisturbed(v), ~HalfWay(v)'
      PROVE  userBalance[v] = TotalOf(v)'
  <2>1. \A x \in Worker : ~(pc[x] = "update" /\ request[x].user = v /\ ~request[x].inTx)
    BY <1>1, <1>3, <1>9 DEF HalfWay
  <2>2. ~HalfWay(v)
    BY <2>1 DEF HalfWay
  <2>3. v # u \/ request[w].inTx
    BY <1>1, <1>3, <1>9 DEF HalfWay
  <2>4. RowsOf(fiatLogCache', v) = RowsOf(fiatLogCache, v)
    BY <1>1, <1>7, <2>3
  <2> QED
    BY <1>9, <2>2, <2>4 DEF BalancedInv, TotalOf
<1> QED
  BY <1>1, <1>6, <1>8, <1>9 DEF BalancedInv

(* The UPDATE stores the total. *)
LEMMA UpdateBalanced ==
  ASSUME TypeInv, RowsInv, RowsInv', LocksInv, BalancedInv, NEW w \in Worker,
         UpdateUserBalance(w)
  PROVE  BalancedInv'
<1> DEFINE u == request[w].user
<1>1. /\ UNCHANGED <<fiatLogCache, request, snapshot, newBalance, split>>
      /\ pc[w] = "update" /\ u \in User
      /\ \A x \in Worker : pc'[x] = IF x = w THEN "unlock" ELSE pc[x]
      /\ userBalance' = IF request[w].inTx THEN userBalance
                        ELSE [userBalance EXCEPT ![u] = newBalance[w]]
  BY DEF UpdateUserBalance, Goto, local, TypeInv, TypeOK, Request
<1>2. \A x \in Worker :
        /\ written'[x].rows = written[x].rows
        /\ IF x = w /\ request[w].inTx
           THEN written'[x].dirty /\ written'[x].balance = newBalance[w]
           ELSE written'[x] = written[x]
  BY UpdateWrites
<1>3. \A v \in User : v # u => userBalance'[v] = userBalance[v]
  BY <1>1 DEF TypeInv, TypeOK
<1>4. \A v \in User : request[w].inTx => userBalance'[v] = userBalance[v]
  BY <1>1
<1>5. ASSUME Undisturbed(u) PROVE WorkBalanced(w)'
  <2>1. WorkBalanced(w)
    BY <1>1, <1>5 DEF BalancedInv
  <2>2. newBalance[w] = Total(w)
    BY <1>1, <2>1 DEF WorkBalanced
  <2>3. CASE request[w].inTx
    <3>1. BalanceSeen(w)' = newBalance[w]
      BY <1>2, <2>3 DEF BalanceSeen
    <3>2. Total(w)' = Total(w)
      BY <1>1, <1>2 DEF Total
    <3> QED
      BY <1>1, <1>4, <2>1, <2>2, <2>3, <3>1, <3>2 DEF WorkBalanced
  <2>4. CASE ~request[w].inTx
    BY <1>1, <2>4, WorkOutside
  <2> QED
    BY <2>3, <2>4
<1>6. ASSUME NEW x \in Worker, x # w, pc'[x] # "idle", Undisturbed(request[x].user)
      PROVE  WorkBalanced(x)'
  <2>1. WorkBalanced(x) /\ pc[x] # "idle" /\ request[x].user \in User
    BY <1>1, <1>6 DEF BalancedInv, TypeInv, TypeOK, Request
  <2>2. CASE request[x].user # u
    BY <1>1, <1>2, <1>3, <1>6, <2>1, <2>2, WorkKept
  <2>3. CASE request[x].user = u
    <3>1. ~request[x].inTx /\ pc[x] \notin Inside
      BY <1>1, <1>6, <2>1, <2>3, OthersOutside DEF Inside
    <3> QED
      BY <1>1, <1>6, <3>1, WorkOutside DEF Inside
  <2> QED
    BY <2>2, <2>3
<1>7. ASSUME NEW v \in User, Undisturbed(v), ~HalfWay(v)'
      PROVE  userBalance'[v] = TotalOf(v)'
  <2>1. TotalOf(v)' = TotalOf(v)
    BY <1>1 DEF TotalOf
  <2>2. CASE v = u /\ ~request[w].inTx
    <3>1. newBalance[w] = Total(w)
      BY <1>1, <1>7, <2>2 DEF BalancedInv, WorkBalanced
    <3>2. fiatLogCache \cup written[w].rows = fiatLogCache
      BY <2>2 DEF RowsInv
    <3>3. Total(w) = TotalOf(v)
      BY <2>2, <3>2 DEF Total, TotalOf
    <3> QED
      BY <1>1, <2>1, <2>2, <3>1, <3>3 DEF TypeInv, TypeOK
  <2>3. CASE ~(v = u /\ ~request[w].inTx)
    <3>1. \A x \in Worker : ~(pc[x] = "update" /\ request[x].user = v /\ ~request[x].inTx)
      BY <1>1, <1>7, <2>3 DEF HalfWay
    <3>2. userBalance[v] = TotalOf(v)
      BY <1>7, <3>1 DEF HalfWay, BalancedInv
    <3> QED
      BY <1>3, <1>4, <2>1, <2>3, <3>2
  <2> QED
    BY <2>2, <2>3
<1> QED
  BY <1>1, <1>5, <1>6, <1>7 DEF BalancedInv

(* No lock wait times out for an undisturbed user: nobody else has its lock. *)
LEMMA NoTimeout ==
  ASSUME TypeInv, LocksInv, NEW w \in Worker, LockWaitTimeout(w)
  PROVE  ~Undisturbed(request[w].user)
<1> DEFINE u == request[w].user
<1>1. /\ pc[w] = "update" /\ u \in User /\ rowLock[u] \notin {NoWorker, w}
  BY DEF LockWaitTimeout, Goto, TypeInv, TypeOK, Request
<1>2. rowLock[u] \in Worker
  BY <1>1 DEF TypeInv, TypeOK
<1>3. /\ pc[rowLock[u]] # "idle" /\ request[rowLock[u]].user = u
      /\ request[rowLock[u]].inTx
  BY <1>1 DEF LocksInv
<1> QED
  BY <1>1, <1>2, <1>3, OthersOutside

LEMMA TimeoutBalanced ==
  ASSUME TypeInv, RowsInv, LocksInv, BalancedInv, NEW w \in Worker, LockWaitTimeout(w)
  PROVE  BalancedInv'
<1>1. /\ UNCHANGED <<userBalance, fiatLogCache, written, request, snapshot, split, newBalance>>
      /\ \A x \in Worker : x # w => pc'[x] = pc[x]
  BY DEF LockWaitTimeout, Goto, database, TypeInv, TypeOK
<1>2. ~Undisturbed(request[w].user)
  BY NoTimeout
<1>3. ASSUME NEW x \in Worker, pc'[x] # "idle", Undisturbed(request[x].user)
      PROVE  WorkBalanced(x)'
  <2>1. x # w
    BY <1>2, <1>3
  <2>2. WorkBalanced(x)
    BY <1>1, <1>3, <2>1 DEF BalancedInv
  <2> QED
    BY <1>1, <1>3, <2>1, <2>2, WorkKept
<1>4. ASSUME NEW v \in User, Undisturbed(v), ~HalfWay(v)'
      PROVE  userBalance[v] = TotalOf(v)
  <2>1. \A x \in Worker : ~(pc[x] = "update" /\ request[x].user = v /\ ~request[x].inTx)
    BY <1>1, <1>2, <1>4 DEF HalfWay
  <2> QED
    BY <1>4, <2>1 DEF HalfWay, BalancedInv
<1>5. \A v : TotalOf(v)' = TotalOf(v)
  BY <1>1 DEF TotalOf
<1> QED
  BY <1>1, <1>3, <1>4, <1>5 DEF BalancedInv

(* The release forgets the balance that was to be stored. *)
LEMMA UnlockBalanced ==
  ASSUME TypeInv, RowsInv, LocksInv, BalancedInv, NEW w \in Worker, UnlockBalanceMu(w)
  PROVE  BalancedInv'
<1>1. /\ UNCHANGED <<userBalance, fiatLogCache, written, request, snapshot>>
      /\ pc[w] = "unlock" /\ pc'[w] \in {"finish", "lock"}
      /\ \A x \in Worker : x # w => /\ pc'[x] = pc[x] /\ newBalance'[x] = newBalance[x]
                                    /\ split'[x] = split[x]
  BY DEF UnlockBalanceMu, Goto, database, TypeInv, TypeOK
<1>2. ASSUME Undisturbed(request[w].user) PROVE WorkBalanced(w)'
  <2>1. WorkBalanced(w)
    BY <1>1, <1>2 DEF BalancedInv
  <2>2. BalanceSeen(w)' = BalanceSeen(w)
    BY <1>1 DEF BalanceSeen, ViewOf, CurrentView
  <2>3. Total(w)' = Total(w)
    BY <1>1 DEF Total
  <2> QED
    BY <1>1, <2>1, <2>2, <2>3 DEF WorkBalanced
<1> QED
  BY <1>1, <1>2, QuietBalanced

(* A commit makes the total of the transaction the committed one. *)
LEMMA CommitBalanced ==
  ASSUME TypeInv, RowsInv, LocksInv, BalancedInv, NEW w \in Worker, Commit(w)
  PROVE  BalancedInv'
<1> DEFINE u == request[w].user
<1>1. /\ pc[w] = "finish" /\ u \in User
      /\ fiatLogCache' = fiatLogCache \cup written[w].rows
      /\ userBalance' = IF written[w].dirty
                        THEN [userBalance EXCEPT ![u] = written[w].balance]
                        ELSE userBalance
      /\ EndRequests({w})
  BY DEF Commit, TypeInv, TypeOK, Request
<1>2. /\ pc'[w] = "idle"
      /\ \A x \in Worker : x # w =>
           /\ pc'[x] = pc[x] /\ request'[x] = request[x] /\ snapshot'[x] = snapshot[x]
           /\ written'[x] = written[x] /\ newBalance'[x] = newBalance[x]
           /\ split'[x] = split[x]
  BY <1>1 DEF EndRequests
<1>3. \A r \in written[w].rows : r.user = u
  BY DEF RowsInv
<1>4. ASSUME NEW v \in User, v # u \/ ~request[w].inTx
      PROVE  /\ userBalance'[v] = userBalance[v]
             /\ RowsOf(fiatLogCache', v) = RowsOf(fiatLogCache, v)
  <2>1. ~request[w].inTx => written[w].rows = {} /\ ~written[w].dirty
    BY DEF RowsInv, LocksInv
  <2>2. userBalance'[v] = userBalance[v]
    BY <1>1, <1>4, <2>1 DEF TypeInv, TypeOK
  <2>3. RowsOf(fiatLogCache', v) = RowsOf(fiatLogCache, v)
    BY <1>1, <1>3, <1>4, <2>1 DEF RowsOf
  <2> QED
    BY <2>2, <2>3
<1>5. ASSUME NEW x \in Worker, pc'[x] # "idle", Undisturbed(request'[x].user)
      PROVE  WorkBalanced(x)'
  <2>1. x # w
    BY <1>2, <1>5
  <2>2. WorkBalanced(x) /\ pc[x] # "idle" /\ request[x].user \in User
    BY <1>2, <1>5, <2>1 DEF BalancedInv, TypeInv, TypeOK, Request
  <2>3. request[x].user # u \/ ~request[w].inTx
    BY <1>1, <1>2, <1>5, <2>1, <2>2, OthersOutside
  <2> QED
    BY <1>2, <1>4, <2>1, <2>2, <2>3, WorkKept
<1>6. ASSUME NEW v \in User, Undisturbed(v), ~HalfWay(v)'
      PROVE  userBalance'[v] = TotalOf(v)'
  <2>1. \A x \in Worker : ~(pc[x] = "update" /\ request[x].user = v /\ ~request[x].inTx)
    BY <1>1, <1>2, <1>6 DEF HalfWay
  <2>2. userBalance[v] = TotalOf(v)
    BY <1>6, <2>1 DEF HalfWay, BalancedInv
  <2>3. CASE v # u \/ ~request[w].inTx
    BY <1>4, <2>2, <2>3 DEF TotalOf
  <2>4. CASE v = u /\ request[w].inTx
    <3>1. WorkBalanced(w)
      BY <1>1, <1>6, <2>4 DEF BalancedInv
    <3>2. BalanceSeen(w) = Total(w)
      BY <1>1, <2>4, <3>1 DEF WorkBalanced
    <3>3. BalanceSeen(w) = userBalance'[u]
      <4>1. snapshot[w].open => snapshot[w].balance = userBalance[u]
        BY <3>1 DEF WorkBalanced
      <4>2. BalanceSeen(w) = IF written[w].dirty THEN written[w].balance ELSE userBalance[u]
        BY <1>1, <4>1, SeenCases
      <4> QED
        BY <1>1, <4>2 DEF TypeInv, TypeOK
    <3>4. Total(w) = TotalOf(v)'
      BY <1>1, <2>4 DEF Total, TotalOf
    <3> QED
      BY <2>4, <3>2, <3>3, <3>4
  <2> QED
    BY <2>3, <2>4
<1> QED
  BY <1>5, <1>6 DEF BalancedInv

(* Requests that end with nothing stored leave the committed totals. *)
LEMMA DropBalanced ==
  ASSUME TypeInv, RowsInv, LocksInv, BalancedInv, NEW ws \in SUBSET Worker,
         EndRequests(ws), UNCHANGED <<userBalance, fiatLogCache>>,
         \A x \in ws : pc[x] = "update" /\ ~request[x].inTx =>
           ~Undisturbed(request[x].user)
  PROVE  BalancedInv'
<1>1. \A x \in ws : pc'[x] = "idle"
  BY DEF EndRequests
<1>2. \A x \in Worker \ ws :
        /\ pc'[x] = pc[x] /\ request'[x] = request[x] /\ snapshot'[x] = snapshot[x]
        /\ written'[x] = written[x] /\ newBalance'[x] = newBalance[x]
        /\ split'[x] = split[x]
  BY DEF EndRequests
<1>3. ASSUME NEW x \in Worker, pc'[x] # "idle", Undisturbed(request'[x].user)
      PROVE  WorkBalanced(x)'
  <2>1. x \in Worker \ ws
    BY <1>1, <1>3
  <2>2. WorkBalanced(x)
    BY <1>2, <1>3, <2>1 DEF BalancedInv
  <2> QED
    BY <1>2, <2>1, <2>2, WorkKept
<1>4. ASSUME NEW v \in User, Undisturbed(v), ~HalfWay(v)'
      PROVE  userBalance[v] = TotalOf(v)
  <2>1. \A x \in Worker : ~(pc[x] = "update" /\ request[x].user = v /\ ~request[x].inTx)
    BY <1>2, <1>4 DEF HalfWay
  <2> QED
    BY <1>4, <2>1 DEF HalfWay, BalancedInv
<1>5. \A v : TotalOf(v)' = TotalOf(v)
  BY DEF TotalOf
<1> QED
  BY <1>3, <1>4, <1>5 DEF BalancedInv

LEMMA CrashBalanced ==
  ASSUME TypeInv, RowsInv, LocksInv, BalancedInv, NEW o \in OSProcess, Crash(o)
  PROVE  BalancedInv'
<1> DEFINE ws == {w \in Worker : ProcessOf[w] = o}
<1>1. EndRequests(ws) /\ UNCHANGED <<userBalance, fiatLogCache>> /\ o \in Mortal
  BY DEF Crash
<1>2. ASSUME NEW x \in ws, pc[x] = "update", ~request[x].inTx, Undisturbed(request[x].user)
      PROVE  FALSE
  <2>1. request[x] \in Requests[x]
    BY <1>2 DEF TypeInv, Engaged
  <2>2. ~OneTransaction(request[x].user)
    BY <1>2, <2>1 DEF OneTransaction
  <2>3. ProcessOf[x] \notin Mortal
    BY <1>2, <2>1, <2>2 DEF Undisturbed, BareStatements
  <2> QED
    BY <1>1, <2>3
<1> HIDE DEF ws
<1> QED
  BY <1>1, <1>2, DropBalanced DEF ws

(* Every step keeps the undisturbed users balanced. *)
LEMMA NextBalanced ==
  ASSUME TypeInv, RowsInv, RowsInv', LocksInv, BalancedInv, [Next]_vars
  PROVE  BalancedInv'
<1>1. ASSUME NEW w \in Worker, Start(w) PROVE BalancedInv'
  BY <1>1, StartBalanced
<1>2. ASSUME NEW w \in Worker, LockBalanceMu(w) PROVE BalancedInv'
  <2>1. /\ UNCHANGED <<userBalance, fiatLogCache, written, newBalance, split, request, snapshot>>
        /\ pc[w] = "lock" /\ pc'[w] = "find" /\ \A x \in Worker : x # w => pc'[x] = pc[x]
    BY <1>2 DEF LockBalanceMu, Goto, database, local, TypeInv, TypeOK
  <2>2. ASSUME Undisturbed(request[w].user) PROVE WorkBalanced(w)'
    <3>1. WorkBalanced(w)
      BY <2>1, <2>2 DEF BalancedInv
    <3>2. BalanceSeen(w)' = BalanceSeen(w) /\ Total(w)' = Total(w)
      BY <2>1 DEF BalanceSeen, ViewOf, CurrentView, Total
    <3> QED
      BY <2>1, <3>1, <3>2 DEF WorkBalanced
  <2> QED
    BY <2>1, <2>2, QuietBalanced
<1>3. ASSUME NEW w \in Worker, FindLastFiatLogCache(w) PROVE BalancedInv'
  BY <1>3, FindBalanced
<1>4. ASSUME NEW w \in Worker, GetUserBalance(w) PROVE BalancedInv'
  BY <1>4, GetBalanced
<1>5. ASSUME NEW w \in Worker, CreateFiatLogCache(w) PROVE BalancedInv'
  BY <1>5, CreateBalanced
<1>6. ASSUME NEW w \in Worker, UpdateUserBalance(w) PROVE BalancedInv'
  BY <1>6, UpdateBalanced
<1>7. ASSUME NEW w \in Worker, LockWaitTimeout(w) PROVE BalancedInv'
  BY <1>7, TimeoutBalanced
<1>8. ASSUME NEW w \in Worker, UnlockBalanceMu(w) PROVE BalancedInv'
  BY <1>8, UnlockBalanced
<1>9. ASSUME NEW w \in Worker, Commit(w) PROVE BalancedInv'
  BY <1>9, CommitBalanced
<1>10. ASSUME NEW w \in Worker, Rollback(w) PROVE BalancedInv'
  BY <1>10, DropBalanced DEF Rollback
<1>11. ASSUME NEW o \in OSProcess, Crash(o) PROVE BalancedInv'
  BY <1>11, CrashBalanced
<1>12. CASE UNCHANGED vars
  <2>1. \A x \in Worker : BalanceSeen(x)' = BalanceSeen(x) /\ Total(x)' = Total(x)
    BY <1>12 DEF vars, database, local, BalanceSeen, ViewOf, CurrentView, Total
  <2>2. \A v : TotalOf(v)' = TotalOf(v) /\ (HalfWay(v)' <=> HalfWay(v))
    BY <1>12 DEF vars, database, local, TotalOf, HalfWay
  <2>3. UNCHANGED <<pc, request, userBalance, snapshot, newBalance, split>>
    BY <1>12 DEF vars, database, local
  <2> QED
    BY <2>1, <2>2, <2>3 DEF BalancedInv, WorkBalanced
<1> QED
  BY <1>1, <1>2, <1>3, <1>4, <1>5, <1>6, <1>7, <1>8, <1>9, <1>10, <1>11, <1>12
  DEF Next, Proceed, Quiescent

LEMMA InitBalanced == Init => LocksInv /\ BalancedInv
<1> SUFFICES ASSUME Init PROVE LocksInv /\ BalancedInv
  OBVIOUS
<1>1. /\ fiatLogCache = {} /\ userBalance = InitialBalance
      /\ \A w \in Worker : pc[w] = "idle" /\ ~written[w].dirty
      /\ \A u \in User : rowLock[u] = NoWorker
  BY DEF Init, Clean
<1>2. LocksInv
  BY <1>1 DEF LocksInv, Inside
<1>3. \A u \in User : userBalance[u] = TotalOf(u)
  <2>1. \A u \in User : RowsOf(fiatLogCache, u) = {} /\ InitialBalance[u] \in Int
    BY <1>1, LedgerAssumption DEF RowsOf
  <2>2. \A u \in User : SumPosted(RowsOf(fiatLogCache, u)) = 0
    BY <2>1, SumsEmpty
  <2>3. \A u \in User : TotalOf(u) = InitialBalance[u]
    BY <2>1, <2>2 DEF TotalOf
  <2> QED
    BY <1>1, <2>3
<1> QED
  BY <1>1, <1>2, <1>3 DEF BalancedInv

(* user_balance.go:15 "实时余额": when the postings to a user do not overlap, as
   a transaction of one worker or as bare statements under one mutex, then
   whenever nobody works for the user its balance is the initial one plus
   everything logged. *)
THEOREM BalancesAddUp ==
  ASSUME \A u \in User : Undisturbed(u)
  PROVE  Spec => []LedgerBalanced
<1> DEFINE AllInv == TypeInv /\ FractionsInv /\ LocksInv /\ BalancedInv
<1>1. Init => AllInv
  BY InitTypeInv, InitFractions, InitBalanced
<1>2. AllInv /\ [Next]_vars => AllInv'
  <2> SUFFICES ASSUME AllInv, [Next]_vars PROVE AllInv'
    OBVIOUS
  <2>1. TypeInv' /\ FractionsInv' /\ LocksInv'
    BY NextTypeInv, NextFractions, NextLocks
  <2>2. BalancedInv'
    BY <2>1, NextBalanced DEF FractionsInv
  <2> QED
    BY <2>1, <2>2
<1>3. AllInv => LedgerBalanced
  <2> SUFFICES ASSUME AllInv, NEW u \in User, Resting(u)
               PROVE  userBalance[u] = InitialBalance[u] + SumPosted(RowsOf(fiatLogCache, u))
    BY DEF LedgerBalanced
  <2>1. ~HalfWay(u)
    BY DEF HalfWay, Resting, Idle
  <2> QED
    BY <2>1 DEF BalancedInv, TotalOf
<1> HIDE DEF AllInv
<1> QED
  BY <1>1, <1>2, <1>3, PTL DEF Spec
-----------------------------------------------------------------------------
(* The pages of the book, as AccountBook makes them. *)
Page == [ok : BOOLEAN, account : Int, fraction : [LogType -> Int]]
PageOf(balance, fraction) == [ok |-> TRUE, account |-> balance, fraction |-> fraction]

(* Page p is what the first k calls make of page base. *)
Reached(base, calls, arrears, k, p) ==
  \E g \in [0 .. k -> Page] :
    /\ g[0] = base /\ g[k] = p
    /\ \A n \in 1 .. k : g[n] = Book!PostOne(g[n - 1], calls[n], arrears)

(* A call makes a page of a page. *)
LEMMA PostOneTyped ==
  ASSUME NEW p \in Page, NEW call \in Call, NEW arrears \in Int
  PROVE  Book!PostOne(p, call, arrears) \in Page
<1> DEFINE raw == call.amount + p.fraction[call.type]
<1>1. raw \in Int
  BY DEF Call, Page
<1>2. Book!CalcLeftover(raw) = CalcLeftover(raw)
  BY DEF Book!CalcLeftover, CalcLeftover, Book!WholeFen, WholeFen, Book!ModFen, ModFen
<1>3. Book!CalcLeftover(raw) \in [amount : Int, leftover : Int]
  BY <1>1, <1>2, CalcLeftoverSplits
<1> HIDE DEF raw
<1>4. /\ p.account + Book!CalcLeftover(raw).amount \in Int
      /\ [p.fraction EXCEPT ![call.type] = Book!CalcLeftover(raw).leftover] \in [LogType -> Int]
      /\ p.ok \in BOOLEAN
  BY <1>3 DEF Page, Call
<1> QED
  BY <1>4 DEF Book!PostOne, Page, raw

(* No call keeps the page; one more call goes on from there. *)
LEMMA ReachedFirst ==
  ASSUME NEW base \in Page, NEW calls, NEW arrears
  PROVE  Reached(base, calls, arrears, 0, base)
<1> DEFINE g == [n \in 0 .. 0 |-> base]
<1>1. g \in [0 .. 0 -> Page] /\ g[0] = base /\ \A n \in 1 .. 0 : FALSE
  OBVIOUS
<1> QED
  BY <1>1 DEF Reached

LEMMA ReachedNext ==
  ASSUME NEW base, NEW calls, NEW arrears \in Int, NEW k \in Nat, NEW p,
         Reached(base, calls, arrears, k, p), calls[k + 1] \in Call
  PROVE  Reached(base, calls, arrears, k + 1, Book!PostOne(p, calls[k + 1], arrears))
<1> DEFINE q == Book!PostOne(p, calls[k + 1], arrears)
<1>1. PICK g \in [0 .. k -> Page] :
        /\ g[0] = base /\ g[k] = p
        /\ \A n \in 1 .. k : g[n] = Book!PostOne(g[n - 1], calls[n], arrears)
  BY DEF Reached
<1>2. p \in Page
  BY <1>1
<1>3. q \in Page
  BY <1>2, PostOneTyped
<1> HIDE DEF q
<1> DEFINE h == [n \in 0 .. (k + 1) |-> IF n = k + 1 THEN q ELSE g[n]]
<1>4. h \in [0 .. (k + 1) -> Page] /\ h[0] = base /\ h[k + 1] = q
  BY <1>1, <1>3
<1>5. ASSUME NEW n \in 1 .. (k + 1)
      PROVE  h[n] = Book!PostOne(h[n - 1], calls[n], arrears)
  <2>1. h[n - 1] = g[n - 1] /\ n - 1 \in 0 .. k
    OBVIOUS
  <2>2. CASE n = k + 1
    <3>1. h[n - 1] = p /\ h[n] = q /\ calls[n] = calls[k + 1]
      BY <1>1, <2>1, <2>2
    <3> HIDE DEF h
    <3> QED
      BY <3>1 DEF q
  <2>3. CASE n # k + 1
    <3>1. n \in 1 .. k /\ h[n] = g[n]
      BY <2>3
    <3> HIDE DEF h
    <3> QED
      BY <1>1, <2>1, <3>1
  <2> QED
    BY <2>2, <2>3
<1> HIDE DEF h
<1> QED
  BY <1>4, <1>5 DEF Reached, q

(* The recursion of the book reaches the same page. *)
LEMMA ReachedIsPage ==
  ASSUME NEW u, NEW calls, Len(calls) \in Nat, NEW p,
         Reached(PageOf(userBalance[u], [t \in LogType |-> FractionOf(u, t)]),
                 calls, Arrears[u], Len(calls), p),
         u \in User
  PROVE  Book!PageAfter(u, calls) = p
<1> DEFINE base == PageOf(userBalance[u], [t \in LogType |-> FractionOf(u, t)])
           N == Len(calls)
           PageStep(g, n) == IF n = 0 THEN base ELSE Book!PostOne(g[n - 1], calls[n], Arrears[u])
           IsPages(g) == g = [n \in 0 .. N |-> PageStep(g, n)]
<1>1. PICK g \in [0 .. N -> Page] :
        /\ g[0] = base /\ g[N] = p
        /\ \A n \in 1 .. N : g[n] = Book!PostOne(g[n - 1], calls[n], Arrears[u])
  BY DEF Reached
<1>2. IsPages(g)
  BY <1>1
<1> DEFINE h == CHOOSE h : IsPages(h)
<1>3. Book!Pages(u, calls) = h
  BY DEF Book!Pages, PageOf
<1>4. IsPages(h)
  <2> HIDE DEF IsPages
  <2> QED BY <1>2
<1> HIDE DEF h
<1>5. \A n \in 0 .. N : h[n] = g[n]
  <2> DEFINE T == {n \in 0 .. N : h[n] # g[n]}
  <2>1. SUFFICES ASSUME T # {} PROVE FALSE
    OBVIOUS
  <2>2. T \subseteq Nat
    OBVIOUS
  <2>3. PICK m \in T : \A n \in T : m <= n
    <3> HIDE DEF T
    <3> QED BY <2>1, <2>2, LeastNumber
  <2>4. m \in 0 .. N /\ h[m] # g[m]
    BY <2>3
  <2>5. h[m] = PageStep(h, m) /\ g[m] = PageStep(g, m)
    BY <1>2, <1>4, <2>4
  <2>6. m # 0
    BY <2>4, <2>5
  <2>7. m - 1 \in 0 .. N /\ m - 1 \notin T
    BY <2>3, <2>4, <2>6
  <2>8. h[m - 1] = g[m - 1]
    BY <2>7
  <2> HIDE DEF T
  <2> QED
    BY <2>4, <2>5, <2>6, <2>8
<1> QED
  BY <1>1, <1>3, <1>5 DEF Book!PageAfter

(* Ids are given once. *)
IdsInv ==
  \A w, x \in Worker :
    \A r \in fiatLogCache \cup written[w].rows, q \in fiatLogCache \cup written[x].rows :
      r.id = q.id => r = q

(* A failed request only has its ends left; one at its end is done or failed. *)
FailedInv ==
  \A w \in Worker :
    /\ failed[w] => pc[w] \in {"unlock", "finish"}
    /\ pc[w] = "finish" => failed[w] \/ posted[w] + 1 = Len(request[w].calls)

(* The page of a user that is committed, and what a worker makes of it. *)
CommittedPage(u) == PageOf(userBalance[u], [t \in LogType |-> FractionOf(u, t)])
Kept(w) == IF written[w].dirty THEN written[w].balance ELSE userBalance[request[w].user]
PendingFractions(w) ==
  [t \in LogType |-> LastUnsettle(Pending(w, request[w].user, t))]

ReachedBy(w, k, balance) ==
  Reached(CommittedPage(request[w].user), request[w].calls, Arrears[request[w].user],
          k, PageOf(balance, PendingFractions(w)))

Sufficient(w) ==
  Current(w).check => Kept(w) + Arrears[request[w].user] + split[w].amount >= 0

(* A transaction that has made k calls has reached the page that the book has
   after k calls; the row of a bare statement is the last of its user. *)
WorkPaged(w) ==
  LET u == request[w].user
      t == Current(w).type
  IN
  /\ snapshot[w].open => snapshot[w].rows = RowsOf(fiatLogCache, u)
  /\ pc[w] \in {"read", "create"} =>
       split[w] = CalcLeftover(Current(w).amount + PendingFractions(w)[t])
  /\ pc[w] = "create" => Sufficient(w) /\ newBalance[w] = Kept(w) + split[w].amount
  /\ request[w].inTx =>
       /\ pc[w] \in {"lock", "find", "read", "create"} => ReachedBy(w, posted[w], Kept(w))
       /\ pc[w] = "update" => ReachedBy(w, posted[w] + 1, newBalance[w])
       /\ pc[w] \in {"unlock", "finish"} /\ ~failed[w] => ReachedBy(w, posted[w] + 1, Kept(w))
  /\ pc[w] = "update" /\ ~request[w].inTx =>
       /\ \E r \in fiatLogCache :
            /\ r.user = u /\ r.type = t /\ r.unsettle = split[w].leftover
            /\ \A q \in RowsOf(fiatLogCache, u) : q.id <= r.id
       /\ split[w] = CalcLeftover(Current(w).amount + FractionOf(u, t))
       /\ Sufficient(w) /\ newBalance[w] = Kept(w) + split[w].amount

PagesInv ==
  \A w \in Worker : pc[w] # "idle" /\ Undisturbed(request[w].user) => WorkPaged(w)

(* A new row has an id that no row has. *)
LEMMA CreateIds ==
  ASSUME TypeInv, RowsInv, IdsInv, NEW w \in Worker, CreateFiatLogCache(w)
  PROVE  IdsInv'
<1> DEFINE n == NewRow(w)
<1>1. /\ fiatLogCache' \subseteq fiatLogCache \cup {n}
      /\ \A x \in Worker : written'[x].rows \subseteq written[x].rows \cup {n}
  BY CreateWrites DEF CreateFiatLogCache
<1>2. n.id = lastId + 1 /\ lastId \in Nat
  BY DEF NewRow, TypeInv, TypeOK
<1>3. /\ \A r \in fiatLogCache : r.id # n.id
      /\ \A x \in Worker : \A r \in written[x].rows : r.id # n.id
  <2>1. /\ \A r \in fiatLogCache : r.id \in Nat /\ r.id <= lastId
        /\ \A x \in Worker : \A r \in written[x].rows : r.id \in Nat /\ r.id <= lastId
    BY DEF TypeInv, TypeOK, Row, RowsInv
  <2> HIDE DEF n
  <2> QED
    BY <1>2, <2>1
<1> HIDE DEF n
<1> SUFFICES ASSUME NEW x \in Worker, NEW y \in Worker,
                    NEW r \in fiatLogCache' \cup written'[x].rows,
                    NEW q \in fiatLogCache' \cup written'[y].rows, r.id = q.id
             PROVE  r = q
  BY DEF IdsInv
<1>4. /\ r \in fiatLogCache \cup written[x].rows \/ r = n
      /\ q \in fiatLogCache \cup written[y].rows \/ q = n
  BY <1>1
<1> QED
  BY <1>3, <1>4 DEF IdsInv

(* A step that adds no row gives no id. *)
LEMMA KeptIds ==
  ASSUME IdsInv,
         \E w \in Worker : fiatLogCache' \subseteq fiatLogCache \cup written[w].rows,
         \A x \in Worker : written'[x].rows \subseteq written[x].rows
  PROVE  IdsInv'
<1>1. PICK w \in Worker : fiatLogCache' \subseteq fiatLogCache \cup written[w].rows
  OBVIOUS
<1> SUFFICES ASSUME NEW x \in Worker, NEW y \in Worker,
                    NEW r \in fiatLogCache' \cup written'[x].rows,
                    NEW q \in fiatLogCache' \cup written'[y].rows, r.id = q.id
             PROVE  r = q
  BY DEF IdsInv
<1>2. /\ r \in fiatLogCache \cup written[w].rows \/ r \in fiatLogCache \cup written[x].rows
      /\ q \in fiatLogCache \cup written[w].rows \/ q \in fiatLogCache \cup written[y].rows
  BY <1>1
<1> QED
  BY <1>2 DEF IdsInv

LEMMA NextIds ==
  ASSUME TypeInv, RowsInv, IdsInv, [Next]_vars
  PROVE  IdsInv'
<1>1. ASSUME NEW w \in Worker, CreateFiatLogCache(w) PROVE IdsInv'
  BY <1>1, CreateIds
<1>2. ASSUME NEW w \in Worker, UpdateUserBalance(w) PROVE IdsInv'
  <2>1. UNCHANGED fiatLogCache /\ \A x \in Worker : written'[x].rows = written[x].rows
    BY <1>2, UpdateWrites DEF UpdateUserBalance
  <2> QED
    BY <1>2, <2>1, KeptIds
<1>3. ASSUME NEW w \in Worker,
             \/ Start(w) \/ LockBalanceMu(w) \/ FindLastFiatLogCache(w)
             \/ GetUserBalance(w) \/ LockWaitTimeout(w) \/ UnlockBalanceMu(w)
      PROVE  IdsInv'
  <2>1. UNCHANGED <<fiatLogCache, written>>
    BY <1>3 DEF Start, LockBalanceMu, FindLastFiatLogCache, GetUserBalance,
                LockWaitTimeout, UnlockBalanceMu, database, local
  <2> QED
    BY <2>1 DEF IdsInv
<1>4. ASSUME NEW ws \in SUBSET Worker, EndRequests(ws)
      PROVE  \A x \in Worker : written'[x].rows \subseteq written[x].rows
  BY <1>4 DEF EndRequests, Clean
<1>5. ASSUME NEW w \in Worker, Commit(w) \/ Rollback(w) PROVE IdsInv'
  <2>1. EndRequests({w}) /\ fiatLogCache' \subseteq fiatLogCache \cup written[w].rows
    BY <1>5 DEF Commit, Rollback
  <2> QED
    BY <1>4, <2>1, KeptIds
<1>6. ASSUME NEW o \in OSProcess, Crash(o) PROVE IdsInv'
  <2>1. /\ EndRequests({w \in Worker : ProcessOf[w] = o}) /\ UNCHANGED fiatLogCache
        /\ \E w \in Worker : ProcessOf[w] = o
    BY <1>6 DEF Crash
  <2>2. \A x \in Worker : written'[x].rows \subseteq written[x].rows
    BY <1>4, <2>1
  <2> QED
    BY <2>1, <2>2, KeptIds
<1>7. CASE UNCHANGED vars
  BY <1>7 DEF IdsInv, vars, database, local
<1> QED
  BY <1>1, <1>2, <1>3, <1>5, <1>6, <1>7 DEF Next, Proceed, Quiescent

(* Failure ends a request. *)
LEMMA NextFailed ==
  ASSUME TypeInv, FailedInv, [Next]_vars
  PROVE  FailedInv'
<1>1. ASSUME NEW w \in Worker,
             NEW next \in {"lock", "find", "read", "create", "update", "unlock"},
             pc' = [pc EXCEPT ![w] = next], pc[w] # "unlock", pc[w] # "finish",
             UNCHANGED posted, \A x \in Worker : x # w => request'[x] = request[x],
             \A x \in Worker : x # w => failed'[x] = failed[x],
             failed'[w] => failed[w] \/ next = "unlock"
      PROVE  FailedInv'
  <2>1. \A x \in Worker : pc'[x] = IF x = w THEN next ELSE pc[x]
    BY <1>1 DEF TypeInv, TypeOK
  <2> QED
    BY <1>1, <2>1 DEF FailedInv
<1>2. ASSUME NEW w \in Worker, Start(w) PROVE FailedInv'
  <2>1. \A x \in Worker : x # w => request'[x] = request[x]
    BY <1>2 DEF Start, TypeInv, TypeOK
  <2> QED
    BY <1>1, <1>2, <2>1 DEF Start, Goto
<1>3. ASSUME NEW w \in Worker, LockBalanceMu(w) PROVE FailedInv'
  BY <1>1, <1>3 DEF LockBalanceMu, Goto, local
<1>4. ASSUME NEW w \in Worker, FindLastFiatLogCache(w) PROVE FailedInv'
  BY <1>1, <1>4 DEF FindLastFiatLogCache, Goto
<1>5. ASSUME NEW w \in Worker, GetUserBalance(w) PROVE FailedInv'
  <2>1. CASE pc' = [pc EXCEPT ![w] = "create"] /\ UNCHANGED failed
    BY <1>1, <1>5, <2>1 DEF GetUserBalance
  <2>2. CASE pc' = [pc EXCEPT ![w] = "unlock"] /\ failed' = [failed EXCEPT ![w] = TRUE]
    <3>1. \A x \in Worker : x # w => failed'[x] = failed[x]
      BY <2>2 DEF TypeInv, TypeOK
    <3> QED
      BY <1>1, <1>5, <2>2, <3>1 DEF GetUserBalance
  <2> QED
    BY <1>5, <2>1, <2>2 DEF GetUserBalance, Goto
<1>6. ASSUME NEW w \in Worker, CreateFiatLogCache(w) PROVE FailedInv'
  BY <1>1, <1>6 DEF CreateFiatLogCache, Goto, local
<1>7. ASSUME NEW w \in Worker, UpdateUserBalance(w) PROVE FailedInv'
  BY <1>1, <1>7 DEF UpdateUserBalance, Goto, local
<1>8. ASSUME NEW w \in Worker, LockWaitTimeout(w) PROVE FailedInv'
  <2>1. \A x \in Worker : x # w => failed'[x] = failed[x]
    BY <1>8 DEF LockWaitTimeout, TypeInv, TypeOK
  <2> QED
    BY <1>1, <1>8, <2>1 DEF LockWaitTimeout, Goto
<1>9. ASSUME NEW w \in Worker, UnlockBalanceMu(w) PROVE FailedInv'
  <2> DEFINE last == failed[w] \/ posted[w] + 1 = Len(request[w].calls)
  <2>1. /\ UNCHANGED <<failed, request>> /\ pc[w] = "unlock"
        /\ pc'[w] = IF last THEN "finish" ELSE "lock"
        /\ posted'[w] = IF last THEN posted[w] ELSE posted[w] + 1
        /\ \A x \in Worker : x # w => pc'[x] = pc[x] /\ posted'[x] = posted[x]
    BY <1>9 DEF UnlockBalanceMu, Goto, TypeInv, TypeOK
  <2> QED
    BY <2>1 DEF FailedInv
<1>10. ASSUME NEW ws \in SUBSET Worker, EndRequests(ws) PROVE FailedInv'
  <2>1. \A x \in ws : pc'[x] = "idle" /\ ~failed'[x]
    BY <1>10 DEF EndRequests
  <2>2. \A x \in Worker \ ws : /\ pc'[x] = pc[x] /\ posted'[x] = posted[x]
                               /\ request'[x] = request[x]
    BY <1>10 DEF EndRequests
  <2>3. \A x \in Worker \ ws : failed'[x] = failed[x]
    BY <1>10, Zenon DEF EndRequests
  <2> QED
    BY <2>1, <2>2, <2>3 DEF FailedInv
<1>11. ASSUME NEW w \in Worker, Commit(w) \/ Rollback(w) PROVE FailedInv'
  BY <1>10, <1>11 DEF Commit, Rollback
<1>12. ASSUME NEW o \in OSProcess, Crash(o) PROVE FailedInv'
  <2>1. EndRequests({w \in Worker : ProcessOf[w] = o})
    BY <1>12 DEF Crash
  <2> QED
    BY <1>10, <2>1
<1>13. CASE UNCHANGED vars
  BY <1>13 DEF FailedInv, vars, local
<1> QED
  BY <1>2, <1>3, <1>4, <1>5, <1>6, <1>7, <1>8, <1>9, <1>11, <1>12, <1>13
  DEF Next, Proceed, Quiescent

(* The last of some rows: there is one, and only one. *)
LEMMA LastExists ==
  ASSUME NEW rows \in SUBSET Row, rows # {}, NEW bound \in Nat,
         \A r \in rows : r.id <= bound
  PROVE  \E last \in rows : \A r \in rows : r.id <= last.id
<1> DEFINE T == {bound - r.id : r \in rows}
<1>1. \A r \in rows : r.id \in Nat /\ bound - r.id \in Nat
  BY DEF Row
<1>2. T \subseteq Nat /\ T # {}
  BY <1>1
<1>3. PICK m \in T : \A n \in T : m <= n
  <2> HIDE DEF T
  <2> QED BY <1>2, LeastNumber
<1>4. PICK last \in rows : m = bound - last.id
  BY <1>3
<1>5. \A r \in rows : bound - last.id <= bound - r.id
  BY <1>3, <1>4
<1> QED
  BY <1>1, <1>5

LEMMA LastIs ==
  ASSUME NEW rows \in SUBSET Row, \A r, q \in rows : r.id = q.id => r = q,
         NEW last \in rows, \A r \in rows : r.id <= last.id
  PROVE  LastUnsettle(rows) = last.unsettle
<1> DEFINE chosen == CHOOSE r \in rows : \A q \in rows : q.id <= r.id
<1>1. chosen \in rows /\ \A q \in rows : q.id <= chosen.id
  OBVIOUS
<1>2. chosen.id \in Nat /\ last.id \in Nat
  BY <1>1 DEF Row
<1> HIDE DEF chosen
<1>3. chosen.id <= last.id /\ last.id <= chosen.id
  BY <1>1
<1>4. chosen = last
  BY <1>1, <1>2, <1>3
<1> QED
  BY <1>4 DEF LastUnsettle, chosen

LEMMA LastTyped ==
  ASSUME NEW rows \in SUBSET Row, NEW bound \in Nat, \A r \in rows : r.id <= bound
  PROVE  LastUnsettle(rows) \in Int
<1>1. CASE rows = {}
  BY <1>1 DEF LastUnsettle
<1>2. CASE rows # {}
  <2> DEFINE chosen == CHOOSE r \in rows : \A q \in rows : q.id <= r.id
  <2>1. chosen \in rows
    BY <1>2, LastExists
  <2> HIDE DEF chosen
  <2>2. chosen.unsettle \in Int
    BY <2>1 DEF Row
  <2> QED
    BY <1>2, <2>2 DEF LastUnsettle, chosen
<1> QED
  BY <1>1, <1>2

(* Which rows count as half posted. *)
LEMMA NoneHalfPosted ==
  ASSUME NEW u, ~HalfWay(u), NEW t
  PROVE  FractionOf(u, t) = LastUnsettle(OfType(fiatLogCache, u, t))
<1>1. {r \in fiatLogCache \ HalfPosted : r.user = u /\ r.type = t} = OfType(fiatLogCache, u, t)
  BY DEF HalfWay, HalfPosted, OfType
<1> QED
  BY <1>1 DEF FractionOf

(* Worker x is the half way statement of user u. *)
HalfWayBy(x, u) == pc[x] = "update" /\ request[x].user = u /\ ~request[x].inTx

(* The committed fractions of a user, unless its rows or its half way
   statements change. *)
LEMMA FractionsKept ==
  ASSUME NEW u, RowsOf(fiatLogCache', u) = RowsOf(fiatLogCache, u),
         \A x \in Worker : HalfWayBy(x, u)' <=> HalfWayBy(x, u),
         \A x \in Worker : HalfWayBy(x, u) => Current(x)' = Current(x)
  PROVE  \A t : FractionOf(u, t)' = FractionOf(u, t)
<1>1. ASSUME NEW r, r.user = u
      PROVE  r \in fiatLogCache' <=> r \in fiatLogCache
  BY <1>1 DEF RowsOf
<1>2. ASSUME NEW r \in fiatLogCache, r.user = u
      PROVE  r \in HalfPosted <=>
               \E x \in Worker : /\ HalfWayBy(x, u) /\ r.type = Current(x).type
                                 /\ \A q \in RowsOf(fiatLogCache, u) : q.id <= r.id
  BY <1>2 DEF HalfPosted, HalfWayBy, RowsOf
<1>3. ASSUME NEW r \in fiatLogCache', r.user = u
      PROVE  r \in HalfPosted' <=>
               \E x \in Worker : /\ HalfWayBy(x, u)' /\ r.type = Current(x)'.type
                                 /\ \A q \in RowsOf(fiatLogCache', u) : q.id <= r.id
  <2>1. HalfPosted' = {s \in fiatLogCache' : \E x \in Worker :
                         /\ HalfWayBy(x, s.user)' /\ s.type = Current(x)'.type
                         /\ \A q \in fiatLogCache' : q.user = s.user => q.id <= s.id}
    BY DEF HalfPosted, HalfWayBy
  <2> QED
    BY <1>3, <2>1 DEF RowsOf, HalfWayBy
<1>4. ASSUME NEW r, r.user = u, r \in fiatLogCache
      PROVE  r \in HalfPosted' <=> r \in HalfPosted
  <2>1. r \in fiatLogCache'
    BY <1>1, <1>4
  <2>2. r \in HalfPosted <=>
          \E x \in Worker : /\ HalfWayBy(x, u) /\ r.type = Current(x).type
                            /\ \A q \in RowsOf(fiatLogCache, u) : q.id <= r.id
    BY <1>2, <1>4
  <2>3. r \in HalfPosted' <=>
          \E x \in Worker : /\ HalfWayBy(x, u)' /\ r.type = Current(x)'.type
                            /\ \A q \in RowsOf(fiatLogCache', u) : q.id <= r.id
    BY <1>3, <1>4, <2>1
  <2> QED
    BY <2>2, <2>3
<1>5. ASSUME NEW t
      PROVE  {r \in fiatLogCache' \ HalfPosted' : r.user = u /\ r.type = t}
               = {r \in fiatLogCache \ HalfPosted : r.user = u /\ r.type = t}
  BY <1>1, <1>4
<1>6. ASSUME NEW t PROVE FractionOf(u, t)' = FractionOf(u, t)
  <2>1. FractionOf(u, t)' = LastUnsettle({r \in fiatLogCache' \ HalfPosted' : r.user = u /\ r.type = t})
    BY DEF FractionOf
  <2> QED
    BY <1>5, <2>1 DEF FractionOf
<1> QED
  BY <1>6

(* The page that a worker has reached, unless its rows or its user change. *)
LEMMA ReachedKept ==
  ASSUME NEW x \in Worker, request'[x] = request[x],
         userBalance'[request[x].user] = userBalance[request[x].user],
         \A t \in LogType : FractionOf(request[x].user, t)' = FractionOf(request[x].user, t),
         PendingFractions(x)' = PendingFractions(x)
  PROVE  \A k, b : ReachedBy(x, k, b)' <=> ReachedBy(x, k, b)
<1> DEFINE fractions == [t \in LogType |-> FractionOf(request[x].user, t)]
<1>1. [t \in LogType |-> FractionOf(request[x].user, t)'] = fractions
  OBVIOUS
<1>2. CommittedPage(request[x].user) = PageOf(userBalance[request[x].user], fractions)
  BY DEF CommittedPage
<1>3. CommittedPage(request[x].user)'
        = PageOf(userBalance'[request[x].user], [t \in LogType |-> FractionOf(request[x].user, t)'])
  BY DEF CommittedPage
<1>4. CommittedPage(request[x].user)' = CommittedPage(request[x].user)
  BY <1>1, <1>2, <1>3
<1>5. ASSUME NEW k, NEW b
      PROVE  ReachedBy(x, k, b)' <=>
               Reached(CommittedPage(request[x].user)', request'[x].calls,
                       Arrears[request'[x].user], k, PageOf(b, PendingFractions(x)'))
  BY DEF ReachedBy
<1> QED
  BY <1>4, <1>5 DEF ReachedBy

LEMMA PendingKept ==
  ASSUME NEW x \in Worker, request'[x] = request[x], written'[x].rows = written[x].rows,
         RowsOf(fiatLogCache', request[x].user) = RowsOf(fiatLogCache, request[x].user)
  PROVE  PendingFractions(x)' = PendingFractions(x)
<1>1. ASSUME NEW t
      PROVE  OfType(fiatLogCache' \cup written'[x].rows, request'[x].user, t)
               = OfType(fiatLogCache \cup written[x].rows, request[x].user, t)
  <2>1. \A r : r.user = request[x].user => (r \in fiatLogCache' <=> r \in fiatLogCache)
    BY DEF RowsOf
  <2> QED
    BY <2>1 DEF OfType
<1>2. PendingFractions(x)' =
        [t \in LogType |->
           LastUnsettle(OfType(fiatLogCache' \cup written'[x].rows, request'[x].user, t))]
  BY DEF PendingFractions, Pending
<1> QED
  BY <1>1, <1>2 DEF PendingFractions, Pending

(* What nobody has touched stays on its page. *)
LEMMA PagedKept ==
  ASSUME NEW x \in Worker, WorkPaged(x),
         /\ pc'[x] = pc[x] /\ request'[x] = request[x] /\ snapshot'[x] = snapshot[x]
         /\ written'[x] = written[x] /\ newBalance'[x] = newBalance[x]
         /\ split'[x] = split[x] /\ posted'[x] = posted[x] /\ failed'[x] = failed[x]
         /\ userBalance'[request[x].user] = userBalance[request[x].user]
         /\ RowsOf(fiatLogCache', request[x].user) = RowsOf(fiatLogCache, request[x].user),
         \A t : FractionOf(request[x].user, t)' = FractionOf(request[x].user, t)
  PROVE  WorkPaged(x)'
<1>1. PendingFractions(x)' = PendingFractions(x)
  BY PendingKept
<1>2. \A k, b : ReachedBy(x, k, b)' <=> ReachedBy(x, k, b)
  BY <1>1, ReachedKept
<1>3. Kept(x)' = Kept(x)
  BY DEF Kept
<1>4. Current(x)' = Current(x)
  BY DEF Current
<1>5. Sufficient(x)' <=> Sufficient(x)
  BY <1>3, <1>4 DEF Sufficient
<1>6. FractionOf(request[x].user, Current(x).type)' = FractionOf(request[x].user, Current(x).type)
  <2> DEFINE after(t) == {r \in fiatLogCache' \ HalfPosted' :
                            r.user = request'[x].user /\ r.type = t}
             before(t) == {r \in fiatLogCache \ HalfPosted :
                            r.user = request[x].user /\ r.type = t}
  <2>1. \A t : LastUnsettle(after(t)) = LastUnsettle(before(t))
    BY DEF FractionOf
  <2>2. FractionOf(request[x].user, Current(x).type)' = LastUnsettle(after(Current(x)'.type))
    BY DEF FractionOf
  <2>3. FractionOf(request[x].user, Current(x).type) = LastUnsettle(before(Current(x).type))
    BY DEF FractionOf
  <2> HIDE DEF after, before
  <2> QED
    BY <1>4, <2>1, <2>2, <2>3
<1>7. \A r : r.user = request[x].user => (r \in fiatLogCache' <=> r \in fiatLogCache)
  BY DEF RowsOf
<1> DEFINE u == request[x].user
           t == Current(x).type
<1>8. (snapshot[x].open => snapshot[x].rows = RowsOf(fiatLogCache, u))'
  BY DEF WorkPaged
<1>9. (pc[x] \in {"read", "create"} =>
         split[x] = CalcLeftover(Current(x).amount + PendingFractions(x)[t]))'
  BY <1>1, <1>4 DEF WorkPaged
<1>10. (pc[x] = "create" => Sufficient(x) /\ newBalance[x] = Kept(x) + split[x].amount)'
  BY <1>3, <1>5 DEF WorkPaged
<1>11. (request[x].inTx =>
         /\ pc[x] \in {"lock", "find", "read", "create"} => ReachedBy(x, posted[x], Kept(x))
         /\ pc[x] = "update" => ReachedBy(x, posted[x] + 1, newBalance[x])
         /\ pc[x] \in {"unlock", "finish"} /\ ~failed[x] => ReachedBy(x, posted[x] + 1, Kept(x)))'
  BY <1>2, <1>3 DEF WorkPaged
<1>12. (pc[x] = "update" /\ ~request[x].inTx =>
         /\ \E r \in fiatLogCache :
              /\ r.user = u /\ r.type = t /\ r.unsettle = split[x].leftover
              /\ \A q \in RowsOf(fiatLogCache, u) : q.id <= r.id
         /\ split[x] = CalcLeftover(Current(x).amount + FractionOf(u, t))
         /\ Sufficient(x) /\ newBalance[x] = Kept(x) + split[x].amount)'
  BY <1>3, <1>4, <1>5, <1>6, <1>7 DEF WorkPaged
<1> QED
  BY <1>8, <1>9, <1>10, <1>11, <1>12 DEF WorkPaged

(* Outside of a transaction and of the mutex there is no page. *)
LEMMA PagedOutside ==
  ASSUME RowsInv', NEW x \in Worker, ~request'[x].inTx,
         pc'[x] \notin {"read", "create", "update"}
  PROVE  WorkPaged(x)'
<1>1. ~snapshot'[x].open
  BY DEF RowsInv
<1> QED
  BY <1>1 DEF WorkPaged

(* A worker's step leaves the others where they are. *)
LEMMA OthersPaged ==
  ASSUME TypeInv, RowsInv', LocksInv, PagesInv, NEW w \in Worker,
         \A x \in Worker : x # w =>
           /\ pc'[x] = pc[x] /\ request'[x] = request[x] /\ snapshot'[x] = snapshot[x]
           /\ written'[x] = written[x] /\ newBalance'[x] = newBalance[x]
           /\ split'[x] = split[x] /\ posted'[x] = posted[x] /\ failed'[x] = failed[x],
         pc[w] \in Inside => request'[w] = request[w],
         pc[w] \notin Inside => pc'[w] # "update",
         NEW x \in Worker, x # w, pc[x] # "idle", Undisturbed(request[x].user),
         \/ pc[w] \in Inside /\ request[w].user = request[x].user
         \/ /\ ~(pc[w] \in Inside /\ request[w].user = request[x].user)
            /\ userBalance'[request[x].user] = userBalance[request[x].user]
            /\ RowsOf(fiatLogCache', request[x].user) = RowsOf(fiatLogCache, request[x].user)
  PROVE  WorkPaged(x)'
<1>1. CASE pc[w] \in Inside /\ request[w].user = request[x].user
  <2>1. pc[w] # "idle"
    BY <1>1 DEF Inside
  <2>2. ~request[x].inTx /\ pc[x] \notin Inside
    BY <1>1, <2>1, OthersOutside
  <2> QED
    BY <2>2, PagedOutside DEF Inside
<1>2. CASE ~(pc[w] \in Inside /\ request[w].user = request[x].user)
  <2> DEFINE v == request[x].user
  <2>1. \A y \in Worker : HalfWayBy(y, v)' <=> HalfWayBy(y, v)
    <3> SUFFICES ASSUME NEW y \in Worker PROVE HalfWayBy(y, v)' <=> HalfWayBy(y, v)
      OBVIOUS
    <3>1. CASE y # w
      BY <3>1 DEF HalfWayBy
    <3>2. CASE y = w /\ pc[w] \in Inside
      BY <1>2, <3>2 DEF HalfWayBy
    <3>3. CASE y = w /\ pc[w] \notin Inside
      BY <3>3 DEF HalfWayBy, Inside
    <3> QED
      BY <3>1, <3>2, <3>3
  <2>2. \A y \in Worker : HalfWayBy(y, v) => Current(y)' = Current(y)
    <3>1. ~HalfWayBy(w, v)
      BY <1>2 DEF HalfWayBy, Inside
    <3> QED
      BY <3>1 DEF Current
  <2>3. \A t : FractionOf(v, t)' = FractionOf(v, t)
    <3>1. request'[x] = request[x]
      OBVIOUS
    <3> QED
      BY <1>2, <2>1, <2>2, <3>1, FractionsKept
  <2>4. WorkPaged(x)
    BY DEF PagesInv
  <2> QED
    BY <1>2, <2>3, <2>4, PagedKept
<1> QED
  BY <1>1, <1>2

(* Steps that change no table and are not half way: only the worker's own
   page is left to show. *)
LEMMA QuietPaged ==
  ASSUME TypeInv, RowsInv', LocksInv, PagesInv, NEW w \in Worker,
         UNCHANGED <<userBalance, fiatLogCache>>,
         \A x \in Worker : x # w =>
           /\ pc'[x] = pc[x] /\ request'[x] = request[x] /\ snapshot'[x] = snapshot[x]
           /\ written'[x] = written[x] /\ newBalance'[x] = newBalance[x]
           /\ split'[x] = split[x] /\ posted'[x] = posted[x] /\ failed'[x] = failed[x],
         pc[w] \in Inside => request'[w] = request[w],
         pc[w] \notin Inside => pc'[w] # "update",
         pc'[w] # "idle" /\ Undisturbed(request'[w].user) => WorkPaged(w)'
  PROVE  PagesInv'
<1> SUFFICES ASSUME NEW x \in Worker, pc'[x] # "idle", Undisturbed(request'[x].user), x # w
             PROVE  WorkPaged(x)'
  BY DEF PagesInv
<1>1. pc[x] # "idle" /\ Undisturbed(request[x].user)
  OBVIOUS
<1> QED
  BY <1>1, OthersPaged

(* The committed fractions that a step does not touch. *)
LEMMA QuietFractionsOf ==
  ASSUME NEW w \in Worker, UNCHANGED fiatLogCache,
         \A x \in Worker : x # w =>
           pc'[x] = pc[x] /\ request'[x] = request[x] /\ posted'[x] = posted[x],
         pc[w] = "update" => request[w].inTx,
         pc'[w] = "update" => request'[w].inTx
  PROVE  \A u, t : FractionOf(u, t)' = FractionOf(u, t)
<1> SUFFICES ASSUME NEW u PROVE \A t : FractionOf(u, t)' = FractionOf(u, t)
  OBVIOUS
<1>1. \A y \in Worker : HalfWayBy(y, u)' <=> HalfWayBy(y, u)
  BY DEF HalfWayBy
<1>2. \A y \in Worker : HalfWayBy(y, u) => Current(y)' = Current(y)
  BY DEF HalfWayBy, Current
<1> QED
  BY <1>1, <1>2, FractionsKept

(* A transaction begins on the committed page. *)
LEMMA StartPaged ==
  ASSUME TypeInv, RowsInv, RowsInv', LocksInv, PagesInv, NEW w \in Worker, Start(w)
  PROVE  PagesInv'
<1>1. PICK r \in Requests[w] :
        /\ request' = [request EXCEPT ![w] = r]
        /\ snapshot' = [snapshot EXCEPT ![w] =
                          IF r.readsFirst THEN CurrentView(r.user) ELSE Closed]
  BY DEF Start
<1>2. /\ UNCHANGED <<userBalance, fiatLogCache, lastId, written, newBalance, split, posted, failed>>
      /\ pc[w] = "idle" /\ pc' = [pc EXCEPT ![w] = "lock"]
  BY DEF Start, Goto, database
<1>3. \A x \in Worker : x # w => /\ request'[x] = request[x] /\ snapshot'[x] = snapshot[x]
                                 /\ pc'[x] = pc[x]
  BY <1>1, <1>2 DEF TypeInv, TypeOK
<1>4. /\ request'[w] = r /\ pc'[w] = "lock" /\ posted[w] = 0
      /\ snapshot'[w] = IF r.readsFirst THEN CurrentView(r.user) ELSE Closed
  BY <1>1, <1>2 DEF TypeInv, TypeOK, Engaged
<1>5. r.user \in User
  <2>1. r \in Request
    BY LedgerAssumption
  <2> QED
    BY <2>1 DEF Request
<1>6. written[w].rows = {} /\ ~written[w].dirty
  BY <1>2 DEF RowsInv, LocksInv
<1>7. snapshot'[w].open => snapshot'[w].rows = RowsOf(fiatLogCache, r.user)
  BY <1>4 DEF CurrentView, Closed
<1>8. ASSUME r.inTx, Undisturbed(r.user)
      PROVE  ReachedBy(w, 0, Kept(w))'
  <2> DEFINE u == r.user
             f == [t \in LogType |-> LastUnsettle(OfType(fiatLogCache, u, t))]
             base == PageOf(userBalance[u], f)
  <2>1. \A t : FractionOf(u, t)' = FractionOf(u, t)
    BY <1>2, <1>3, <1>4, QuietFractionsOf
  <2>2. \A t : FractionOf(u, t) = LastUnsettle(OfType(fiatLogCache, u, t))
    BY <1>8, NoneHalfWay, NoneHalfPosted
  <2>3. [t \in LogType |-> FractionOf(u, t)'] = f
    BY <2>1, <2>2
  <2>6. PendingFractions(w)' = f
    <3>1. PendingFractions(w)' =
            [t \in LogType |->
               LastUnsettle(OfType(fiatLogCache' \cup written'[w].rows, request'[w].user, t))]
      BY DEF PendingFractions, Pending
    <3>2. fiatLogCache' \cup written'[w].rows = fiatLogCache
      BY <1>2, <1>6
    <3> QED
      BY <1>4, <3>1, <3>2
  <2>7. Kept(w)' = userBalance[u]
    BY <1>2, <1>4, <1>6 DEF Kept
  <2>8. base \in Page
    <3>1. \A t \in LogType : LastUnsettle(OfType(fiatLogCache, u, t)) \in Int
      <4>1. lastId \in Nat /\ fiatLogCache \in SUBSET Row /\ \A q \in fiatLogCache : q.id <= lastId
        BY DEF TypeInv, TypeOK, RowsInv
      <4>2. \A t : OfType(fiatLogCache, u, t) \in SUBSET Row
                   /\ \A q \in OfType(fiatLogCache, u, t) : q.id <= lastId
        BY <4>1 DEF OfType
      <4> QED
        BY <4>1, <4>2, LastTyped
    <3>2. f \in [LogType -> Int]
      BY <3>1
    <3>3. userBalance[u] \in Int
      BY <1>5 DEF TypeInv, TypeOK
    <3> HIDE DEF f
    <3> QED
      BY <3>2, <3>3 DEF PageOf, Page
  <2> HIDE DEF f
  <2>9. Reached(base, r.calls, Arrears[u], 0, base)
    <3> HIDE DEF base
    <3> QED BY <2>8, ReachedFirst
  <2>10. ReachedBy(w, 0, Kept(w))' <=>
           Reached(CommittedPage(request[w].user)', request'[w].calls,
                   Arrears[request'[w].user], 0, PageOf(Kept(w)', PendingFractions(w)'))
    BY DEF ReachedBy
  <2>11. CommittedPage(request[w].user)' = base
    <3>1. CommittedPage(request[w].user)'
            = PageOf(userBalance'[request'[w].user], [t \in LogType |-> FractionOf(request[w].user, t)'])
      BY DEF CommittedPage
    <3>2. \A t : FractionOf(request[w].user, t)' = FractionOf(u, t)'
      BY <1>4 DEF FractionOf
    <3> QED
      BY <1>2, <1>4, <2>3, <3>1, <3>2
  <2> QED
    BY <1>4, <2>6, <2>7, <2>9, <2>10, <2>11
<1>9. ASSUME Undisturbed(r.user) PROVE WorkPaged(w)'
  BY <1>2, <1>4, <1>7, <1>8, <1>9 DEF WorkPaged
<1> QED
  BY <1>2, <1>3, <1>4, <1>9, QuietPaged DEF Inside

(* A step of a worker that changes no table and none of its rows keeps its
   page. *)
LEMMA OwnPageKept ==
  ASSUME NEW w \in Worker, UNCHANGED <<userBalance, fiatLogCache, written, request>>,
         \A x \in Worker : x # w => pc'[x] = pc[x] /\ posted'[x] = posted[x],
         pc[w] = "update" => request[w].inTx,
         pc'[w] = "update" => request[w].inTx
  PROVE  /\ PendingFractions(w)' = PendingFractions(w)
         /\ Kept(w)' = Kept(w)
         /\ \A k, b : ReachedBy(w, k, b)' <=> ReachedBy(w, k, b)
<1>1. PendingFractions(w)' = PendingFractions(w)
  BY PendingKept
<1>2. \A t \in LogType : FractionOf(request[w].user, t)' = FractionOf(request[w].user, t)
  <2>1. \A u, t : FractionOf(u, t)' = FractionOf(u, t)
    BY QuietFractionsOf
  <2>2. \A t : FractionOf(request[w].user, t)'
                 = LastUnsettle({r \in fiatLogCache' \ HalfPosted' :
                                   r.user = request'[w].user /\ r.type = t})
    BY DEF FractionOf
  <2>3. \A u, t : FractionOf(u, t)'
                    = LastUnsettle({r \in fiatLogCache' \ HalfPosted' : r.user = u /\ r.type = t})
    BY DEF FractionOf
  <2> QED
    BY <2>1, <2>2, <2>3
<1>3. \A k, b : ReachedBy(w, k, b)' <=> ReachedBy(w, k, b)
  BY <1>1, <1>2, ReachedKept
<1> QED
  BY <1>1, <1>3 DEF Kept

LEMMA LockPaged ==
  ASSUME TypeInv, RowsInv', LocksInv, PagesInv, NEW w \in Worker, LockBalanceMu(w)
  PROVE  PagesInv'
<1>1. /\ UNCHANGED <<userBalance, fiatLogCache, written, request, snapshot, split, newBalance,
                     posted, failed>>
      /\ pc[w] = "lock" /\ pc'[w] = "find" /\ \A x \in Worker : x # w => pc'[x] = pc[x]
  BY DEF LockBalanceMu, Goto, database, local, TypeInv, TypeOK
<1>2. ASSUME Undisturbed(request[w].user) PROVE WorkPaged(w)'
  <2>1. WorkPaged(w)
    BY <1>1, <1>2 DEF PagesInv
  <2>2. Kept(w)' = Kept(w) /\ \A k, b : ReachedBy(w, k, b)' <=> ReachedBy(w, k, b)
    BY <1>1, OwnPageKept
  <2>3. (request[w].inTx => ReachedBy(w, posted[w], Kept(w)))'
    BY <1>1, <2>1, <2>2 DEF WorkPaged
  <2> QED
    BY <1>1, <2>1, <2>3 DEF WorkPaged
<1> QED
  BY <1>1, <1>2, QuietPaged

(* What a worker of an undisturbed user sees is all there is. *)
LEMMA SeesPending ==
  ASSUME TypeInv, RowsInv, NEW w \in Worker, pc[w] # "idle", WorkPaged(w)
  PROVE  SameType(w) = Pending(w, request[w].user, Current(w).type)
<1>1. ViewOf(w).rows = RowsOf(fiatLogCache, request[w].user)
  BY DEF WorkPaged, ViewOf, CurrentView
<1>2. \A r \in written[w].rows : r.user = request[w].user
  BY DEF RowsInv
<1> QED
  BY <1>1, <1>2 DEF SameType, RowsSeen, Pending, OfType, RowsOf

(* The rows that a worker has before it, and their last remainder. *)
LEMMA PendingTyped ==
  ASSUME TypeInv, RowsInv, IdsInv, NEW w \in Worker, NEW u, NEW t
  PROVE  /\ Pending(w, u, t) \in SUBSET Row
         /\ lastId \in Nat /\ \A r \in Pending(w, u, t) : r.id <= lastId
         /\ \A r, q \in Pending(w, u, t) : r.id = q.id => r = q
         /\ LastUnsettle(Pending(w, u, t)) \in Int
<1>1. /\ Pending(w, u, t) \in SUBSET Row
      /\ lastId \in Nat /\ \A r \in Pending(w, u, t) : r.id <= lastId
  BY DEF Pending, OfType, TypeInv, TypeOK, RowsInv
<1>2. \A r, q \in Pending(w, u, t) : r.id = q.id => r = q
  BY DEF Pending, OfType, IdsInv
<1> QED
  BY <1>1, <1>2, LastTyped

LEMMA FindPaged ==
  ASSUME TypeInv, RowsInv, RowsInv', LocksInv, IdsInv, PagesInv, NEW w \in Worker,
         FindLastFiatLogCache(w)
  PROVE  PagesInv'
<1> DEFINE u == request[w].user
           t == Current(w).type
           rows == Pending(w, u, t)
<1>1. /\ UNCHANGED <<userBalance, fiatLogCache, written, newBalance, request, posted, failed>>
      /\ pc[w] = "find" /\ pc' = [pc EXCEPT ![w] = "read"]
      /\ snapshot' = [snapshot EXCEPT ![w] = IF request[w].inTx THEN ViewOf(w) ELSE Closed]
      /\ \A x \in Worker : x # w => split'[x] = split[x]
  BY DEF FindLastFiatLogCache, Goto, OpenView, database, TypeInv, TypeOK
<1>2. \A x \in Worker : x # w => pc'[x] = pc[x] /\ snapshot'[x] = snapshot[x]
  BY <1>1 DEF TypeInv, TypeOK
<1>3. pc'[w] = "read" /\ snapshot'[w] = IF request[w].inTx THEN ViewOf(w) ELSE Closed
  BY <1>1 DEF TypeInv, TypeOK
<1>4. ASSUME Undisturbed(u) PROVE WorkPaged(w)'
  <2>1. WorkPaged(w)
    BY <1>1, <1>4 DEF PagesInv
  <2>2. SameType(w) = rows
    BY <1>1, <2>1, SeesPending
  <2>3. /\ rows \in SUBSET Row /\ \A r, q \in rows : r.id = q.id => r = q
    BY PendingTyped
  <2>4. Current(w) \in Call
    BY <1>1, CurrentIsCall
  <2>5. t \in LogType /\ PendingFractions(w)[t] = LastUnsettle(rows)
    BY <2>4 DEF Call, PendingFractions
  <2>6. split'[w] = CalcLeftover(Current(w).amount + PendingFractions(w)[t])
    <3>1. CASE SameType(w) = {} /\ split' = [split EXCEPT ![w] = CalcLeftover(Current(w).amount)]
      <4>1. split'[w] = CalcLeftover(Current(w).amount)
        BY <3>1 DEF TypeInv, TypeOK
      <4>2. LastUnsettle(rows) = 0
        BY <2>2, <3>1 DEF LastUnsettle
      <4>3. Current(w).amount + 0 = Current(w).amount
        BY <2>4 DEF Call
      <4> QED
        BY <2>5, <4>1, <4>2, <4>3
    <3>2. ASSUME NEW last \in SameType(w), \A r \in SameType(w) : r.id <= last.id,
                 split' = [split EXCEPT ![w] =
                            CalcLeftover(Current(w).amount + last.unsettle)]
          PROVE  split'[w] = CalcLeftover(Current(w).amount + PendingFractions(w)[t])
      <4>1. split'[w] = CalcLeftover(Current(w).amount + last.unsettle)
        BY <3>2 DEF TypeInv, TypeOK
      <4>2. LastUnsettle(rows) = last.unsettle
        <5> HIDE DEF rows
        <5> QED BY <2>2, <2>3, <3>2, LastIs
      <4> QED
        BY <2>5, <4>1, <4>2
    <3> QED
      BY <3>1, <3>2 DEF FindLastFiatLogCache
  <2>7. /\ PendingFractions(w)' = PendingFractions(w) /\ Kept(w)' = Kept(w)
        /\ \A k, b : ReachedBy(w, k, b)' <=> ReachedBy(w, k, b)
    BY <1>1, <1>2, <1>3, OwnPageKept
  <2>8. Current(w)' = Current(w)
    BY <1>1 DEF Current
  <2>9. (snapshot[w].open => snapshot[w].rows = RowsOf(fiatLogCache, request[w].user))'
    BY <1>1, <1>3, <2>1 DEF WorkPaged, ViewOf, CurrentView, Closed
  <2>10. (split[w] = CalcLeftover(Current(w).amount + PendingFractions(w)[Current(w).type]))'
    BY <2>6, <2>7, <2>8
  <2>11. (request[w].inTx => ReachedBy(w, posted[w], Kept(w)))'
    BY <1>1, <2>1, <2>7 DEF WorkPaged
  <2> QED
    BY <1>1, <1>3, <2>9, <2>10, <2>11 DEF WorkPaged
<1> QED
  BY <1>1, <1>2, <1>3, <1>4, QuietPaged

(* The check is made against the balance of the page. *)
LEMMA GetPaged ==
  ASSUME TypeInv, RowsInv, RowsInv', LocksInv, BalancedInv, PagesInv, NEW w \in Worker,
         GetUserBalance(w)
  PROVE  PagesInv'
<1> DEFINE u == request[w].user
<1>1. /\ UNCHANGED <<userBalance, fiatLogCache, written, request, snapshot, split, posted>>
      /\ pc[w] = "read" /\ \A x \in Worker : x # w => pc'[x] = pc[x]
  BY DEF GetUserBalance, Goto, database, TypeInv, TypeOK
<1>2. \/ /\ ~Insufficient(w) /\ pc'[w] = "create" /\ UNCHANGED failed
         /\ newBalance' = [newBalance EXCEPT ![w] = BalanceSeen(w) + split[w].amount]
      \/ /\ pc'[w] = "unlock" /\ failed' = [failed EXCEPT ![w] = TRUE] /\ UNCHANGED newBalance
  BY DEF GetUserBalance, Goto, TypeInv, TypeOK
<1>3. \A x \in Worker : x # w => newBalance'[x] = newBalance[x] /\ failed'[x] = failed[x]
  BY <1>2 DEF TypeInv, TypeOK
<1>4. ASSUME Undisturbed(u) PROVE WorkPaged(w)'
  <2>1. WorkPaged(w) /\ WorkBalanced(w)
    BY <1>1, <1>4 DEF PagesInv, BalancedInv
  <2>2. BalanceSeen(w) = Kept(w)
    BY <1>1, <2>1, SeenCases DEF WorkBalanced, Kept
  <2>3. /\ PendingFractions(w)' = PendingFractions(w) /\ Kept(w)' = Kept(w)
        /\ \A k, b : ReachedBy(w, k, b)' <=> ReachedBy(w, k, b)
    BY <1>1, <1>2, OwnPageKept
  <2>4. Current(w)' = Current(w)
    BY <1>1 DEF Current
  <2>5. CASE ~Insufficient(w) /\ pc'[w] = "create"
             /\ newBalance' = [newBalance EXCEPT ![w] = BalanceSeen(w) + split[w].amount]
    <3>1. newBalance'[w] = Kept(w) + split[w].amount
      BY <2>2, <2>5 DEF TypeInv, TypeOK
    <3>2. Sufficient(w)
      <4>1. u \in User
        BY DEF TypeInv, TypeOK, Request
      <4>2. Kept(w) \in Int /\ Arrears[u] \in Int /\ split[w].amount \in Int
        BY <2>2, <4>1, ReadsTyped, LedgerAssumption DEF TypeInv, TypeOK
      <4>3. Current(w).check => ~(Kept(w) + Arrears[u] + split[w].amount < 0)
        BY <2>2, <2>5 DEF Insufficient
      <4> QED
        BY <4>2, <4>3 DEF Sufficient
    <3>3. Sufficient(w)' /\ (newBalance[w] = Kept(w) + split[w].amount)'
      BY <1>1, <2>3, <2>4, <3>1, <3>2 DEF Sufficient
    <3>4. (split[w] = CalcLeftover(Current(w).amount + PendingFractions(w)[Current(w).type]))'
      BY <1>1, <2>1, <2>3, <2>4 DEF WorkPaged
    <3>5. (request[w].inTx => ReachedBy(w, posted[w], Kept(w)))'
      BY <1>1, <2>1, <2>3 DEF WorkPaged
    <3> QED
      BY <1>1, <2>1, <2>5, <3>3, <3>4, <3>5 DEF WorkPaged
  <2>6. CASE pc'[w] = "unlock" /\ failed' = [failed EXCEPT ![w] = TRUE]
    <3>1. failed'[w]
      BY <2>6 DEF TypeInv, TypeOK
    <3> QED
      BY <1>1, <2>1, <2>6, <3>1 DEF WorkPaged
  <2> QED
    BY <1>2, <2>5, <2>6
<1> QED
  BY <1>1, <1>2, <1>3, <1>4, QuietPaged

(* The new row of a worker: the last of all. *)
LEMMA NewRowLast ==
  ASSUME TypeInv, RowsInv, NEW w \in Worker, CreateFiatLogCache(w)
  PROVE  /\ request[w].user \in User /\ Current(w) \in Call
         /\ NewRow(w) \in Row
         /\ NewRow(w).user = request[w].user /\ NewRow(w).type = Current(w).type
         /\ NewRow(w).unsettle = split[w].leftover
         /\ \A r \in fiatLogCache : r.id < NewRow(w).id
         /\ \A x \in Worker : \A r \in written[x].rows : r.id < NewRow(w).id
<1>1. Current(w) \in Call /\ request[w].user \in User /\ lastId \in Nat
  BY CurrentIsCall DEF CreateFiatLogCache, Goto, TypeInv, TypeOK, Request
<1>2. NewRow(w) \in Row
  BY <1>1 DEF NewRow, Row, Call, TypeInv, TypeOK
<1>3. NewRow(w).id = lastId + 1
  BY DEF NewRow
<1>4. /\ \A r \in fiatLogCache : r.id \in Nat /\ r.id <= lastId
      /\ \A x \in Worker : \A r \in written[x].rows : r.id \in Nat /\ r.id <= lastId
  BY DEF RowsInv, TypeInv, TypeOK, Row
<1>5. /\ NewRow(w).user = request[w].user /\ NewRow(w).type = Current(w).type
      /\ NewRow(w).unsettle = split[w].leftover
  BY DEF NewRow
<1> QED
  BY <1>1, <1>2, <1>3, <1>4, <1>5

(* The remainder of the new row is the fraction of its type from now on. *)
LEMMA LastOfMore ==
  ASSUME NEW rows \in SUBSET Row, \A r, q \in rows : r.id = q.id => r = q,
         NEW n \in Row, \A r \in rows : r.id < n.id
  PROVE  LastUnsettle(rows \cup {n}) = n.unsettle
<1>1. /\ n.id \in Nat /\ \A r \in rows : r.id \in Nat
  BY DEF Row
<1>2. \A r, q \in rows \cup {n} : r.id = q.id => r = q
  BY <1>1
<1>3. \A r \in rows \cup {n} : r.id <= n.id
  BY <1>1
<1> QED
  BY <1>2, <1>3, LastIs

LEMMA CreatePending ==
  ASSUME TypeInv, RowsInv, IdsInv, NEW w \in Worker, CreateFiatLogCache(w)
  PROVE  PendingFractions(w)' =
           [PendingFractions(w) EXCEPT ![Current(w).type] = split[w].leftover]
<1> DEFINE u == request[w].user
           t == Current(w).type
           n == NewRow(w)
<1>1. /\ request' = request
      /\ fiatLogCache' = IF request[w].inTx THEN fiatLogCache ELSE fiatLogCache \cup {n}
  BY DEF CreateFiatLogCache, local
<1>2. written'[w].rows = IF request[w].inTx THEN written[w].rows \cup {n} ELSE written[w].rows
  BY CreateWrites
<1>3. fiatLogCache' \cup written'[w].rows = fiatLogCache \cup written[w].rows \cup {n}
  BY <1>1, <1>2
<1>4. /\ n \in Row /\ n.user = u /\ n.type = t /\ n.unsettle = split[w].leftover
      /\ \A r \in fiatLogCache \cup written[w].rows : r.id < n.id
  BY NewRowLast
<1> HIDE DEF n
<1>5. ASSUME NEW s
      PROVE  LastUnsettle(OfType(fiatLogCache' \cup written'[w].rows, u, s))
               = IF s = t THEN split[w].leftover ELSE LastUnsettle(Pending(w, u, s))
  <2>1. OfType(fiatLogCache' \cup written'[w].rows, u, s)
          = IF s = t THEN Pending(w, u, s) \cup {n} ELSE Pending(w, u, s)
    BY <1>3, <1>4 DEF OfType, Pending
  <2>2. /\ Pending(w, u, s) \in SUBSET Row
        /\ \A r, q \in Pending(w, u, s) : r.id = q.id => r = q
    BY PendingTyped
  <2>3. \A r \in Pending(w, u, s) : r.id < n.id
    BY <1>4 DEF Pending, OfType
  <2>4. LastUnsettle(Pending(w, u, s) \cup {n}) = n.unsettle
    BY <1>4, <2>2, <2>3, LastOfMore
  <2> QED
    BY <1>4, <2>1, <2>4
<1>6. PendingFractions(w)' =
        [s \in LogType |->
           LastUnsettle(OfType(fiatLogCache' \cup written'[w].rows, request'[w].user, s))]
  BY DEF PendingFractions, Pending
<1>7. PendingFractions(w)' =
        [s \in LogType |-> IF s = t THEN split[w].leftover ELSE LastUnsettle(Pending(w, u, s))]
  BY <1>1, <1>5, <1>6
<1>8. t \in LogType
  BY NewRowLast DEF Call
<1> QED
  BY <1>7, <1>8 DEF PendingFractions

(* The committed fractions do not count the row of a bare statement yet. *)
LEMMA CreateKeepsFractions ==
  ASSUME TypeInv, RowsInv, LocksInv, NEW w \in Worker, CreateFiatLogCache(w),
         Undisturbed(request[w].user)
  PROVE  \A t : /\ FractionOf(request[w].user, t)' = FractionOf(request[w].user, t)
                /\ FractionOf(request[w].user, t)
                     = LastUnsettle(OfType(fiatLogCache, request[w].user, t))
<1> DEFINE u == request[w].user
           n == NewRow(w)
<1>1. /\ UNCHANGED <<request, posted>> /\ pc[w] = "create" /\ pc' = [pc EXCEPT ![w] = "update"]
      /\ fiatLogCache' = IF request[w].inTx THEN fiatLogCache ELSE fiatLogCache \cup {n}
  BY DEF CreateFiatLogCache, Goto, local
<1>2. \A x \in Worker : pc'[x] = IF x = w THEN "update" ELSE pc[x]
  BY <1>1 DEF TypeInv, TypeOK
<1>3. ~HalfWay(u)
  BY <1>1, NotHalfWay DEF Inside
<1>4. \A t : FractionOf(u, t) = LastUnsettle(OfType(fiatLogCache, u, t))
  BY <1>3, NoneHalfPosted
<1>5. /\ n.user = u /\ n.type = Current(w).type /\ \A r \in fiatLogCache : r.id < n.id
      /\ n \in Row /\ fiatLogCache \subseteq Row
  BY NewRowLast DEF TypeInv, TypeOK
<1> HIDE DEF n
<1>6. HalfPosted' = {r \in fiatLogCache' : \E x \in Worker :
                       /\ pc'[x] = "update" /\ ~request[x].inTx /\ r.user = request[x].user
                       /\ r.type = Current(x).type
                       /\ \A q \in fiatLogCache' : q.user = r.user => q.id <= r.id}
  BY <1>1 DEF HalfPosted, Current
<1>7. ASSUME NEW r \in fiatLogCache', r.user = u
      PROVE  r \in HalfPosted' <=> ~request[w].inTx /\ r = n
  <2>1. ASSUME r \in HalfPosted' PROVE ~request[w].inTx /\ r = n
    <3>1. PICK x \in Worker :
            /\ pc'[x] = "update" /\ ~request[x].inTx /\ r.user = request[x].user
            /\ \A q \in fiatLogCache' : q.user = r.user => q.id <= r.id
      BY <1>6, <2>1
    <3>2. x = w
      BY <1>2, <1>3, <1>7, <3>1 DEF HalfWay
    <3>3. ~request[w].inTx /\ n \in fiatLogCache' /\ n.id <= r.id
      BY <1>1, <1>5, <1>7, <3>1, <3>2
    <3>4. r \notin fiatLogCache
      BY <1>5, <3>3 DEF Row
    <3> QED
      BY <1>1, <3>3, <3>4
  <2>2. ASSUME ~request[w].inTx, r = n PROVE r \in HalfPosted'
    <3>1. \A q \in fiatLogCache' : q.id <= n.id
      <4>1. \A q \in fiatLogCache \cup {n} : q.id \in Nat
        BY <1>5 DEF Row
      <4> QED
        BY <1>1, <1>5, <2>2, <4>1
    <3> QED
      BY <1>2, <1>5, <1>6, <2>2, <3>1
  <2> QED
    BY <2>1, <2>2
<1>8. ASSUME NEW t
      PROVE  {r \in fiatLogCache' \ HalfPosted' : r.user = u /\ r.type = t}
               = OfType(fiatLogCache, u, t)
  <2>1. n \notin fiatLogCache
    BY <1>5 DEF Row
  <2> QED
    BY <1>1, <1>7, <2>1 DEF OfType
<1>9. ASSUME NEW t
      PROVE  FractionOf(u, t)'
               = LastUnsettle({r \in fiatLogCache' \ HalfPosted' : r.user = request'[w].user /\ r.type = t})
  BY DEF FractionOf
<1> QED
  BY <1>1, <1>4, <1>8, <1>9

(* The call of a worker, written in the book. *)
PostedPage(b, f, call, s) == PageOf(b + s.amount, [f EXCEPT ![call.type] = s.leftover])

LEMMA PostOnePage ==
  ASSUME NEW f \in [LogType -> Int], NEW b \in Int, NEW call \in Call, NEW arrears \in Int,
         NEW s, s = CalcLeftover(call.amount + f[call.type]),
         call.check => b + arrears + s.amount >= 0
  PROVE  Book!PostOne(PageOf(b, f), call, arrears) = PostedPage(b, f, call, s)
<1> DEFINE p == PageOf(b, f)
<1>1. p.ok = TRUE /\ p.account = b /\ p.fraction = f
  BY DEF PageOf
<1>2. Book!CalcLeftover(call.amount + f[call.type]) = s
  BY DEF Book!CalcLeftover, CalcLeftover, Book!WholeFen, WholeFen, Book!ModFen, ModFen
<1>3. (p.ok /\ (call.check => p.account + arrears + s.amount >= 0)) = TRUE
  BY <1>1
<1> HIDE DEF p
<1>4. Book!PostOne(p, call, arrears) =
        [ok |-> p.ok /\ (call.check => p.account + arrears + s.amount >= 0),
         account |-> p.account + s.amount,
         fraction |-> [p.fraction EXCEPT ![call.type] = s.leftover]]
  BY <1>1, <1>2 DEF Book!PostOne
<1>5. Book!PostOne(p, call, arrears) =
        [ok |-> TRUE, account |-> b + s.amount, fraction |-> [f EXCEPT ![call.type] = s.leftover]]
  BY <1>1, <1>3, <1>4
<1> QED
  BY <1>5 DEF PageOf, PostedPage, p

LEMMA PendingFractionsTyped ==
  ASSUME TypeInv, RowsInv, IdsInv, NEW w \in Worker
  PROVE  PendingFractions(w) \in [LogType -> Int]
BY PendingTyped DEF PendingFractions

LEMMA KeptTyped ==
  ASSUME TypeInv, NEW w \in Worker
  PROVE  Kept(w) \in Int
<1>1. request[w].user \in User
  BY DEF TypeInv, TypeOK, Request
<1> QED
  BY <1>1 DEF Kept, TypeInv, TypeOK

(* The new row of a transaction takes it to the next page. *)
LEMMA CreateReached ==
  ASSUME TypeInv, RowsInv, LocksInv, IdsInv, PagesInv, NEW w \in Worker,
         CreateFiatLogCache(w), Undisturbed(request[w].user), request[w].inTx
  PROVE  ReachedBy(w, posted[w] + 1, newBalance[w])'
<1> DEFINE u == request[w].user
           f == PendingFractions(w)
           base == CommittedPage(u)
<1>1. /\ UNCHANGED <<userBalance, request, newBalance, posted>> /\ pc[w] = "create"
  BY DEF CreateFiatLogCache, Goto, local
<1>2. WorkPaged(w)
  BY <1>1 DEF PagesInv
<1>3. /\ split[w] = CalcLeftover(Current(w).amount + f[Current(w).type])
      /\ Sufficient(w) /\ newBalance[w] = Kept(w) + split[w].amount
      /\ ReachedBy(w, posted[w], Kept(w))
  BY <1>1, <1>2 DEF WorkPaged
<1>4. /\ f \in [LogType -> Int] /\ Kept(w) \in Int /\ Current(w) \in Call
      /\ Arrears[u] \in Int /\ posted[w] \in Nat
  BY PendingFractionsTyped, KeptTyped, NewRowLast, LedgerAssumption DEF TypeInv, TypeOK
<1>5. Book!PostOne(PageOf(Kept(w), f), Current(w), Arrears[u])
        = PageOf(newBalance[w], [f EXCEPT ![Current(w).type] = split[w].leftover])
  <2> DEFINE k == Kept(w)
             call == Current(w)
             arrears == Arrears[u]
             s == split[w]
  <2>1. s = CalcLeftover(call.amount + f[call.type])
    BY <1>3
  <2>2. call.check => k + arrears + s.amount >= 0
    BY <1>3 DEF Sufficient
  <2>3. f \in [LogType -> Int] /\ k \in Int /\ call \in Call /\ arrears \in Int
    BY <1>4
  <2>4. newBalance[w] = k + s.amount
    BY <1>3
  <2> HIDE DEF f, k, call, arrears, s
  <2>5. Book!PostOne(PageOf(k, f), call, arrears) = PostedPage(k, f, call, s)
    BY <2>1, <2>2, <2>3, PostOnePage
  <2> QED
    BY <2>4, <2>5 DEF PostedPage, k, call, arrears, s
<1>6. Reached(base, request[w].calls, Arrears[u], posted[w], PageOf(Kept(w), f))
  BY <1>3 DEF ReachedBy
<1>7. Reached(base, request[w].calls, Arrears[u], posted[w] + 1,
              Book!PostOne(PageOf(Kept(w), f), Current(w), Arrears[u]))
  <2> HIDE DEF base, f
  <2> QED
    BY <1>4, <1>6, ReachedNext DEF Current
<1>8. PendingFractions(w)' = [f EXCEPT ![Current(w).type] = split[w].leftover]
  BY CreatePending
<1>9. CommittedPage(request[w].user)' = base
  <2>1. \A t : FractionOf(request[w].user, t)' = FractionOf(request[w].user, t)
    BY CreateKeepsFractions
  <2>2. CommittedPage(request[w].user)'
          = PageOf(userBalance'[request'[w].user], [t \in LogType |-> FractionOf(request[w].user, t)'])
    BY DEF CommittedPage
  <2> QED
    BY <1>1, <2>1, <2>2 DEF CommittedPage
<1>10. ReachedBy(w, posted[w] + 1, newBalance[w])' <=>
         Reached(CommittedPage(request[w].user)', request'[w].calls, Arrears[request'[w].user],
                 posted'[w] + 1, PageOf(newBalance'[w], PendingFractions(w)'))
  BY DEF ReachedBy
<1> HIDE DEF base, f
<1> QED
  BY <1>1, <1>5, <1>7, <1>8, <1>9, <1>10

(* The new row of a bare statement is the last of its user. *)
LEMMA CreateBare ==
  ASSUME TypeInv, RowsInv, RowsInv', LocksInv, IdsInv, PagesInv, NEW w \in Worker,
         CreateFiatLogCache(w), Undisturbed(request[w].user), ~request[w].inTx
  PROVE  WorkPaged(w)'
<1> DEFINE u == request[w].user
           t == Current(w).type
           n == NewRow(w)
<1>1. /\ UNCHANGED <<userBalance, request, newBalance, posted, split>>
      /\ pc[w] = "create" /\ pc' = [pc EXCEPT ![w] = "update"]
      /\ fiatLogCache' = fiatLogCache \cup {n} /\ UNCHANGED written
  BY DEF CreateFiatLogCache, Goto, local
<1>2. pc'[w] = "update"
  BY <1>1 DEF TypeInv, TypeOK
<1>3. WorkPaged(w)
  BY <1>1 DEF PagesInv
<1>4. /\ split[w] = CalcLeftover(Current(w).amount + PendingFractions(w)[t])
      /\ Sufficient(w) /\ newBalance[w] = Kept(w) + split[w].amount
  BY <1>1, <1>3 DEF WorkPaged
<1>5. /\ n \in Row /\ n.user = u /\ n.type = t /\ n.unsettle = split[w].leftover
      /\ t \in LogType /\ \A r \in fiatLogCache : r.id < n.id
  BY NewRowLast DEF Call
<1> HIDE DEF n
<1>6. PendingFractions(w)[t] = FractionOf(u, t)
  <2>1. fiatLogCache \cup written[w].rows = fiatLogCache
    BY DEF RowsInv
  <2>2. FractionOf(u, t) = LastUnsettle(OfType(fiatLogCache, u, t))
    BY CreateKeepsFractions
  <2> QED
    BY <1>5, <2>1, <2>2 DEF PendingFractions, Pending
<1>7. FractionOf(request[w].user, Current(w).type)' = FractionOf(u, t)
  <2> DEFINE after(s) == {r \in fiatLogCache' \ HalfPosted' :
                            r.user = request'[w].user /\ r.type = s}
  <2>1. \A s : LastUnsettle(after(s)) = FractionOf(u, s)
    BY CreateKeepsFractions DEF FractionOf
  <2>2. FractionOf(request[w].user, Current(w).type)' = LastUnsettle(after(Current(w)'.type))
    BY DEF FractionOf
  <2>3. Current(w)' = Current(w)
    BY <1>1 DEF Current
  <2> HIDE DEF after
  <2> QED
    BY <2>1, <2>2, <2>3
<1>8. Current(w)' = Current(w) /\ Kept(w)' = Kept(w)
  BY <1>1 DEF Current, Kept
<1>9. ~snapshot'[w].open
  BY <1>1 DEF RowsInv
<1>10. (\E r \in fiatLogCache :
          /\ r.user = request[w].user /\ r.type = Current(w).type
          /\ r.unsettle = split[w].leftover
          /\ \A q \in RowsOf(fiatLogCache, request[w].user) : q.id <= r.id)'
  <2>1. \A q \in fiatLogCache \cup {n} : q.id <= n.id
    <3>1. n.id \in Nat /\ \A q \in fiatLogCache : q.id \in Nat
      BY <1>5 DEF Row, TypeInv, TypeOK
    <3> QED
      BY <1>5, <3>1
  <2> QED
    BY <1>1, <1>5, <1>8, <2>1 DEF RowsOf
<1>11. (split[w] = CalcLeftover(Current(w).amount + FractionOf(request[w].user, Current(w).type)))'
  BY <1>1, <1>4, <1>6, <1>7, <1>8
<1>12. (Sufficient(w) /\ newBalance[w] = Kept(w) + split[w].amount)'
  BY <1>1, <1>4, <1>8 DEF Sufficient
<1> QED
  BY <1>1, <1>2, <1>9, <1>10, <1>11, <1>12 DEF WorkPaged

LEMMA CreatePaged ==
  ASSUME TypeInv, RowsInv, RowsInv', LocksInv, IdsInv, PagesInv, NEW w \in Worker,
         CreateFiatLogCache(w)
  PROVE  PagesInv'
<1> DEFINE u == request[w].user
<1>1. /\ UNCHANGED <<userBalance, request, snapshot, newBalance, split, posted, failed>>
      /\ pc[w] = "create" /\ pc' = [pc EXCEPT ![w] = "update"]
      /\ fiatLogCache' = IF request[w].inTx THEN fiatLogCache ELSE fiatLogCache \cup {NewRow(w)}
      /\ \A x \in Worker : x # w => written'[x] = written[x]
  BY DEF CreateFiatLogCache, Goto, local, TypeInv, TypeOK
<1>2. \A x \in Worker : pc'[x] = IF x = w THEN "update" ELSE pc[x]
  BY <1>1 DEF TypeInv, TypeOK
<1>3. \A v : v # u => RowsOf(fiatLogCache', v) = RowsOf(fiatLogCache, v)
  BY <1>1, NewRowLast DEF RowsOf
<1>4. ASSUME Undisturbed(u) PROVE WorkPaged(w)'
  <2>1. CASE request[w].inTx
    <3>1. WorkPaged(w)
      BY <1>1, <1>4 DEF PagesInv
    <3>2. ReachedBy(w, posted[w] + 1, newBalance[w])'
      BY <1>4, <2>1, CreateReached
    <3>3. (snapshot[w].open => snapshot[w].rows = RowsOf(fiatLogCache, request[w].user))'
      BY <1>1, <2>1, <3>1 DEF WorkPaged
    <3> QED
      BY <1>1, <1>2, <2>1, <3>2, <3>3 DEF WorkPaged
  <2>2. CASE ~request[w].inTx
    BY <1>4, <2>2, CreateBare
  <2> QED
    BY <2>1, <2>2
<1>5. ASSUME NEW x \in Worker, x # w, pc'[x] # "idle", Undisturbed(request'[x].user)
      PROVE  WorkPaged(x)'
  <2>1. pc[x] # "idle" /\ Undisturbed(request[x].user) /\ pc[w] \in Inside
    BY <1>1, <1>2, <1>5 DEF Inside
  <2>2. request[x].user # u => RowsOf(fiatLogCache', request[x].user) = RowsOf(fiatLogCache, request[x].user)
    BY <1>3
  <2> QED
    BY <1>1, <1>2, <1>5, <2>1, <2>2, OthersPaged
<1> QED
  BY <1>1, <1>4, <1>5 DEF PagesInv

(* The UPDATE keeps the balance of the page it has reached. *)
LEMMA UpdatePaged ==
  ASSUME TypeInv, RowsInv, RowsInv', LocksInv, PagesInv, NEW w \in Worker,
         UpdateUserBalance(w)
  PROVE  PagesInv'
<1> DEFINE u == request[w].user
<1>1. /\ UNCHANGED <<fiatLogCache, request, snapshot, newBalance, split, posted, failed>>
      /\ pc[w] = "update" /\ u \in User
      /\ \A x \in Worker : pc'[x] = IF x = w THEN "unlock" ELSE pc[x]
      /\ userBalance' = IF request[w].inTx THEN userBalance
                        ELSE [userBalance EXCEPT ![u] = newBalance[w]]
  BY DEF UpdateUserBalance, Goto, local, TypeInv, TypeOK, Request
<1>2. \A x \in Worker :
        /\ written'[x].rows = written[x].rows
        /\ IF x = w /\ request[w].inTx
           THEN written'[x].dirty /\ written'[x].balance = newBalance[w]
           ELSE written'[x] = written[x]
  BY UpdateWrites
<1>3. ASSUME Undisturbed(u) PROVE WorkPaged(w)'
  <2>1. WorkPaged(w)
    BY <1>1, <1>3 DEF PagesInv
  <2>2. CASE request[w].inTx
    <3>1. PendingFractions(w)' = PendingFractions(w)
      BY <1>1, <1>2, PendingKept
    <3>2. \A v, t : FractionOf(v, t)' = FractionOf(v, t)
      BY <1>1, <2>2, QuietFractionsOf
    <3>3. \A t \in LogType : FractionOf(request[w].user, t)' = FractionOf(request[w].user, t)
      <4>1. request'[w].user = request[w].user
        BY <1>1
      <4>2. \A t : FractionOf(request[w].user, t)' =
                     LastUnsettle({r \in fiatLogCache' \ HalfPosted' :
                                     r.user = request'[w].user /\ r.type = t})
        BY DEF FractionOf
      <4>3. \A v, t : FractionOf(v, t)' =
                        LastUnsettle({r \in fiatLogCache' \ HalfPosted' : r.user = v /\ r.type = t})
        BY DEF FractionOf
      <4> QED
        BY <3>2, <4>1, <4>2, <4>3
    <3>4. \A k, b : ReachedBy(w, k, b)' <=> ReachedBy(w, k, b)
      BY <1>1, <2>2, <3>1, <3>3, ReachedKept
    <3>5. Kept(w)' = newBalance[w]
      BY <1>2, <2>2 DEF Kept
    <3>6. ReachedBy(w, posted[w] + 1, newBalance[w])
      BY <1>1, <2>1, <2>2 DEF WorkPaged
    <3>7. ReachedBy(w, posted[w] + 1, Kept(w))'
      <4>1. ReachedBy(w, posted[w] + 1, Kept(w))' <=>
              Reached(CommittedPage(request[w].user)', request'[w].calls,
                      Arrears[request'[w].user], posted'[w] + 1, PageOf(Kept(w)', PendingFractions(w)'))
        BY DEF ReachedBy
      <4>2. ReachedBy(w, posted[w] + 1, newBalance[w])' <=>
              Reached(CommittedPage(request[w].user)', request'[w].calls,
                      Arrears[request'[w].user], posted'[w] + 1,
                      PageOf(newBalance'[w], PendingFractions(w)'))
        BY DEF ReachedBy
      <4>3. ReachedBy(w, posted[w] + 1, newBalance[w])'
        <5>1. posted' = posted /\ newBalance' = newBalance
          BY <1>1
        <5>2. \A k, b : ReachedBy(w, k, b)' <=>
                Reached(CommittedPage(request[w].user)', request'[w].calls,
                        Arrears[request'[w].user], k, PageOf(b, PendingFractions(w)'))
          BY DEF ReachedBy
        <5> QED
          BY <3>4, <3>6, <4>2, <5>1, <5>2
      <4> QED
        BY <1>1, <3>5, <4>1, <4>2, <4>3
    <3>8. (snapshot[w].open => snapshot[w].rows = RowsOf(fiatLogCache, request[w].user))'
      BY <1>1, <2>1 DEF WorkPaged
    <3> QED
      BY <1>1, <2>2, <3>7, <3>8 DEF WorkPaged
  <2>3. CASE ~request[w].inTx
    BY <1>1, <2>3, PagedOutside
  <2> QED
    BY <2>2, <2>3
<1>4. ASSUME NEW x \in Worker, x # w, pc'[x] # "idle", Undisturbed(request'[x].user)
      PROVE  WorkPaged(x)'
  <2>1. pc[x] # "idle" /\ Undisturbed(request[x].user) /\ pc[w] \in Inside
    BY <1>1, <1>4 DEF Inside
  <2>2. request[x].user # u => userBalance'[request[x].user] = userBalance[request[x].user]
    BY <1>1 DEF TypeInv, TypeOK, Request
  <2> QED
    BY <1>1, <1>2, <1>4, <2>1, <2>2, OthersPaged
<1> QED
  BY <1>1, <1>3, <1>4 DEF PagesInv

(* The release goes on to the next call of the page, or to the end. *)
LEMMA UnlockPaged ==
  ASSUME TypeInv, RowsInv', LocksInv, PagesInv, NEW w \in Worker, UnlockBalanceMu(w)
  PROVE  PagesInv'
<1> DEFINE last == failed[w] \/ posted[w] + 1 = Len(request[w].calls)
<1>1. /\ UNCHANGED <<userBalance, fiatLogCache, written, request, snapshot, failed>>
      /\ pc[w] = "unlock" /\ pc'[w] = IF last THEN "finish" ELSE "lock"
      /\ posted'[w] = IF last THEN posted[w] ELSE posted[w] + 1
      /\ \A x \in Worker : x # w => /\ pc'[x] = pc[x] /\ newBalance'[x] = newBalance[x]
                                    /\ split'[x] = split[x] /\ posted'[x] = posted[x]
  BY DEF UnlockBalanceMu, Goto, database, TypeInv, TypeOK
<1>2. ASSUME Undisturbed(request[w].user) PROVE WorkPaged(w)'
  <2>1. WorkPaged(w)
    BY <1>1, <1>2 DEF PagesInv
  <2>2. Kept(w)' = Kept(w) /\ \A k, b : ReachedBy(w, k, b)' <=> ReachedBy(w, k, b)
    BY <1>1, OwnPageKept
  <2>3. \A k, b : ReachedBy(w, k, b)' <=>
          Reached(CommittedPage(request[w].user)', request'[w].calls,
                  Arrears[request'[w].user], k, PageOf(b, PendingFractions(w)'))
    BY DEF ReachedBy
  <2>4. request[w].inTx /\ ~failed[w] => ReachedBy(w, posted[w] + 1, Kept(w))
    BY <1>1, <2>1 DEF WorkPaged
  <2>5. CASE last
    <3>1. posted'[w] = posted[w] /\ pc'[w] = "finish"
      BY <1>1, <2>5
    <3>2. ReachedBy(w, posted[w] + 1, Kept(w))' <=>
            Reached(CommittedPage(request[w].user)', request'[w].calls,
                    Arrears[request'[w].user], posted'[w] + 1, PageOf(Kept(w)', PendingFractions(w)'))
      BY DEF ReachedBy
    <3>3. request[w].inTx /\ ~failed[w] => ReachedBy(w, posted[w] + 1, Kept(w))'
      BY <2>2, <2>3, <2>4, <3>1, <3>2
    <3> QED
      BY <1>1, <2>1, <3>1, <3>3 DEF WorkPaged
  <2>6. CASE ~last
    <3>1. posted'[w] = posted[w] + 1 /\ pc'[w] = "lock" /\ ~failed[w]
      BY <1>1, <2>6
    <3>2. ReachedBy(w, posted[w], Kept(w))' <=>
            Reached(CommittedPage(request[w].user)', request'[w].calls,
                    Arrears[request'[w].user], posted'[w], PageOf(Kept(w)', PendingFractions(w)'))
      BY DEF ReachedBy
    <3>3. request[w].inTx => ReachedBy(w, posted[w], Kept(w))'
      BY <2>2, <2>3, <2>4, <3>1, <3>2
    <3> QED
      BY <1>1, <2>1, <3>1, <3>3 DEF WorkPaged
  <2> QED
    BY <2>5, <2>6
<1> QED
  BY <1>1, <1>2, QuietPaged

LEMMA TimeoutPaged ==
  ASSUME TypeInv, RowsInv', LocksInv, PagesInv, NEW w \in Worker, LockWaitTimeout(w)
  PROVE  PagesInv'
<1>1. /\ UNCHANGED <<userBalance, fiatLogCache, written, request, snapshot, split, newBalance, posted>>
      /\ pc[w] = "update" /\ \A x \in Worker : x # w => pc'[x] = pc[x] /\ failed'[x] = failed[x]
  BY DEF LockWaitTimeout, Goto, database, TypeInv, TypeOK
<1>2. ~Undisturbed(request'[w].user)
  BY <1>1, NoTimeout
<1> QED
  BY <1>1, <1>2, QuietPaged DEF Inside

(* The ends of requests that were not half way leave the others' pages. *)
LEMMA EndPaged ==
  ASSUME TypeInv, PagesInv, NEW ws \in SUBSET Worker, EndRequests(ws),
         \A x \in Worker \ ws : pc[x] # "idle" /\ Undisturbed(request[x].user) =>
           /\ userBalance'[request[x].user] = userBalance[request[x].user]
           /\ RowsOf(fiatLogCache', request[x].user) = RowsOf(fiatLogCache, request[x].user)
           /\ \A y \in ws : ~HalfWayBy(y, request[x].user)
  PROVE  PagesInv'
<1>1. \A y \in ws : pc'[y] = "idle"
  BY DEF EndRequests
<1>2. \A y \in Worker \ ws :
        /\ pc'[y] = pc[y] /\ request'[y] = request[y] /\ snapshot'[y] = snapshot[y]
        /\ written'[y] = written[y] /\ newBalance'[y] = newBalance[y]
        /\ split'[y] = split[y] /\ posted'[y] = posted[y]
  BY DEF EndRequests
<1>3. \A y \in Worker \ ws : failed'[y] = failed[y]
  BY Zenon DEF EndRequests
<1> SUFFICES ASSUME NEW x \in Worker, pc'[x] # "idle", Undisturbed(request'[x].user)
             PROVE  WorkPaged(x)'
  BY DEF PagesInv
<1> DEFINE v == request[x].user
<1>4. /\ x \in Worker \ ws /\ pc[x] # "idle" /\ Undisturbed(v) /\ WorkPaged(x)
      /\ userBalance'[v] = userBalance[v] /\ RowsOf(fiatLogCache', v) = RowsOf(fiatLogCache, v)
      /\ \A y \in ws : ~HalfWayBy(y, v)
  BY <1>1, <1>2 DEF PagesInv
<1>5. \A y \in Worker : HalfWayBy(y, v)' <=> HalfWayBy(y, v)
  <2> SUFFICES ASSUME NEW y \in Worker PROVE HalfWayBy(y, v)' <=> HalfWayBy(y, v)
    OBVIOUS
  <2>1. request'[x] = request[x]
    BY <1>2, <1>4
  <2>2. CASE y \in ws
    <3>1. ~HalfWayBy(y, v) /\ pc'[y] # "update"
      BY <1>1, <1>4, <2>2
    <3> QED
      BY <3>1 DEF HalfWayBy
  <2>3. CASE y \notin ws
    BY <1>2, <2>1, <2>3 DEF HalfWayBy
  <2> QED
    BY <2>2, <2>3
<1>6. \A y \in Worker : HalfWayBy(y, v) => Current(y)' = Current(y)
  BY <1>2, <1>4 DEF Current
<1>7. \A t : FractionOf(v, t)' = FractionOf(v, t)
  <2>1. request'[x] = request[x]
    BY <1>2, <1>4
  <2> QED
    BY <1>4, <1>5, <1>6, <2>1, FractionsKept
<1> QED
  BY <1>2, <1>3, <1>4, <1>7, PagedKept

(* A crash does not come half way: bare statements of an undisturbed user are
   made in a process that lives. *)
LEMMA CrashNotHalfWay ==
  ASSUME TypeInv, NEW x \in Worker, ProcessOf[x] \in Mortal, NEW u, Undisturbed(u)
  PROVE  ~HalfWayBy(x, u)
<1> SUFFICES ASSUME HalfWayBy(x, u) PROVE FALSE
  OBVIOUS
<1>1. request[x] \in Requests[x] /\ request[x].user = u /\ ~request[x].inTx
  BY DEF HalfWayBy, TypeInv, Engaged
<1>2. ~OneTransaction(u)
  BY <1>1 DEF OneTransaction
<1> QED
  BY <1>1, <1>2 DEF Undisturbed, BareStatements

LEMMA CommitPaged ==
  ASSUME TypeInv, RowsInv, LocksInv, PagesInv, NEW w \in Worker, Commit(w)
  PROVE  PagesInv'
<1> DEFINE u == request[w].user
<1>1. /\ pc[w] = "finish" /\ EndRequests({w})
      /\ fiatLogCache' = fiatLogCache \cup written[w].rows
      /\ userBalance' = IF written[w].dirty
                        THEN [userBalance EXCEPT ![u] = written[w].balance]
                        ELSE userBalance
  BY DEF Commit
<1>2. \A r \in written[w].rows : r.user = u
  BY DEF RowsInv
<1>3. ~request[w].inTx => written[w].rows = {} /\ ~written[w].dirty
  BY DEF RowsInv, LocksInv
<1>4. ASSUME NEW x \in Worker \ {w}, pc[x] # "idle", Undisturbed(request[x].user)
      PROVE  /\ userBalance'[request[x].user] = userBalance[request[x].user]
             /\ RowsOf(fiatLogCache', request[x].user) = RowsOf(fiatLogCache, request[x].user)
             /\ ~HalfWayBy(w, request[x].user)
  <2>1. request[x].user # u \/ ~request[w].inTx
    BY <1>1, <1>4, OthersOutside
  <2>2. request[x].user \in User
    BY DEF TypeInv, TypeOK, Request
  <2>3. userBalance'[request[x].user] = userBalance[request[x].user]
    BY <1>1, <1>3, <2>1, <2>2 DEF TypeInv, TypeOK
  <2>4. RowsOf(fiatLogCache', request[x].user) = RowsOf(fiatLogCache, request[x].user)
    BY <1>1, <1>2, <1>3, <2>1 DEF RowsOf
  <2> QED
    BY <1>1, <2>3, <2>4 DEF HalfWayBy
<1> QED
  BY <1>1, <1>4, EndPaged

(* Every step keeps the pages. *)
LEMMA NextPaged ==
  ASSUME TypeInv, RowsInv, RowsInv', LocksInv, BalancedInv, IdsInv, PagesInv, [Next]_vars
  PROVE  PagesInv'
<1>1. ASSUME NEW w \in Worker, Start(w) PROVE PagesInv'
  BY <1>1, StartPaged
<1>2. ASSUME NEW w \in Worker, LockBalanceMu(w) PROVE PagesInv'
  BY <1>2, LockPaged
<1>3. ASSUME NEW w \in Worker, FindLastFiatLogCache(w) PROVE PagesInv'
  BY <1>3, FindPaged
<1>4. ASSUME NEW w \in Worker, GetUserBalance(w) PROVE PagesInv'
  BY <1>4, GetPaged
<1>5. ASSUME NEW w \in Worker, CreateFiatLogCache(w) PROVE PagesInv'
  BY <1>5, CreatePaged
<1>6. ASSUME NEW w \in Worker, UpdateUserBalance(w) PROVE PagesInv'
  BY <1>6, UpdatePaged
<1>7. ASSUME NEW w \in Worker, LockWaitTimeout(w) PROVE PagesInv'
  BY <1>7, TimeoutPaged
<1>8. ASSUME NEW w \in Worker, UnlockBalanceMu(w) PROVE PagesInv'
  BY <1>8, UnlockPaged
<1>9. ASSUME NEW w \in Worker, Commit(w) PROVE PagesInv'
  BY <1>9, CommitPaged
<1>10. ASSUME NEW w \in Worker, Rollback(w) PROVE PagesInv'
  <2>1. /\ EndRequests({w}) /\ UNCHANGED <<userBalance, fiatLogCache>> /\ pc[w] = "finish"
        /\ {w} \in SUBSET Worker
    BY <1>10 DEF Rollback
  <2>2. \A u : ~HalfWayBy(w, u)
    BY <2>1 DEF HalfWayBy
  <2> QED
    BY <2>1, <2>2, EndPaged
<1>11. ASSUME NEW o \in OSProcess, Crash(o) PROVE PagesInv'
  <2> DEFINE ws == {w \in Worker : ProcessOf[w] = o}
  <2>1. EndRequests(ws) /\ UNCHANGED <<userBalance, fiatLogCache>> /\ o \in Mortal
    BY <1>11 DEF Crash
  <2>2. \A y \in ws : \A u : Undisturbed(u) => ~HalfWayBy(y, u)
    BY <2>1, CrashNotHalfWay
  <2>3. ws \in SUBSET Worker
    OBVIOUS
  <2> HIDE DEF ws
  <2> QED
    BY <2>1, <2>2, <2>3, EndPaged
<1>12. CASE UNCHANGED vars
  <2>1. UNCHANGED <<userBalance, fiatLogCache, written, request, snapshot, split, newBalance,
                    posted, failed, pc>>
    BY <1>12 DEF vars, database, local
  <2>2. ASSUME NEW x \in Worker, pc'[x] # "idle", Undisturbed(request'[x].user)
        PROVE  WorkPaged(x)'
    <3>1. \A y \in Worker : HalfWayBy(y, request[x].user)' <=> HalfWayBy(y, request[x].user)
      BY <2>1 DEF HalfWayBy
    <3>2. \A y \in Worker : Current(y)' = Current(y)
      BY <2>1 DEF Current
    <3>3. \A t : FractionOf(request[x].user, t)' = FractionOf(request[x].user, t)
      BY <2>1, <3>1, <3>2, FractionsKept
    <3>4. WorkPaged(x)
      BY <2>1, <2>2 DEF PagesInv
    <3> QED
      BY <2>1, <3>3, <3>4, PagedKept
  <2> QED
    BY <2>2 DEF PagesInv
<1> QED
  BY <1>1, <1>2, <1>3, <1>4, <1>5, <1>6, <1>7, <1>8, <1>9, <1>10, <1>11, <1>12
  DEF Next, Proceed, Quiescent

LEMMA InitPaged == Init => IdsInv /\ FailedInv /\ PagesInv
BY DEF Init, IdsInv, FailedInv, PagesInv, Clean
-----------------------------------------------------------------------------
(* A step that moves one user to the page after its calls posts them. *)
LEMMA PostsPage ==
  ASSUME NEW u \in User, NEW calls, NEW b, NEW f \in [LogType -> Int],
         Book!PageAfter(u, calls) = PageOf(b, f),
         \E w \in Worker : \E r \in Requests[w] : r.user = u /\ r.calls = calls,
         userBalance' = [userBalance EXCEPT ![u] = b],
         \A t \in LogType : FractionOf(u, t)' = f[t],
         \A v \in User : v # u => \A t \in LogType : FractionOf(v, t)' = FractionOf(v, t)
  PROVE  Book!BookNext
<1> DEFINE order == [user |-> u, calls |-> calls]
           before == [v \in User |-> [t \in LogType |-> FractionOf(v, t)]]
           after == [v \in User |-> [t \in LogType |-> FractionOf(v, t)']]
<1>1. order \in {[user |-> r.user, calls |-> r.calls] : r \in UNION {Requests[w] : w \in Worker}}
  OBVIOUS
<1>2. after = [before EXCEPT ![u] = f]
  <2>1. [t \in LogType |-> FractionOf(u, t)'] = f
    OBVIOUS
  <2>2. \A v \in User : v # u =>
          [t \in LogType |-> FractionOf(v, t)'] = [t \in LogType |-> FractionOf(v, t)]
    OBVIOUS
  <2>3. \A v \in User : after[v] = IF v = u THEN f ELSE before[v]
    BY <2>1, <2>2
  <2>4. after = [v \in User |-> IF v = u THEN f ELSE before[v]]
    BY <2>3
  <2>5. [before EXCEPT ![u] = f] = [v \in User |-> IF v = u THEN f ELSE before[v]]
    <3>1. DOMAIN before = User
      OBVIOUS
    <3> HIDE DEF before
    <3> QED
      BY <3>1
  <2> HIDE DEF after, before
  <2> QED
    BY <2>4, <2>5
<1>3. /\ PageOf(b, f).ok = TRUE /\ PageOf(b, f).account = b /\ PageOf(b, f).fraction = f
  BY DEF PageOf
<1>4. order.user = u /\ order.calls = calls
  OBVIOUS
<1>5. Book!Post(order)
  <2> HIDE DEF order
  <2> QED
    BY <1>2, <1>3, <1>4 DEF Book!Post
<1> HIDE DEF order
<1> QED
  BY <1>1, <1>5 DEF Book!BookNext

(* A step that moves nobody leaves the book. *)
LEMMA LeavesBook ==
  ASSUME UNCHANGED userBalance,
         \A v \in User : \A t \in LogType : FractionOf(v, t)' = FractionOf(v, t)
  PROVE  UNCHANGED Book!book
BY DEF Book!book

(* After a step that ends the half way statements of a user, all of its rows
   count. *)
LEMMA NoneHalfPostedNext ==
  ASSUME NEW u, \A x \in Worker : ~HalfWayBy(x, u)', NEW t
  PROVE  FractionOf(u, t)' = LastUnsettle(OfType(fiatLogCache', u, t))
<1>1. \A r \in HalfPosted' : r.user # u
  BY DEF HalfPosted, HalfWayBy
<1>2. {r \in fiatLogCache' \ HalfPosted' : r.user = u /\ r.type = t} = OfType(fiatLogCache', u, t)
  BY <1>1 DEF OfType
<1>3. FractionOf(u, t)' = LastUnsettle({r \in fiatLogCache' \ HalfPosted' : r.user = u /\ r.type = t})
  BY DEF FractionOf
<1> QED
  BY <1>2, <1>3

LEMMA FractionTyped ==
  ASSUME TypeInv, RowsInv, NEW u, NEW t
  PROVE  FractionOf(u, t) \in Int
<1> DEFINE rows == {r \in fiatLogCache \ HalfPosted : r.user = u /\ r.type = t}
<1>1. rows \in SUBSET Row /\ lastId \in Nat /\ \A r \in rows : r.id <= lastId
  BY DEF TypeInv, TypeOK, RowsInv
<1> HIDE DEF rows
<1>2. LastUnsettle(rows) \in Int
  BY <1>1, LastTyped
<1> QED
  BY <1>2 DEF FractionOf, rows

(* The commit of a transaction posts its calls. *)
LEMMA CommitPosts ==
  ASSUME TypeInv, RowsInv, LocksInv, IdsInv, FailedInv, PagesInv, NEW w \in Worker, Commit(w),
         NEW u \in User, request[w].user = u, Undisturbed(u), request[w].inTx
  PROVE  Book!BookNext
<1> DEFINE calls == request[w].calls
           f == PendingFractions(w)
           b == Kept(w)
<1>1. /\ pc[w] = "finish" /\ ~failed[w] /\ EndRequests({w})
      /\ fiatLogCache' = fiatLogCache \cup written[w].rows
      /\ userBalance' = IF written[w].dirty
                        THEN [userBalance EXCEPT ![u] = written[w].balance]
                        ELSE userBalance
  BY DEF Commit
<1>2. /\ pc'[w] = "idle"
      /\ \A x \in Worker : x # w =>
           pc'[x] = pc[x] /\ request'[x] = request[x] /\ posted'[x] = posted[x]
  BY <1>1 DEF EndRequests
<1>3. request[w] \in Requests[w] /\ posted[w] + 1 = Len(calls) /\ Len(calls) \in Nat
  BY <1>1 DEF TypeInv, TypeOK, Engaged, FailedInv, Request
<1>4. Book!PageAfter(u, calls) = PageOf(b, f)
  <2>1. WorkPaged(w)
    BY <1>1 DEF PagesInv
  <2>2. ReachedBy(w, Len(calls), b)
    BY <1>1, <1>3, <2>1 DEF WorkPaged
  <2> HIDE DEF calls, b, f
  <2>3. Reached(PageOf(userBalance[u], [t \in LogType |-> FractionOf(u, t)]), calls, Arrears[u],
                Len(calls), PageOf(b, f))
    BY <2>2 DEF ReachedBy, CommittedPage, calls, f
  <2> QED
    BY <1>3, <2>3, ReachedIsPage
<1>5. userBalance' = [userBalance EXCEPT ![u] = b]
  BY <1>1 DEF Kept, TypeInv, TypeOK
<1>6. \A t \in LogType : FractionOf(u, t)' = f[t]
  <2>1. ~HalfWay(u)
    BY <1>1, NotHalfWay
  <2>2. \A x \in Worker : ~HalfWayBy(x, u)'
    BY <1>2, <2>1 DEF HalfWay, HalfWayBy
  <2>3. \A t : FractionOf(u, t)' = LastUnsettle(OfType(fiatLogCache', u, t))
    BY <2>2, NoneHalfPostedNext
  <2> QED
    BY <1>1, <2>3 DEF PendingFractions, Pending
<1>7. ASSUME NEW v \in User, v # u
      PROVE  \A t \in LogType : FractionOf(v, t)' = FractionOf(v, t)
  <2>1. RowsOf(fiatLogCache', v) = RowsOf(fiatLogCache, v)
    BY <1>1, <1>7 DEF RowsOf, RowsInv
  <2>2. \A x \in Worker : HalfWayBy(x, v)' <=> HalfWayBy(x, v)
    BY <1>1, <1>2 DEF HalfWayBy
  <2>3. \A x \in Worker : HalfWayBy(x, v) => Current(x)' = Current(x)
    BY <1>1, <1>2 DEF HalfWayBy, Current
  <2> QED
    BY <2>1, <2>2, <2>3, FractionsKept
<1>8. f \in [LogType -> Int]
  BY PendingFractionsTyped
<1> HIDE DEF calls, f, b
<1>9. \E x \in Worker : \E r \in Requests[x] : r.user = u /\ r.calls = calls
  BY <1>3 DEF calls
<1> QED
  BY <1>4, <1>5, <1>6, <1>7, <1>8, <1>9, PostsPage

(* The UPDATE of a bare statement posts its call. *)
LEMMA UpdatePosts ==
  ASSUME TypeInv, RowsInv, LocksInv, IdsInv, PagesInv, NEW w \in Worker, UpdateUserBalance(w),
         NEW u \in User, request[w].user = u, Undisturbed(u), ~request[w].inTx
  PROVE  Book!BookNext
<1> DEFINE calls == request[w].calls
           call == Current(w)
           s == split[w]
           fractions == [t \in LogType |-> FractionOf(u, t)]
           f == [fractions EXCEPT ![call.type] = s.leftover]
           b == newBalance[w]
<1>1. /\ UNCHANGED <<fiatLogCache, request, posted>> /\ pc[w] = "update"
      /\ \A x \in Worker : pc'[x] = IF x = w THEN "unlock" ELSE pc[x]
      /\ userBalance' = [userBalance EXCEPT ![u] = b]
  BY DEF UpdateUserBalance, Goto, local, TypeInv, TypeOK
<1>2. request[w] \in Requests[w] /\ call \in Call /\ Arrears[u] \in Int /\ userBalance[u] \in Int
  BY <1>1, CurrentIsCall, LedgerAssumption DEF TypeInv, TypeOK, Engaged
<1>3. posted[w] = 0 /\ Len(calls) = 1 /\ call = calls[1]
  <2>1. Len(calls) = 1
    BY <1>2 DEF Undisturbed, OneTransaction, BareStatements
  <2>2. posted[w] \in Nat /\ posted[w] + 1 \in 1 .. Len(calls)
    BY <1>1 DEF TypeInv, TypeOK, Engaged
  <2> QED
    BY <2>1, <2>2 DEF Current
<1>4. /\ \E r \in fiatLogCache :
           /\ r.user = u /\ r.type = call.type /\ r.unsettle = s.leftover
           /\ \A q \in RowsOf(fiatLogCache, u) : q.id <= r.id
      /\ s = CalcLeftover(call.amount + FractionOf(u, call.type))
      /\ Sufficient(w) /\ b = userBalance[u] + s.amount
  <2>1. ~written[w].dirty
    BY DEF LocksInv
  <2>2. WorkPaged(w)
    BY <1>1 DEF PagesInv
  <2>3. Kept(w) = userBalance[u]
    BY <2>1 DEF Kept
  <2> QED
    BY <1>1, <2>2, <2>3 DEF WorkPaged
<1>5. call.check => userBalance[u] + Arrears[u] + s.amount >= 0
  <2>1. ~written[w].dirty
    BY DEF LocksInv
  <2> QED
    BY <1>4, <2>1 DEF Sufficient, Kept
<1>6. fractions \in [LogType -> Int] /\ call.type \in LogType
  BY <1>2, FractionTyped DEF Call
<1>7. s = CalcLeftover(call.amount + fractions[call.type]) /\ s.leftover \in Int
  BY <1>4, <1>6 DEF TypeInv, TypeOK
<1>8. f \in [LogType -> Int]
  <2> HIDE DEF fractions, call, s
  <2> QED
    BY <1>6, <1>7
<1>9. Book!PageAfter(u, calls) = PageOf(b, f)
  <2> DEFINE base == PageOf(userBalance[u], fractions)
             p == PostedPage(userBalance[u], fractions, call, s)
  <2>1. base \in Page
    <3> HIDE DEF fractions
    <3> QED BY <1>2, <1>6 DEF PageOf, Page
  <2>2. Reached(base, calls, Arrears[u], 0, base)
    <3> HIDE DEF base, calls
    <3> QED BY <2>1, ReachedFirst
  <2>3. Book!PostOne(base, call, Arrears[u]) = p
    <3> HIDE DEF fractions, call, s
    <3> QED BY <1>2, <1>5, <1>6, <1>7, PostOnePage
  <2>4. Reached(base, calls, Arrears[u], 0 + 1, Book!PostOne(base, calls[0 + 1], Arrears[u]))
    <3>1. calls[0 + 1] \in Call
      BY <1>2, <1>3
    <3> HIDE DEF base, calls, call
    <3> QED BY <1>2, <2>2, <3>1, ReachedNext
  <2>5. Reached(base, calls, Arrears[u], 1, p)
    <3>1. 0 + 1 = 1
      OBVIOUS
    <3> HIDE DEF base, calls, call, p
    <3> QED BY <1>3, <2>3, <2>4, <3>1
  <2>6. Book!PageAfter(u, calls) = p
    <3> HIDE DEF calls, p
    <3>1. Reached(PageOf(userBalance[u], [t \in LogType |-> FractionOf(u, t)]), calls, Arrears[u],
                  Len(calls), p)
      BY <1>3, <2>5
    <3>2. Len(calls) \in Nat
      BY <1>3
    <3> QED
      BY <3>1, <3>2, ReachedIsPage
  <2> QED
    BY <1>4, <2>6 DEF PostedPage
<1>10. ASSUME NEW x \in Worker, HalfWayBy(x, u) PROVE x = w
  <2>1. pc[x] \in Inside /\ pc[x] # "idle" /\ pc[w] \in Inside /\ pc[w] # "idle"
    BY <1>1, <1>10 DEF HalfWayBy, Inside
  <2> QED
    BY <1>10, <2>1, OthersOutside DEF HalfWayBy
<1>11. \A t : FractionOf(u, t)' = LastUnsettle(OfType(fiatLogCache, u, t))
  <2>1. \A x \in Worker : ~HalfWayBy(x, u)'
    BY <1>1, <1>10 DEF HalfWayBy
  <2> QED
    BY <1>1, <2>1, NoneHalfPostedNext
<1>12. \A t \in LogType : FractionOf(u, t)' = f[t]
  <2> SUFFICES ASSUME NEW t \in LogType PROVE FractionOf(u, t)' = f[t]
    OBVIOUS
  <2>1. CASE t = call.type
    <3> DEFINE rows == OfType(fiatLogCache, u, t)
    <3>1. rows \in SUBSET Row /\ \A r, q \in rows : r.id = q.id => r = q
      BY DEF OfType, TypeInv, TypeOK, IdsInv
    <3>2. PICK last \in rows : last.unsettle = s.leftover /\ \A q \in rows : q.id <= last.id
      BY <1>4, <2>1 DEF OfType, RowsOf
    <3> HIDE DEF rows
    <3>3. LastUnsettle(rows) = s.leftover
      BY <3>1, <3>2, LastIs
    <3> QED
      BY <1>6, <1>11, <2>1, <3>3 DEF rows
  <2>2. CASE t # call.type
    <3>1. \A r \in HalfPosted : r.user = u => r.type = call.type
      BY <1>10 DEF HalfPosted, HalfWayBy
    <3>2. {r \in fiatLogCache \ HalfPosted : r.user = u /\ r.type = t} = OfType(fiatLogCache, u, t)
      BY <2>2, <3>1 DEF OfType
    <3>3. FractionOf(u, t)' = FractionOf(u, t)
      BY <1>11, <3>2 DEF FractionOf
    <3> QED
      BY <2>2, <3>3
  <2> QED
    BY <2>1, <2>2
<1>13. ASSUME NEW v \in User, v # u
       PROVE  \A t \in LogType : FractionOf(v, t)' = FractionOf(v, t)
  <2>1. RowsOf(fiatLogCache', v) = RowsOf(fiatLogCache, v)
    BY <1>1
  <2>2. \A x \in Worker : HalfWayBy(x, v)' <=> HalfWayBy(x, v)
    BY <1>1, <1>13 DEF HalfWayBy
  <2>3. \A x \in Worker : Current(x)' = Current(x)
    BY <1>1 DEF Current
  <2> QED
    BY <2>1, <2>2, <2>3, FractionsKept
<1>14. \E x \in Worker : \E r \in Requests[x] : r.user = u /\ r.calls = calls
  BY <1>2
<1> HIDE DEF calls, f, b
<1> QED
  BY <1>1, <1>8, <1>9, <1>12, <1>13, <1>14, PostsPage

(* A row not yet counted leaves the fractions of everybody. *)
LEMMA CreateLeavesBook ==
  ASSUME TypeInv, RowsInv, LocksInv, NEW w \in Worker, CreateFiatLogCache(w),
         Undisturbed(request[w].user)
  PROVE  UNCHANGED Book!book
<1>1. /\ UNCHANGED <<userBalance, request, posted>>
      /\ pc[w] = "create" /\ pc' = [pc EXCEPT ![w] = "update"]
      /\ fiatLogCache' = IF request[w].inTx THEN fiatLogCache ELSE fiatLogCache \cup {NewRow(w)}
  BY DEF CreateFiatLogCache, Goto, local
<1>2. \A x \in Worker : pc'[x] = IF x = w THEN "update" ELSE pc[x]
  BY <1>1 DEF TypeInv, TypeOK
<1>3. ASSUME NEW v \in User
      PROVE  \A t \in LogType : FractionOf(v, t)' = FractionOf(v, t)
  <2>1. CASE v = request[w].user
    <3>1. \A t : FractionOf(request[w].user, t)' = FractionOf(request[w].user, t)
      BY CreateKeepsFractions
    <3>2. \A t : FractionOf(request[w].user, t)' =
                   LastUnsettle({r \in fiatLogCache' \ HalfPosted' :
                                   r.user = request'[w].user /\ r.type = t})
      BY DEF FractionOf
    <3>3. \A t : FractionOf(v, t)' =
                   LastUnsettle({r \in fiatLogCache' \ HalfPosted' : r.user = v /\ r.type = t})
      BY DEF FractionOf
    <3> QED
      BY <1>1, <2>1, <3>1, <3>2, <3>3
  <2>2. CASE v # request[w].user
    <3>1. RowsOf(fiatLogCache', v) = RowsOf(fiatLogCache, v)
      BY <1>1, <2>2, NewRowLast DEF RowsOf
    <3>2. \A x \in Worker : HalfWayBy(x, v)' <=> HalfWayBy(x, v)
      BY <1>1, <1>2, <2>2 DEF HalfWayBy
    <3>3. \A x \in Worker : Current(x)' = Current(x)
      BY <1>1 DEF Current
    <3> QED
      BY <3>1, <3>2, <3>3, FractionsKept
  <2> QED
    BY <2>1, <2>2
<1> QED
  BY <1>1, <1>3, LeavesBook

(* Every step of the ledger is a posting of the book, or none of its steps. *)
LEMMA StepPosts ==
  ASSUME \A u \in User : Undisturbed(u), TypeInv, RowsInv, LocksInv, IdsInv, FailedInv,
         PagesInv, [Next]_vars
  PROVE  [Book!BookNext]_(Book!book)
<1>1. ASSUME NEW w \in Worker PROVE request[w].user \in User
  BY DEF TypeInv, TypeOK, Request
<1>2. ASSUME NEW w \in Worker, UNCHANGED <<userBalance, fiatLogCache>>,
             \A x \in Worker : x # w =>
               pc'[x] = pc[x] /\ request'[x] = request[x] /\ posted'[x] = posted[x],
             pc[w] = "update" => request[w].inTx, pc'[w] = "update" => request'[w].inTx
      PROVE  UNCHANGED Book!book
  BY <1>2, QuietFractionsOf, LeavesBook
<1>3. ASSUME NEW w \in Worker, Start(w) PROVE UNCHANGED Book!book
  <2>1. \A x \in Worker : x # w =>
          pc'[x] = pc[x] /\ request'[x] = request[x] /\ posted'[x] = posted[x]
    BY <1>3 DEF Start, Goto, TypeInv, TypeOK
  <2>2. UNCHANGED <<userBalance, fiatLogCache>> /\ pc[w] = "idle" /\ pc'[w] = "lock"
    BY <1>3 DEF Start, Goto, database, TypeInv, TypeOK
  <2> QED
    BY <1>2, <2>1, <2>2
<1>4. ASSUME NEW w \in Worker,
             LockBalanceMu(w) \/ FindLastFiatLogCache(w) \/ GetUserBalance(w) \/ UnlockBalanceMu(w)
      PROVE  UNCHANGED Book!book
  <2>1. /\ UNCHANGED <<userBalance, fiatLogCache, request>>
        /\ pc[w] \in {"lock", "find", "read", "unlock"}
        /\ \E next \in {"find", "read", "create", "unlock", "lock", "finish"} :
             pc' = [pc EXCEPT ![w] = next]
    BY <1>4 DEF LockBalanceMu, FindLastFiatLogCache, GetUserBalance, UnlockBalanceMu,
                Goto, database, local
  <2>2. \A x \in Worker : x # w => posted'[x] = posted[x]
    BY <1>4 DEF LockBalanceMu, FindLastFiatLogCache, GetUserBalance, UnlockBalanceMu,
                local, TypeInv, TypeOK
  <2>3. \A x \in Worker : x # w => pc'[x] = pc[x]
    BY <2>1 DEF TypeInv, TypeOK
  <2>4. pc[w] # "update" /\ pc'[w] # "update"
    BY <2>1 DEF TypeInv, TypeOK
  <2> QED
    BY <1>2, <2>1, <2>2, <2>3, <2>4
<1>5. ASSUME NEW w \in Worker, CreateFiatLogCache(w) PROVE UNCHANGED Book!book
  BY <1>1, <1>5, CreateLeavesBook
<1>6. ASSUME NEW w \in Worker, UpdateUserBalance(w) PROVE Book!BookNext \/ UNCHANGED Book!book
  <2>1. CASE request[w].inTx
    <3>1. UNCHANGED <<userBalance, fiatLogCache, request, posted>>
      BY <1>6, <2>1 DEF UpdateUserBalance, local
    <3>2. \A x \in Worker : pc'[x] = IF x = w THEN "unlock" ELSE pc[x]
      BY <1>6 DEF UpdateUserBalance, Goto, TypeInv, TypeOK
    <3> QED
      BY <1>2, <2>1, <3>1, <3>2
  <2>2. CASE ~request[w].inTx
    BY <1>1, <1>6, <2>2, UpdatePosts
  <2> QED
    BY <2>1, <2>2
<1>7. ASSUME NEW w \in Worker, LockWaitTimeout(w) PROVE FALSE
  BY <1>1, <1>7, NoTimeout
<1>8. ASSUME NEW w \in Worker, EndRequests({w}), pc[w] = "finish",
             UNCHANGED <<userBalance, fiatLogCache>>
      PROVE  UNCHANGED Book!book
  <2>1. \A x \in Worker : x # w =>
          pc'[x] = pc[x] /\ request'[x] = request[x] /\ posted'[x] = posted[x]
    BY <1>8 DEF EndRequests
  <2>2. pc'[w] = "idle"
    BY <1>8 DEF EndRequests
  <2> QED
    BY <1>2, <1>8, <2>1, <2>2
<1>9. ASSUME NEW w \in Worker, Commit(w) PROVE Book!BookNext \/ UNCHANGED Book!book
  <2>1. CASE request[w].inTx
    BY <1>1, <1>9, <2>1, CommitPosts
  <2>2. CASE ~request[w].inTx
    <3>1. written[w].rows = {} /\ ~written[w].dirty
      BY <2>2 DEF RowsInv, LocksInv
    <3>2. /\ EndRequests({w}) /\ pc[w] = "finish" /\ UNCHANGED <<userBalance, fiatLogCache>>
      BY <1>9, <3>1 DEF Commit
    <3> QED
      BY <1>8, <3>2
  <2> QED
    BY <2>1, <2>2
<1>10. ASSUME NEW w \in Worker, Rollback(w) PROVE UNCHANGED Book!book
  BY <1>8, <1>10 DEF Rollback
<1>11. ASSUME NEW o \in OSProcess, Crash(o) PROVE UNCHANGED Book!book
  <2> DEFINE ws == {w \in Worker : ProcessOf[w] = o}
  <2>1. EndRequests(ws) /\ UNCHANGED <<userBalance, fiatLogCache>> /\ o \in Mortal
    BY <1>11 DEF Crash
  <2>2. \A y \in ws : pc'[y] = "idle"
    BY <2>1 DEF EndRequests
  <2>3. \A y \in Worker \ ws :
          pc'[y] = pc[y] /\ request'[y] = request[y] /\ posted'[y] = posted[y]
    BY <2>1 DEF EndRequests
  <2>4. \A y \in ws : y \in Worker /\ ProcessOf[y] \in Mortal
    BY <2>1
  <2> HIDE DEF ws
  <2>5. ASSUME NEW v \in User
        PROVE  \A t \in LogType : FractionOf(v, t)' = FractionOf(v, t)
    <3>1. \A y \in ws : ~HalfWayBy(y, v)
      BY <2>4, CrashNotHalfWay
    <3>2. \A y \in Worker : HalfWayBy(y, v)' <=> HalfWayBy(y, v)
      <4> SUFFICES ASSUME NEW y \in Worker PROVE HalfWayBy(y, v)' <=> HalfWayBy(y, v)
        OBVIOUS
      <4>1. CASE y \in ws
        BY <2>2, <3>1, <4>1 DEF HalfWayBy
      <4>2. CASE y \notin ws
        BY <2>3, <4>2 DEF HalfWayBy
      <4> QED
        BY <4>1, <4>2
    <3>3. \A y \in Worker : HalfWayBy(y, v) => Current(y)' = Current(y)
      BY <2>3, <3>1 DEF Current
    <3> QED
      BY <2>1, <3>2, <3>3, FractionsKept
  <2> QED
    BY <2>1, <2>5, LeavesBook
<1>12. CASE UNCHANGED vars
  <2>1. UNCHANGED <<userBalance, fiatLogCache, pc, request, posted>>
    BY <1>12 DEF vars, database, local
  <2>2. \A v : \A y \in Worker : HalfWayBy(y, v)' <=> HalfWayBy(y, v)
    BY <2>1 DEF HalfWayBy
  <2>3. \A y \in Worker : Current(y)' = Current(y)
    BY <2>1 DEF Current
  <2>4. \A v : \A t : FractionOf(v, t)' = FractionOf(v, t)
    <3> SUFFICES ASSUME NEW v PROVE \A t : FractionOf(v, t)' = FractionOf(v, t)
      OBVIOUS
    <3> QED
      BY <2>1, <2>2, <2>3, FractionsKept
  <2> QED
    BY <2>1, <2>4, LeavesBook
<1> QED
  BY <1>3, <1>4, <1>5, <1>6, <1>7, <1>9, <1>10, <1>11, <1>12 DEF Next, Proceed, Quiescent

(* An empty ledger is an empty book. *)
LEMMA InitBook == Init => Book!BookInit
<1> SUFFICES ASSUME Init PROVE Book!BookInit
  OBVIOUS
<1>1. fiatLogCache = {} /\ userBalance = InitialBalance
  BY DEF Init
<1>2. \A u, t : FractionOf(u, t) = 0
  BY <1>1 DEF FractionOf, LastUnsettle
<1> QED
  BY <1>1, <1>2 DEF Book!BookInit

(* balance.go:186-255: when the postings to a user do not overlap, every
   request takes effect whole, at one instant, against the balance of that
   instant, with the fraction of each type carried on, whatever the mutexes,
   row locks, snapshots, failures and crashes do in between. *)
THEOREM LedgerImplementsBook ==
  ASSUME \A u \in User : Undisturbed(u)
  PROVE  Spec => ImplementsBook
<1> DEFINE AllInv == /\ TypeInv /\ FractionsInv /\ LocksInv /\ BalancedInv
                     /\ IdsInv /\ FailedInv /\ PagesInv
<1>1. Init => AllInv /\ Book!BookInit
  BY InitTypeInv, InitFractions, InitBalanced, InitPaged, InitBook
<1>2. AllInv /\ [Next]_vars => AllInv'
  <2> SUFFICES ASSUME AllInv, [Next]_vars PROVE AllInv'
    OBVIOUS
  <2>1. TypeInv' /\ FractionsInv' /\ LocksInv' /\ IdsInv' /\ FailedInv'
    BY NextTypeInv, NextFractions, NextLocks, NextIds, NextFailed DEF FractionsInv
  <2>2. BalancedInv' /\ PagesInv'
    BY <2>1, NextBalanced, NextPaged DEF FractionsInv
  <2> QED
    BY <2>1, <2>2
<1>3. AllInv /\ [Next]_vars => [Book!BookNext]_(Book!book)
  BY StepPosts DEF FractionsInv
<1> HIDE DEF AllInv
<1> QED
  BY <1>1, <1>2, <1>3, PTL DEF Spec, ImplementsBook, Book!BookSpec
=============================================================================
