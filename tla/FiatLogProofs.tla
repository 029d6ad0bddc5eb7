--------------------------- MODULE FiatLogProofs ---------------------------
(***************************************************************************)
(* Theorems about FiatLogMerge: each row is merged once, refunds match the *)
(* payments they pay back, the logs hold the amounts of their rows, and    *)
(* running balances add up with what is still to be merged.                *)
(*                                                                         *)
(* Each is about what transactions have read and are going to write, too:  *)
(* the invariants speak of the tables and of the two transactions that may *)
(* be under way, and a commit carries over from these to those.            *)
(***************************************************************************)
EXTENDS FiatLogMerge, AmountProofs, TLAPS

LEMMA AmountType ==
  ASSUME NEW S, IsFiniteSet(S), \A r \in S : r.amount \in Int
  PROVE  AmountIn(S) \in Int
<1> DEFINE f == [r \in S |-> r.amount]
<1>1. \A r \in S : f[r] \in Int
  OBVIOUS
<1>2. AmountIn(S) = SumFunctionOnSet(f, S)
  BY DEF AmountIn
<1> HIDE DEF f
<1> QED
  BY <1>1, <1>2, SumInt

LEMMA AmountNone == AmountIn({}) = 0
BY SumEmpty DEF AmountIn

LEMMA AmountUnion ==
  ASSUME NEW S, IsFiniteSet(S), NEW R, IsFiniteSet(R), S \cap R = {},
         \A r \in S \cup R : r.amount \in Int
  PROVE  AmountIn(S \cup R) = AmountIn(S) + AmountIn(R)
<1> DEFINE f == [r \in S \cup R |-> r.amount]
           g == [r \in S |-> r.amount]
           h == [r \in R |-> r.amount]
<1>1. /\ \A r \in S \cup R : f[r] \in Int
      /\ \A r \in S : f[r] = g[r]
      /\ \A r \in R : f[r] = h[r]
  OBVIOUS
<1>2. /\ AmountIn(S \cup R) = SumFunctionOnSet(f, S \cup R)
      /\ AmountIn(S) = SumFunctionOnSet(g, S) /\ AmountIn(R) = SumFunctionOnSet(h, R)
  BY DEF AmountIn
<1> HIDE DEF f, g, h
<1>3. SumFunctionOnSet(f, S \cup R) = SumFunctionOnSet(f, S) + SumFunctionOnSet(f, R)
  BY <1>1, SumUnion
<1>4. SumFunctionOnSet(f, S) = SumFunctionOnSet(g, S)
  BY <1>1, SumSame
<1>5. SumFunctionOnSet(f, R) = SumFunctionOnSet(h, R)
  BY <1>1, SumSame
<1> QED
  BY <1>2, <1>3, <1>4, <1>5

LEMMA AmountOne ==
  ASSUME NEW r, r.amount \in Int
  PROVE  AmountIn({r}) = r.amount
<1> DEFINE f == [x \in {r} |-> x.amount]
<1>1. f[r] = r.amount /\ AmountIn({r}) = SumFunctionOnSet(f, {r})
  BY DEF AmountIn
<1> HIDE DEF f
<1> QED
  BY <1>1, SumSingle

LEMMA AmountById ==
  ASSUME NEW S, IsFiniteSet(S), NEW R, UniqueIds(S), UniqueIds(R), IdsOf(S) = IdsOf(R),
         \A x \in S : x.amount \in Int, \A x \in S, y \in R : x.id = y.id => x.amount = y.amount
  PROVE  IsFiniteSet(R) /\ AmountIn(R) = AmountIn(S)
<1> DEFINE f == [x \in S |-> x.amount]
           h == [x \in R |-> x.amount]
<1>1. /\ \A x \in S : f[x] \in Int
      /\ \A x \in S, y \in R : x.id = y.id => f[x] = h[y]
  OBVIOUS
<1>2. AmountIn(S) = SumFunctionOnSet(f, S) /\ AmountIn(R) = SumFunctionOnSet(h, R)
  BY DEF AmountIn
<1> HIDE DEF f, h
<1>3. SameIds(S, R)
  BY DEF IdsOf, SameIds
<1> QED
  BY <1>1, <1>2, <1>3, SumById

LEMMA CountType ==
  ASSUME NEW S, IsFiniteSet(S), \A r \in S : r.count \in Int
  PROVE  CountIn(S) \in Int
<1> DEFINE f == [r \in S |-> r.count]
<1>1. \A r \in S : f[r] \in Int
  OBVIOUS
<1>2. CountIn(S) = SumFunctionOnSet(f, S)
  BY DEF CountIn
<1> HIDE DEF f
<1> QED
  BY <1>1, <1>2, SumInt

LEMMA CountNone == CountIn({}) = 0
BY SumEmpty DEF CountIn

LEMMA CountUnion ==
  ASSUME NEW S, IsFiniteSet(S), NEW R, IsFiniteSet(R), S \cap R = {},
         \A r \in S \cup R : r.count \in Int
  PROVE  CountIn(S \cup R) = CountIn(S) + CountIn(R)
<1> DEFINE f == [r \in S \cup R |-> r.count]
           g == [r \in S |-> r.count]
           h == [r \in R |-> r.count]
<1>1. /\ \A r \in S \cup R : f[r] \in Int
      /\ \A r \in S : f[r] = g[r]
      /\ \A r \in R : f[r] = h[r]
  OBVIOUS
<1>2. /\ CountIn(S \cup R) = SumFunctionOnSet(f, S \cup R)
      /\ CountIn(S) = SumFunctionOnSet(g, S) /\ CountIn(R) = SumFunctionOnSet(h, R)
  BY DEF CountIn
<1> HIDE DEF f, g, h
<1>3. SumFunctionOnSet(f, S \cup R) = SumFunctionOnSet(f, S) + SumFunctionOnSet(f, R)
  BY <1>1, SumUnion
<1>4. SumFunctionOnSet(f, S) = SumFunctionOnSet(g, S)
  BY <1>1, SumSame
<1>5. SumFunctionOnSet(f, R) = SumFunctionOnSet(h, R)
  BY <1>1, SumSame
<1> QED
  BY <1>2, <1>3, <1>4, <1>5

LEMMA CountOne ==
  ASSUME NEW r, r.count \in Int
  PROVE  CountIn({r}) = r.count
<1> DEFINE f == [x \in {r} |-> x.count]
<1>1. \A x \in {r} : f[x] \in Int /\ f[x] = r.count
  OBVIOUS
<1>2. CountIn({r}) = SumFunctionOnSet(f, {r})
  BY DEF CountIn
<1>3. IsFiniteSet({r}) /\ {r} \ {r} = {}
  BY FS_Singleton
<1> HIDE DEF f
<1>4. SumFunctionOnSet(f, {r}) = f[r] + SumFunctionOnSet(f, {})
  BY <1>1, <1>3, SumRemove
<1> QED
  BY <1>1, <1>2, <1>4, SumEmpty

LEMMA CountById ==
  ASSUME NEW S, IsFiniteSet(S), NEW R, UniqueIds(S), UniqueIds(R), IdsOf(S) = IdsOf(R),
         \A x \in S : x.count \in Int, \A x \in S, y \in R : x.id = y.id => x.count = y.count
  PROVE  IsFiniteSet(R) /\ CountIn(R) = CountIn(S)
<1> DEFINE f == [x \in S |-> x.count]
           h == [x \in R |-> x.count]
<1>1. /\ \A x \in S : f[x] \in Int
      /\ \A x \in S, y \in R : x.id = y.id => f[x] = h[y]
  OBVIOUS
<1>2. CountIn(S) = SumFunctionOnSet(f, S) /\ CountIn(R) = SumFunctionOnSet(h, R)
  BY DEF CountIn
<1> HIDE DEF f, h
<1>3. SameIds(S, R)
  BY DEF IdsOf, SameIds
<1> QED
  BY <1>1, <1>2, <1>3, SumById

(* Counts are not below zero, and above it where there is one. *)
LEMMA CountPositive ==
  ASSUME NEW S, IsFiniteSet(S), \A r \in S : r.count \in Nat
  PROVE  /\ CountIn(S) \in Nat
         /\ \A r \in S : r.count <= CountIn(S)
<1> DEFINE f == [r \in S |-> r.count]
<1>1. \A r \in S : f[r] \in Nat /\ f[r] = r.count
  OBVIOUS
<1>2. CountIn(S) = SumFunctionOnSet(f, S)
  BY DEF CountIn
<1> HIDE DEF f
<1> QED
  BY <1>1, <1>2, SumNat

(* A finite set of numbers has a greatest one. *)
LEMMA Greatest ==
  ASSUME NEW S, IsFiniteSet(S), \A x \in S : x \in Nat, S # {}
  PROVE  Max(S) \in S /\ \A x \in S : x <= Max(S)
<1>1. PICK m \in S : \A n \in S : n <= m
  BY GreatestNumber
<1>2. \A x \in S : m >= x
  BY <1>1
<1> QED
  BY <1>1, <1>2 DEF Max

(* The last log of a user, by time and id. *)
NotAfter(m, l) == m.at < l.at \/ (m.at = l.at /\ m.id <= l.id)
LEMMA LastExists ==
  ASSUME NEW S, IsFiniteSet(S), \A l \in S : l.at \in Nat /\ l.id \in Nat, S # {}
  PROVE  \E l \in S : \A m \in S : NotAfter(m, l)
<1> DEFINE Topped(s) == \E x \in s : \A y \in s : NotAfter(y, x)
           T == {s \in SUBSET S : s # {} /\ ~Topped(s)}
<1>1. T = {}
  <2>1. SUFFICES ASSUME T # {} PROVE FALSE
    OBVIOUS
  <2>2. PICK t \in T : \A r \in T : ~(r \subseteq t /\ r # t)
    <3>1. T \subseteq SUBSET S
      OBVIOUS
    <3> HIDE DEF T
    <3> QED BY <2>1, <3>1, LeastSubset
  <2>3. t \in SUBSET S /\ t # {} /\ ~Topped(t)
    BY <2>2
  <2>4. PICK y \in t : TRUE
    BY <2>3
  <2>5. CASE t \ {y} = {}
    <3>1. NotAfter(y, y) /\ t = {y}
      BY <2>3, <2>4, <2>5 DEF NotAfter
    <3> QED
      BY <2>3, <3>1
  <2>6. CASE t \ {y} # {}
    <3>1. t \ {y} \notin T /\ t \ {y} \in SUBSET S
      BY <2>2, <2>3, <2>4
    <3>2. PICK x \in t \ {y} : \A z \in t \ {y} : NotAfter(z, x)
      BY <2>6, <3>1
    <3>3. \A z \in t : z.at \in Nat /\ z.id \in Nat
      BY <2>3
    <3>4. CASE NotAfter(y, x)
      BY <2>3, <3>2, <3>4
    <3>5. CASE ~NotAfter(y, x)
      <4>1. \A z \in t : NotAfter(z, y)
        BY <2>4, <3>2, <3>3, <3>5 DEF NotAfter
      <4> QED
        BY <2>3, <2>4, <4>1
    <3> QED
      BY <3>4, <3>5
  <2> QED
    BY <2>5, <2>6
<1> QED
  BY <1>1
-----------------------------------------------------------------------------
FreshLog == [log : FiatLog, refundOf : SUBSET Nat]
Tx == [pc : {"idle", "next", "read", "inserted", "logged"}, users : SUBSET User,
       seen : SUBSET Nat, fresh : Seq(FreshLog), first : Nat, pays : SUBSET FiatLog,
       rows : SUBSET CacheRow, early : SUBSET User, todo : Int, end : Nat]
Reasons == {"raced", "early", "dated", "half"}
TxTyped(tx) == tx \in Tx /\ IsFiniteSet(tx.pays) /\ IsFiniteSet(tx.rows)

Typed ==
  /\ caches \subseteq CacheRow /\ IsFiniteSet(caches)
  /\ logs \subseteq FiatLog /\ IsFiniteSet(logs)
  /\ lastLogId \in Nat /\ day \in Nat
  /\ balance \in [User -> Int] /\ balanceOnFiatlog \in [User -> Int]
  /\ TxTyped(post) /\ TxTyped(merge)
  /\ astray \in [User -> SUBSET Reasons]

(* An API row is of a number of calls of a type. *)
Charged(r) == r.type \in ApiRelated => r.count > 0 /\ r.cost \in CostType
RowsOk ==
  /\ UniqueIds(caches) /\ IdsOf(caches) = 1 .. Cardinality(caches)
  /\ \A r \in caches : r.at <= day /\ Charged(r)

LEMMA NoTxTyped == TxTyped(NoTx)
BY FS_EmptySet DEF TxTyped, Tx, NoTx

(* The last log of a user. *)
LEMMA LastLog ==
  ASSUME Typed, NEW u \in User, LogsOf(u) # {}
  PROVE  /\ LastOf(u) # {} /\ LastOf(u) \subseteq LogsOf(u)
         /\ LastBalance(u) = (CHOOSE l \in LastOf(u) : TRUE).balance
         /\ (CHOOSE l \in LastOf(u) : TRUE) \in LastOf(u)
<1>1. IsFiniteSet(LogsOf(u)) /\ \A l \in LogsOf(u) : l.at \in Nat /\ l.id \in Nat
  <2>1. LogsOf(u) \in SUBSET logs
    BY DEF LogsOf
  <2>2. \A l \in logs : l.at \in Nat /\ l.id \in Nat
    BY DEF Typed, FiatLog
  <2> QED
    BY <2>1, <2>2, FS_Subset DEF Typed
<1>2. PICK l \in LogsOf(u) : \A m \in LogsOf(u) : NotAfter(m, l)
  BY <1>1, LastExists
<1>3. l \in LastOf(u)
  BY <1>2 DEF LastOf, NotAfter
<1> QED
  BY <1>3 DEF LastOf, LastBalance

LEMMA LastBalanceType ==
  ASSUME Typed, NEW u \in User
  PROVE  LastBalance(u) \in Int
<1>1. CASE LogsOf(u) = {}
  BY <1>1 DEF LastBalance, Typed
<1>2. CASE LogsOf(u) # {}
  <2>1. (CHOOSE l \in LastOf(u) : TRUE) \in logs
    BY <1>2, LastLog DEF LogsOf
  <2> QED
    BY <1>2, <2>1, LastLog DEF Typed, FiatLog
<1> QED
  BY <1>1, <1>2

LEMMA FreshTyped ==
  ASSUME NEW row \in CacheRow, NEW amount \in Int, NEW count \in Nat, NEW bal \in Int,
         NEW ids \in SUBSET Nat, NEW pays \in SUBSET Nat
  PROVE  Fresh(row, amount, count, bal, ids, pays) \in FreshLog
BY DEF Fresh, FreshLog, FiatLog, CacheRow

LEMMA RowSums ==
  ASSUME NEW S, IsFiniteSet(S), S \subseteq CacheRow, NEW R \in SUBSET S
  PROVE  /\ IsFiniteSet(R) /\ AmountIn(R) \in Int /\ CountIn(R) \in Nat
         /\ IdsOf(R) \in SUBSET Nat
<1>1. IsFiniteSet(R)
  BY FS_Subset
<1>2. \A r \in R : r.amount \in Int /\ r.count \in Nat /\ r.id \in Nat
  BY DEF CacheRow
<1> QED
  BY <1>1, <1>2, AmountType, CountPositive DEF IdsOf

(* Orderings of a finite set. *)
LEMMA OrderingOf ==
  ASSUME NEW S, IsFiniteSet(S), NEW order \in Orderings(S)
  PROVE  /\ Cardinality(S) \in Nat /\ order \in [1 .. Cardinality(S) -> S]
         /\ \A i, j \in DOMAIN order : order[i] = order[j] => i = j
         /\ \A x \in S : \E i \in DOMAIN order : order[i] = x
<1>1. /\ Cardinality(S) \in Nat /\ order \in [1 .. Cardinality(S) -> S]
      /\ \A i, j \in DOMAIN order : order[i] = order[j] => i = j
  BY FS_CardinalityType DEF Orderings
<1> DEFINE n == Cardinality(S)
<1>2. order \in Injection(1 .. n, S)
  BY <1>1 DEF Injection, IsInjective
<1>3. Cardinality(1 .. n) = n
  BY <1>1, FS_Interval
<1>4. order \in Surjection(1 .. n, S)
  BY <1>2, <1>3, FS_Injection
<1> QED
  BY <1>1, <1>4 DEF Surjection
-----------------------------------------------------------------------------
(* What a merge has read: rows of one user and type, in groups by their cost types. *)
GroupAt(rows, order, i) == {r \in rows : r.cost = order[i]}
GroupsUpTo(rows, order, i) == {r \in rows : \E j \in 1 .. i : r.cost = order[j]}
CostsOf(rows) == {r.cost : r \in rows}
MergeableTypes == {"PAY_API_QUOTA", "REFUND_API_QUOTA", "RESET_API_QUOTA", "PAY_API_FEE"}
Grouped(u, t, rows, order) ==
  /\ rows \subseteq Due(t, merge.end) /\ rows # {} /\ \A r \in rows : r.user = u
  /\ t \in MergeableTypes
  /\ order \in Orderings(CostsOf(rows))

LEMMA TypeDueType ==
  ASSUME TypesDue # {}
  PROVE  TypeDue \in MergeableTypes
<1>1. TypesDue \subseteq 1 .. 4
  BY DEF TypesDue, MergeOrder
<1>2. TypesDue \subseteq Nat
  BY <1>1
<1>3. \E m \in TypesDue : \A n \in TypesDue : m <= n
  BY <1>2, LeastNumber
<1>4. Min(TypesDue) \in TypesDue
  BY <1>3 DEF Min
<1>5. Min(TypesDue) \in 1 .. 4
  BY <1>1, <1>4
<1> DEFINE k == Min(TypesDue)
<1>6. TypeDue = MergeOrder[k]
  BY DEF TypeDue
<1>7. k = 1 \/ k = 2 \/ k = 3 \/ k = 4
  BY <1>5
<1> HIDE DEF k
<1> QED
  BY <1>6, <1>7 DEF MergeOrder, MergeableTypes

LEMMA MergeReads ==
  ASSUME NEW u \in User, MergeRead(u)
  PROVE  \E rows \in SUBSET caches : \E order \in Orderings({r.cost : r \in rows}) :
           /\ Grouped(u, TypeDue, rows, order)
           /\ merge' = [merge EXCEPT
                !.pc = "read", !.users = {u}, !.seen = IdsOf(LastOf(u)), !.rows = rows,
                !.early = UsersEarly({u}), !.fresh = LogsOfGroups(u, rows, order)]
<1> DEFINE due == {r \in Due(TypeDue, merge.end) : r.user = u}
           k == IF Cardinality(due) < Page THEN Cardinality(due) ELSE Page
<1>1. PICK rows \in kSubset(k, due) :
        /\ rows # {}
        /\ \E order \in Orderings({r.cost : r \in rows}) :
             merge' = [merge EXCEPT
                !.pc = "read", !.users = {u}, !.seen = IdsOf(LastOf(u)), !.rows = rows,
                !.early = UsersEarly({u}), !.fresh = LogsOfGroups(u, rows, order)]
  BY DEF MergeRead
<1>2. rows \subseteq due
  BY <1>1 DEF kSubset
<1>3. rows \subseteq caches
  BY <1>2 DEF Due
<1>4. TypeDue \in MergeableTypes
  BY TypeDueType DEF MergeRead
<1>5. PICK order \in Orderings({r.cost : r \in rows}) :
             merge' = [merge EXCEPT
                !.pc = "read", !.users = {u}, !.seen = IdsOf(LastOf(u)), !.rows = rows,
                !.early = UsersEarly({u}), !.fresh = LogsOfGroups(u, rows, order)]
  BY <1>1
<1>6. Grouped(u, TypeDue, rows, order)
  BY <1>1, <1>2, <1>4 DEF Grouped, CostsOf
<1> QED
  BY <1>3, <1>5, <1>6

(* The order of the groups, and each of them. *)
LEMMA GroupFacts ==
  ASSUME Typed, NEW u \in User, NEW t, NEW rows \in SUBSET caches, NEW order,
         Grouped(u, t, rows, order)
  PROVE  /\ Cardinality(CostsOf(rows)) \in Nat
         /\ DOMAIN order = 1 .. Cardinality(CostsOf(rows))
         /\ \A i, j \in DOMAIN order : order[i] = order[j] => i = j
         /\ \A r \in rows : \E i \in DOMAIN order : r \in GroupAt(rows, order, i)
         /\ \A i \in DOMAIN order : GroupAt(rows, order, i) # {}
<1> DEFINE costs == CostsOf(rows)
           n == Cardinality(costs)
           cost == [r \in rows |-> r.cost]
<1>1. IsFiniteSet(rows)
  BY FS_Subset DEF Typed
<1>2. IsFiniteSet(costs)
  <2>1. costs = {cost[r] : r \in rows}
    BY DEF CostsOf
  <2> HIDE DEF cost, costs
  <2> QED
    BY <1>1, <2>1, FiniteImage
<1>3. order \in Orderings(costs)
  BY DEF Grouped
<1>4. /\ n \in Nat /\ order \in [1 .. n -> costs]
      /\ \A i, j \in DOMAIN order : order[i] = order[j] => i = j
      /\ \A x \in costs : \E i \in DOMAIN order : order[i] = x
  <2> HIDE DEF costs
  <2> QED
    BY <1>2, <1>3, OrderingOf
<1>5. \A i \in 1 .. n : \E r \in rows : r.cost = order[i]
  BY <1>4 DEF CostsOf
<1>6. \A r \in rows : \E i \in DOMAIN order : r.cost = order[i]
  BY <1>4 DEF CostsOf
<1> HIDE DEF n, costs
<1>7. /\ n \in Nat /\ DOMAIN order = 1 .. n
      /\ \A i, j \in DOMAIN order : order[i] = order[j] => i = j
      /\ \A r \in rows : \E i \in DOMAIN order : r \in GroupAt(rows, order, i)
      /\ \A i \in DOMAIN order : GroupAt(rows, order, i) # {}
  BY <1>4, <1>5, <1>6 DEF GroupAt
<1> QED
  BY <1>7 DEF n, costs

LEMMA GroupLog ==
  ASSUME Typed, NEW u \in User, NEW t, NEW rows \in SUBSET caches, NEW order,
         Grouped(u, t, rows, order), NEW i \in DOMAIN order
  PROVE  LET f == LogsOfGroups(u, rows, order)[i]
             mine == GroupAt(rows, order, i)
         IN
         /\ f \in FreshLog /\ f.refundOf = {}
         /\ f.log.user = u /\ f.log.type = t /\ f.log.cost = order[i]
         /\ f.log.amount = AmountIn(mine) /\ f.log.ids = IdsOf(mine)
         /\ f.log.balance = LastBalance(u) + AmountIn(GroupsUpTo(rows, order, i))
         /\ f.log.refunds = {} /\ f.log.refunded = 0
<1> DEFINE mine == GroupAt(rows, order, i)
           upTo == GroupsUpTo(rows, order, i)
           row == CHOOSE r \in mine : TRUE
           f == LogsOfGroups(u, rows, order)[i]
           count == SumFunctionOnSet([r \in mine |-> MetaCount(r)], mine)
           bal == LastBalance(u) + AmountIn(upTo)
<1>0. GroupAt(rows, order, i) # {}
  <2> HIDE DEF mine, upTo, row, f, count, bal
  <2> QED
    BY GroupFacts
<1>1. mine # {} /\ mine \subseteq caches /\ upTo \subseteq caches
  BY <1>0 DEF GroupAt, GroupsUpTo
<1>2. row \in mine
  BY <1>1
<1>3. row \in CacheRow /\ row.user = u /\ row.type = t /\ row.cost = order[i]
  BY <1>2 DEF Grouped, Due, GroupAt, Typed
<1>4. /\ IsFiniteSet(mine) /\ AmountIn(mine) \in Int /\ IdsOf(mine) \in SUBSET Nat
      /\ AmountIn(upTo) \in Int
  <2> HIDE DEF mine, upTo
  <2> QED
    BY <1>1, RowSums DEF Typed
<1>5. count \in Nat
  <2> DEFINE g == [r \in mine |-> MetaCount(r)]
  <2>1. \A r \in mine : g[r] \in Nat
    BY <1>1 DEF Typed, CacheRow, MetaCount
  <2> HIDE DEF g, mine
  <2>2. SumFunctionOnSet(g, mine) \in Nat
    BY <1>4, <2>1, SumNat
  <2> QED
    BY <2>2 DEF g
<1>6. bal \in Int
  BY <1>4, LastBalanceType
<1>7. f = Fresh(row, AmountIn(mine), count, bal, IdsOf(mine), {})
  BY DEF LogsOfGroups, LogOfGroup, GroupAt, GroupsUpTo
<1> HIDE DEF row, count, bal, mine, f
<1>8. f \in FreshLog
  BY <1>3, <1>4, <1>5, <1>6, <1>7, FreshTyped
<1>9. /\ f.refundOf = {} /\ f.log.user = u /\ f.log.type = t /\ f.log.cost = order[i]
      /\ f.log.amount = AmountIn(mine) /\ f.log.ids = IdsOf(mine) /\ f.log.balance = bal
      /\ f.log.refunds = {} /\ f.log.refunded = 0
  BY <1>3, <1>7 DEF Fresh
<1> QED
  BY <1>8, <1>9 DEF f, bal, mine

LEMMA MergeReadTyped ==
  ASSUME Typed, NEW u \in User, MergeRead(u)
  PROVE  Typed'
<1>1. PICK rows, order :
        /\ rows \in SUBSET caches
        /\ Grouped(u, TypeDue, rows, order)
        /\ merge' = [merge EXCEPT
                !.pc = "read", !.users = {u}, !.seen = IdsOf(LastOf(u)), !.rows = rows,
                !.early = UsersEarly({u}), !.fresh = LogsOfGroups(u, rows, order)]
  BY MergeReads
<1> DEFINE fresh == LogsOfGroups(u, rows, order)
           n == Cardinality(CostsOf(rows))
<1>2. fresh \in Seq(FreshLog)
  <2>1. n \in Nat /\ DOMAIN order = 1 .. n
    BY <1>1, GroupFacts
  <2>2. \A i \in DOMAIN order : fresh[i] \in FreshLog
    BY <1>1, GroupLog
  <2>3. DOMAIN fresh = DOMAIN order /\ fresh = [i \in DOMAIN fresh |-> fresh[i]]
    BY DEF LogsOfGroups
  <2> HIDE DEF fresh, n
  <2>4. fresh \in [1 .. n -> FreshLog]
    BY <2>1, <2>2, <2>3
  <2> QED
    BY <2>1, <2>4
<1>3. IdsOf(LastOf(u)) \in SUBSET Nat
  BY DEF IdsOf, LastOf, LogsOf, Typed, FiatLog
<1>4. UsersEarly({u}) \in SUBSET User
  BY DEF UsersEarly
<1>5. rows \in SUBSET CacheRow /\ IsFiniteSet(rows)
  BY <1>1, FS_Subset DEF Typed
<1> DEFINE seen == IdsOf(LastOf(u))
           early == UsersEarly({u})
<1> HIDE DEF fresh, seen, early
<1>6. merge' = [merge EXCEPT !.pc = "read", !.users = {u}, !.seen = seen, !.rows = rows,
                             !.early = early, !.fresh = fresh]
  BY <1>1 DEF fresh, seen, early
<1>7. TxTyped(merge)'
  <2>1. merge' \in Tx
    BY <1>2, <1>3, <1>4, <1>5, <1>6 DEF Typed, TxTyped, Tx, seen, early
  <2>2. merge'.pays = merge.pays /\ merge'.rows = rows
    BY <1>6 DEF Typed, TxTyped, Tx
  <2> QED
    BY <1>5, <2>1, <2>2 DEF Typed, TxTyped
<1> QED
  BY <1>7 DEF Typed, MergeRead, tables, TxTyped, Tx
-----------------------------------------------------------------------------
(* What a merge of refunds has read: the refunds that can be borne, the payments that
   bear them, and among these the ones that have a share. *)
BorneRows == {r \in RefundsDue : Borne(r)}
Bearing == UNION {PaysOf(r.user, r.cost) : r \in BorneRows}
Paying == {l \in Bearing : Share(l) > 0}
BorneUsers == {r.user : r \in BorneRows}

LEMMA RefundsReads ==
  ASSUME RefundsRead
  PROVE  \/ BorneRows = {} /\ merge' = NoTx
         \/ BorneRows # {} /\ \E order \in Orderings(Paying) :
              /\ GroupedNewestFirst(order)
              /\ merge' = [merge EXCEPT
                    !.pc = "read", !.users = BorneUsers, !.rows = BorneRows,
                    !.seen = UNION {IdsOf(LastOf(u)) : u \in BorneUsers},
                    !.early = UsersEarly(BorneUsers),
                    !.pays = {[l EXCEPT !.refunded = @ + Share(l)] : l \in Bearing},
                    !.fresh = LogsOfRefunds(order)]
BY DEF RefundsRead, BorneRows, Bearing, Paying, BorneUsers

LEMMA AliveType ==
  ASSUME NEW S, IsFiniteSet(S), S \subseteq FiatLog
  PROVE  AliveIn(S) \in Int /\ \A l \in S : Alive(l) \in Int
<1> DEFINE f == [l \in S |-> Alive(l)]
<1>1. \A l \in S : f[l] \in Int /\ Alive(l) \in Int
  BY DEF Alive, FiatLog
<1>2. AliveIn(S) = SumFunctionOnSet(f, S)
  BY DEF AliveIn
<1> HIDE DEF f
<1> QED
  BY <1>1, <1>2, SumInt

LEMMA PaysFinite ==
  ASSUME Typed, NEW u, NEW c, NEW S \in SUBSET PaysOf(u, c)
  PROVE  S \subseteq logs /\ S \subseteq FiatLog /\ IsFiniteSet(S) /\ AliveIn(S) \in Int
<1>1. S \in SUBSET logs /\ S \subseteq FiatLog
  BY DEF PaysOf, LogsOf, Typed
<1>2. IsFiniteSet(S)
  BY <1>1, FS_Subset DEF Typed
<1> QED
  BY <1>1, <1>2, AliveType

LEMMA LikeSums ==
  ASSUME Typed, NEW x
  PROVE  /\ RefundsLike(x) \in SUBSET caches /\ IsFiniteSet(RefundsLike(x))
         /\ AmountIn(RefundsLike(x)) \in Int /\ CountIn(RefundsLike(x)) \in Nat
         /\ IdsOf(RefundsLike(x)) \in SUBSET Nat
<1>1. RefundsLike(x) \in SUBSET caches
  BY DEF RefundsLike, RefundsDue, Due
<1> QED
  BY <1>1, RowSums DEF Typed

LEMMA ShareType ==
  ASSUME Typed, NEW l \in logs
  PROVE  /\ Share(l) \in Int /\ Alive(l) \in Int
         /\ Share(l) <= 0 \/ Share(l) <= Alive(l)
<1> DEFINE pays == PaysOf(l.user, l.cost)
           newer == {p \in pays : p.id > l.id}
           n == CountIn(RefundsLike(l))
<1>1. AliveIn(newer) \in Int
  BY PaysFinite
<1>2. Alive(l) \in Int
  BY DEF Typed, Alive, FiatLog
<1>3. n \in Nat
  BY LikeSums
<1>4. Share(l) = LET left == n - AliveIn(newer)
                 IN IF left <= 0 THEN 0 ELSE IF left < Alive(l) THEN left ELSE Alive(l)
  BY DEF Share, Part
<1> HIDE DEF pays, newer, n
<1> QED
  BY <1>1, <1>2, <1>3, <1>4

(* A payment that bears refunds bears all of its user and cost type that are due. *)
LEMMA BearingFacts ==
  ASSUME Typed, RowsOk, NEW l \in Bearing
  PROVE  /\ l \in logs /\ l.type = "PAY_API_FEE" /\ l \in PaysOf(l.user, l.cost)
         /\ RefundsLike(l) # {} /\ RefundsLike(l) \subseteq BorneRows
         /\ Borne(l) /\ CountIn(RefundsLike(l)) > 0
<1>1. PICK r \in BorneRows : l \in PaysOf(r.user, r.cost)
  BY DEF Bearing
<1>2. l \in logs /\ l.type = "PAY_API_FEE" /\ l.user = r.user /\ l.cost = r.cost
  BY <1>1 DEF PaysOf, LogsOf
<1>3. l \in PaysOf(l.user, l.cost)
  BY <1>1, <1>2
<1>4. RefundsLike(r) = RefundsLike(l)
  BY <1>2 DEF RefundsLike
<1>5. Borne(l)
  BY <1>1, <1>2, <1>4 DEF Borne, BorneRows
<1>6. r \in RefundsLike(l)
  BY <1>1, <1>2 DEF RefundsLike, BorneRows
<1>7. ASSUME NEW s \in RefundsLike(l) PROVE s \in BorneRows
  <2>1. s \in RefundsDue /\ s.user = l.user /\ s.cost = l.cost
    BY <1>7 DEF RefundsLike
  <2>2. RefundsLike(s) = RefundsLike(l)
    BY <2>1 DEF RefundsLike
  <2> QED
    BY <1>5, <2>1, <2>2 DEF Borne, BorneRows
<1>8. CountIn(RefundsLike(l)) > 0
  <2>1. r \in caches /\ r.type = "REFUND_API_FEE"
    BY <1>1 DEF BorneRows, RefundsDue, Due
  <2>2. r.count > 0 /\ r.count \in Nat
    BY <2>1 DEF RowsOk, Charged, ApiRelated, Typed, CacheRow
  <2>3. \A q \in RefundsLike(l) : q.count \in Nat
    BY LikeSums DEF Typed, CacheRow
  <2>4. r.count <= CountIn(RefundsLike(l)) /\ CountIn(RefundsLike(l)) \in Nat
    BY <1>6, <2>3, LikeSums, CountPositive
  <2> QED
    BY <2>2, <2>4
<1> QED
  BY <1>2, <1>3, <1>5, <1>6, <1>7, <1>8

LEMMA RoundedType ==
  ASSUME NEW a \in Int, NEW n \in Nat, n > 0
  PROVE  Rounded(a, n) \in Int
BY DEF Rounded

(* The shares of payments of a user and type add up to a number. *)
Shares(S) == SumFunctionOnSet([p \in S |-> Share(p)], S)
LEMMA SharesType ==
  ASSUME Typed, NEW u, NEW c, NEW S \in SUBSET PaysOf(u, c)
  PROVE  Shares(S) \in Int
<1> DEFINE f == [p \in S |-> Share(p)]
<1>1. \A p \in S : f[p] \in Int
  BY PaysFinite, ShareType
<1>2. IsFiniteSet(S)
  BY PaysFinite
<1> HIDE DEF f
<1>3. SumFunctionOnSet(f, S) \in Int
  BY <1>1, <1>2, SumInt
<1> QED
  BY <1>3 DEF Shares, f

(* The refunds of a user whose cost types come before a payment's. *)
RefundsBefore(order, i) ==
  {r \in RefundsDue : r.user = order[i].user /\ r.cost # order[i].cost /\
                      \E j \in 1 .. i : order[j].user = r.user /\ order[j].cost = r.cost}
NewerOf(l) == {p \in PaysOf(l.user, l.cost) : p.id >= l.id}
BalanceOfRefund(order, i) ==
  LET l == order[i]
      n == CountIn(RefundsLike(l))
  IN Rounded((LastBalance(l.user) + AmountIn(RefundsBefore(order, i))) * n
               + AmountIn(RefundsLike(l)) * Shares(NewerOf(l)), n)

LEMMA RefundLog ==
  ASSUME Typed, RowsOk, NEW order, NEW i \in DOMAIN order, order[i] \in Paying
  PROVE  LET f == LogsOfRefunds(order)[i]
             l == order[i]
         IN
         /\ f \in FreshLog /\ f.refundOf = {l.id}
         /\ f.log.user = l.user /\ f.log.type = "REFUND_API_FEE" /\ f.log.cost = l.cost
         /\ f.log.count = Share(l) /\ f.log.ids = IdsOf(RefundsLike(l))
         /\ f.log.amount = Rounded(AmountIn(RefundsLike(l)) * Share(l), CountIn(RefundsLike(l)))
         /\ f.log.balance = BalanceOfRefund(order, i)
         /\ f.log.refunds = {} /\ f.log.refunded = 0
<1> DEFINE l == order[i]
           rows == RefundsLike(l)
           n == CountIn(rows)
           a == AmountIn(rows)
           row == CHOOSE r \in rows : TRUE
           amount == Rounded(a * Share(l), n)
           bal == BalanceOfRefund(order, i)
           f == LogsOfRefunds(order)[i]
<1>1. l \in Bearing /\ Share(l) > 0
  BY DEF Paying
<1>2. l \in logs /\ rows # {} /\ n > 0
  BY <1>1, BearingFacts
<1>3. rows \subseteq caches /\ a \in Int /\ n \in Nat /\ IdsOf(rows) \in SUBSET Nat
  BY LikeSums
<1>4. row \in rows
  BY <1>2
<1>5. row \in CacheRow /\ row.user = l.user /\ row.type = "REFUND_API_FEE" /\ row.cost = l.cost
  BY <1>3, <1>4 DEF RefundsLike, RefundsDue, Due, Typed
<1>6. Share(l) \in Nat
  BY <1>1, <1>2, ShareType
<1> HIDE DEF rows, n, a, row, l
<1>7. amount \in Int
  <2>1. a * Share(l) \in Int
    BY <1>3, <1>6
  <2> QED
    BY <1>2, <1>3, <2>1, RoundedType
<1>8. bal \in Int
  <2> DEFINE last == LastBalance(l.user) + AmountIn(RefundsBefore(order, i))
             of == Shares(NewerOf(l))
  <2>1. last \in Int
    <3>1. l.user \in User
      BY <1>2 DEF Typed, FiatLog
    <3>2. RefundsBefore(order, i) \in SUBSET caches
      BY DEF RefundsBefore, RefundsDue, Due
    <3>3. AmountIn(RefundsBefore(order, i)) \in Int
      BY <3>2, RowSums DEF Typed
    <3> QED
      BY <3>1, <3>3, LastBalanceType
  <2>2. of \in Int
    BY SharesType DEF NewerOf
  <2>3. bal = Rounded(last * n + a * of, n)
    BY DEF BalanceOfRefund, l, n, a, rows
  <2> HIDE DEF last, of
  <2>4. last * n + a * of \in Int
    BY <1>3, <2>1, <2>2
  <2> QED
    BY <1>2, <1>3, <2>3, <2>4, RoundedType
<1>9. f = Fresh(row, amount, Share(l), bal, IdsOf(rows), {l.id})
  BY DEF LogsOfRefunds, BalanceOfRefund, RefundsBefore, NewerOf, Shares, l, rows, n, a, row
<1>10. {l.id} \in SUBSET Nat
  BY <1>2 DEF Typed, FiatLog
<1> HIDE DEF amount, bal, f
<1>11. f \in FreshLog
  BY <1>3, <1>5, <1>6, <1>7, <1>8, <1>9, <1>10, FreshTyped
<1>12. /\ f.refundOf = {l.id} /\ f.log.user = l.user /\ f.log.type = "REFUND_API_FEE"
       /\ f.log.cost = l.cost /\ f.log.count = Share(l) /\ f.log.ids = IdsOf(rows)
       /\ f.log.amount = amount /\ f.log.balance = bal
       /\ f.log.refunds = {} /\ f.log.refunded = 0
  BY <1>5, <1>9 DEF Fresh
<1> QED
  BY <1>11, <1>12 DEF f, bal, amount, n, a, rows, l

LEMMA PayingFinite ==
  ASSUME Typed
  PROVE  /\ Bearing \subseteq logs /\ IsFiniteSet(Bearing) /\ IsFiniteSet(Paying)
         /\ BorneRows \subseteq caches /\ IsFiniteSet(BorneRows) /\ BorneUsers \subseteq User
<1>1. Bearing \in SUBSET logs
  BY DEF Bearing, PaysOf, LogsOf
<1>2. IsFiniteSet(Bearing)
  BY <1>1, FS_Subset DEF Typed
<1>3. Paying \in SUBSET Bearing
  BY DEF Paying
<1>4. IsFiniteSet(Paying)
  BY <1>2, <1>3, FS_Subset
<1>5. BorneRows \in SUBSET caches
  BY DEF BorneRows, RefundsDue, Due
<1>6. IsFiniteSet(BorneRows)
  BY <1>5, FS_Subset DEF Typed
<1> QED
  BY <1>1, <1>2, <1>4, <1>5, <1>6 DEF BorneUsers, Typed, CacheRow

LEMMA PayingOrder ==
  ASSUME Typed, NEW order \in Orderings(Paying)
  PROVE  /\ Cardinality(Paying) \in Nat /\ DOMAIN order = 1 .. Cardinality(Paying)
         /\ \A i \in DOMAIN order : order[i] \in Paying
         /\ \A i, j \in DOMAIN order : order[i] = order[j] => i = j
         /\ \A l \in Paying : \E i \in DOMAIN order : order[i] = l
BY PayingFinite, OrderingOf

LEMMA RefundsReadTyped ==
  ASSUME Typed, RowsOk, RefundsRead
  PROVE  Typed'
<1>1. TxTyped(merge)'
  <2>1. CASE merge' = NoTx
    BY <2>1, NoTxTyped DEF TxTyped
  <2>2. ASSUME NEW order \in Orderings(Paying),
               merge' = [merge EXCEPT
                    !.pc = "read", !.users = BorneUsers, !.rows = BorneRows,
                    !.seen = UNION {IdsOf(LastOf(u)) : u \in BorneUsers},
                    !.early = UsersEarly(BorneUsers),
                    !.pays = {[l EXCEPT !.refunded = @ + Share(l)] : l \in Bearing},
                    !.fresh = LogsOfRefunds(order)]
        PROVE  TxTyped(merge)'
    <3> DEFINE fresh == LogsOfRefunds(order)
               n == Cardinality(Paying)
               saved == [l \in Bearing |-> [l EXCEPT !.refunded = @ + Share(l)]]
               pays == {[l EXCEPT !.refunded = @ + Share(l)] : l \in Bearing}
               seen == UNION {IdsOf(LastOf(u)) : u \in BorneUsers}
               early == UsersEarly(BorneUsers)
    <3>1. fresh \in Seq(FreshLog)
      <4>1. n \in Nat /\ DOMAIN order = 1 .. n /\ \A i \in DOMAIN order : order[i] \in Paying
        BY PayingOrder
      <4>2. \A i \in DOMAIN order : fresh[i] \in FreshLog
        BY <4>1, RefundLog
      <4>3. DOMAIN fresh = DOMAIN order /\ fresh = [i \in DOMAIN fresh |-> fresh[i]]
        BY DEF LogsOfRefunds
      <4> HIDE DEF fresh, n
      <4>4. fresh \in [1 .. n -> FreshLog]
        BY <4>1, <4>2, <4>3
      <4> QED
        BY <4>1, <4>4
    <3>2. pays \in SUBSET FiatLog
      <4>1. \A l \in Bearing : [l EXCEPT !.refunded = @ + Share(l)] \in FiatLog
        <5> TAKE l \in Bearing
        <5>1. l \in logs /\ l \in FiatLog
          BY PayingFinite DEF Typed
        <5>2. Share(l) \in Int
          BY <5>1, ShareType
        <5> QED
          BY <5>1, <5>2 DEF FiatLog
      <4> QED
        BY <4>1
    <3>3. IsFiniteSet(pays)
      <4>1. pays = {saved[l] : l \in Bearing}
        OBVIOUS
      <4> HIDE DEF saved, pays
      <4> QED
        BY <4>1, PayingFinite, FiniteImage
    <3>4. seen \in SUBSET Nat
      BY DEF IdsOf, LastOf, LogsOf, Typed, FiatLog
    <3>5. early \in SUBSET User /\ BorneUsers \in SUBSET User
      BY PayingFinite DEF UsersEarly
    <3>6. BorneRows \in SUBSET CacheRow /\ IsFiniteSet(BorneRows)
      BY PayingFinite DEF Typed
    <3> HIDE DEF fresh, pays, seen, early
    <3>7. merge' = [merge EXCEPT
                    !.pc = "read", !.users = BorneUsers, !.rows = BorneRows,
                    !.seen = seen, !.early = early, !.pays = pays, !.fresh = fresh]
      BY <2>2 DEF fresh, pays, seen, early
    <3>8. merge' \in Tx
      BY <3>1, <3>2, <3>4, <3>5, <3>6, <3>7 DEF Typed, TxTyped, Tx
    <3>9. merge'.pays = pays /\ merge'.rows = BorneRows
      BY <3>7 DEF Typed, TxTyped, Tx
    <3> QED
      BY <3>3, <3>6, <3>8, <3>9 DEF TxTyped
  <2> QED
    BY <2>1, <2>2, RefundsReads
<1> QED
  BY <1>1 DEF Typed, RefundsRead, tables, TxTyped, Tx
-----------------------------------------------------------------------------
(* Logs that are the same but for what a later transaction may save. *)
Kin(l, m) ==
  /\ l.id = m.id /\ l.user = m.user /\ l.type = m.type /\ l.cost = m.cost
  /\ l.count = m.count /\ l.amount = m.amount /\ l.balance = m.balance /\ l.ids = m.ids

OpenTx(tx) == tx.pc \in {"read", "inserted"}
LogAt(tx, i) == tx.fresh[i].log

LogsOk ==
  /\ UniqueIds(logs)
  /\ \A l \in logs : l.id <= lastLogId /\ l.at <= day /\ l.ids # {} /\ l.ids \subseteq IdsOf(caches)

(* Ids that a transaction has drawn are its own. *)
Drawn(tx) ==
  tx.pc = "inserted" =>
    /\ tx.first + Len(tx.fresh) <= lastLogId
    /\ \A l \in logs, i \in DOMAIN tx.fresh : l.id # tx.first + i
Apart ==
  post.pc = "inserted" /\ merge.pc = "inserted" =>
    \A i \in DOMAIN post.fresh, j \in DOMAIN merge.fresh : post.first + i # merge.first + j

(* The posting has one row, which is new; the merge has rows that are not merged. *)
PostRow ==
  OpenTx(post) => \E row \in post.rows :
    /\ post.rows = {row} /\ row.id = Cardinality(caches) + 1 /\ row.merged /\ row.at <= day
    /\ row.type \in Copied /\ post.users = {row.user} /\ Len(post.fresh) = 1
    /\ LogAt(post, 1).type = row.type
MergeRows == OpenTx(merge) => merge.rows \subseteq {r \in caches : ~r.merged}

(* Logs that a transaction will save are as they were read, but for the counts. *)
PaysOk(tx, types) ==
  OpenTx(tx) =>
    /\ UniqueIds(tx.pays)
    /\ \A q \in tx.pays : q.type \in types /\ \E l \in logs :
         Kin(l, q) /\ l.refunds = q.refunds /\ l.at = q.at
PostPays == PaysOk(post, {"BUY_GAS", "BUY_STORAGE"})
MergePays == PaysOk(merge, {"PAY_API_FEE"})

(* A new log is of rows of its transaction; between transactions a merge has nothing. *)
OfRows(tx) ==
  \A i \in DOMAIN tx.fresh : LogAt(tx, i).ids # {} /\ LogAt(tx, i).ids \subseteq IdsOf(tx.rows)
NextClean == merge.pc = "next" => merge.pays = {}

IdsInv == LogsOk /\ Drawn(post) /\ Drawn(merge) /\ Apart
OpenInv == /\ PostRow /\ MergeRows /\ PostPays /\ MergePays
           /\ OfRows(post) /\ OfRows(merge) /\ NextClean
BaseInv == Typed /\ RowsOk /\ IdsInv /\ OpenInv

(* What a commit writes. *)
InsertedAt(tx, i) == [tx.fresh[i].log EXCEPT !.id = tx.first + i, !.at = day]
NewRefunds(tx, q) == {tx.first + i : i \in {j \in DOMAIN tx.fresh : q.id \in tx.fresh[j].refundOf}}
SavedOf(tx, q) == [q EXCEPT !.refunds = @ \cup NewRefunds(tx, q)]
MergedRow(r) == [r EXCEPT !.merged = TRUE]

LEMMA Written ==
  ASSUME NEW tx
  PROVE  /\ Inserted(tx) = {InsertedAt(tx, i) : i \in DOMAIN tx.fresh}
         /\ Saved(tx) = {SavedOf(tx, q) : q \in tx.pays}
         /\ WriteLogs(tx) =>
              /\ logs' = {l \in logs : l.id \notin IdsOf(tx.pays)} \cup Inserted(tx) \cup Saved(tx)
              /\ caches' = {r \in caches : r.id \notin IdsOf(tx.rows)}
                             \cup {MergedRow(r) : r \in tx.rows}
BY DEF Inserted, Saved, InsertedAt, SavedOf, NewRefunds, WriteLogs, MergedRow

LEMMA TxFields ==
  ASSUME NEW tx, TxTyped(tx)
  PROVE  /\ tx.first \in Nat /\ tx.pays \subseteq FiatLog /\ tx.rows \subseteq CacheRow
         /\ tx.users \subseteq User /\ tx.early \subseteq User /\ tx.todo \in Int
         /\ tx.seen \subseteq Nat /\ tx.end \in Nat
         /\ Len(tx.fresh) \in Nat /\ DOMAIN tx.fresh = 1 .. Len(tx.fresh)
         /\ \A i \in DOMAIN tx.fresh : tx.fresh[i] \in FreshLog
<1>1. tx.fresh \in Seq(FreshLog)
  BY DEF TxTyped, Tx
<1> QED
  BY <1>1 DEF TxTyped, Tx

LEMMA InsertedType ==
  ASSUME NEW tx, TxTyped(tx), day \in Nat, NEW i \in DOMAIN tx.fresh
  PROVE  /\ InsertedAt(tx, i) \in FiatLog
         /\ InsertedAt(tx, i).id = tx.first + i /\ InsertedAt(tx, i).at = day
         /\ LET l == LogAt(tx, i)
                m == InsertedAt(tx, i)
            IN /\ m.user = l.user /\ m.type = l.type /\ m.cost = l.cost /\ m.count = l.count
               /\ m.amount = l.amount /\ m.balance = l.balance /\ m.ids = l.ids
               /\ m.refunded = l.refunded /\ m.refunds = l.refunds
<1>1. tx.fresh[i].log \in FiatLog /\ tx.first + i \in Nat
  BY TxFields DEF FreshLog
<1> QED
  BY <1>1 DEF InsertedAt, LogAt, FiatLog

LEMMA SavedType ==
  ASSUME NEW tx, TxTyped(tx), NEW q \in tx.pays
  PROVE  /\ SavedOf(tx, q) \in FiatLog
         /\ Kin(q, SavedOf(tx, q)) /\ SavedOf(tx, q).refunded = q.refunded
         /\ SavedOf(tx, q).refunds = q.refunds \cup NewRefunds(tx, q)
         /\ SavedOf(tx, q).at = q.at
<1>1. q \in FiatLog /\ NewRefunds(tx, q) \subseteq Nat
  BY TxFields DEF NewRefunds
<1> QED
  BY <1>1 DEF SavedOf, FiatLog, Kin

(* A commit leaves all logs but their refunds, and adds the new ones. *)
LEMMA CommitLogs ==
  ASSUME Typed, LogsOk, NEW tx, TxTyped(tx), tx.pc = "inserted", Drawn(tx),
         NEW types, PaysOk(tx, types), WriteLogs(tx)
  PROVE  /\ logs' \subseteq FiatLog /\ IsFiniteSet(logs') /\ UniqueIds(logs')
         /\ \A m \in logs' :
              \/ \E i \in DOMAIN tx.fresh : m = InsertedAt(tx, i)
              \/ m \in logs /\ m.id \notin IdsOf(tx.pays)
              \/ \E q \in tx.pays : m = SavedOf(tx, q)
         /\ \A m \in logs' : m \notin Inserted(tx) => \E l \in logs : Kin(l, m) /\ l.at = m.at
         /\ \A l \in logs : \E m \in logs' : Kin(l, m) /\ l.at = m.at
         /\ \A l \in logs : l.id \notin IdsOf(tx.pays) => l \in logs'
         /\ \A q \in tx.pays : SavedOf(tx, q) \in logs'
         /\ Inserted(tx) \subseteq logs'
         /\ \A m \in Inserted(tx), l \in logs : m.id # l.id
<1> DEFINE old == {l \in logs : l.id \notin IdsOf(tx.pays)}
           new == Inserted(tx)
           saved == Saved(tx)
<1>1. logs' = old \cup new \cup saved
  BY Written
<1>2. new = {InsertedAt(tx, i) : i \in DOMAIN tx.fresh} /\ saved = {SavedOf(tx, q) : q \in tx.pays}
  BY Written
<1>3. \A m \in new : m \in FiatLog
  BY <1>2, InsertedType DEF Typed
<1>4. \A m \in saved : m \in FiatLog
  BY <1>2, SavedType
<1>5. IsFiniteSet(new)
  <2> DEFINE f == [i \in DOMAIN tx.fresh |-> InsertedAt(tx, i)]
  <2>1. new = {f[i] : i \in DOMAIN tx.fresh}
    BY <1>2
  <2>2. IsFiniteSet(DOMAIN tx.fresh)
    BY TxFields, FS_Interval
  <2> HIDE DEF f, new
  <2> QED
    BY <2>1, <2>2, FiniteImage
<1>6. IsFiniteSet(saved)
  <2> DEFINE f == [q \in tx.pays |-> SavedOf(tx, q)]
  <2>1. saved = {f[q] : q \in tx.pays}
    BY <1>2
  <2> HIDE DEF f, saved
  <2> QED
    BY <2>1, FiniteImage DEF TxTyped
<1>7. old \in SUBSET logs /\ IsFiniteSet(old)
  BY FS_Subset DEF Typed
<1>8. IsFiniteSet(logs')
  <2> HIDE DEF old, new, saved
  <2> QED
    BY <1>1, <1>5, <1>6, <1>7, FS_Union
<1>9. \A q \in tx.pays : \E l \in logs : Kin(l, q) /\ l.at = q.at
  BY DEF PaysOk, OpenTx
<1>10. \A q \in tx.pays : Kin(q, SavedOf(tx, q)) /\ SavedOf(tx, q).at = q.at
  BY SavedType
<1>11. \A m \in saved : m.id \in IdsOf(tx.pays) /\ \E l \in logs : Kin(l, m) /\ l.at = m.at
  BY <1>2, <1>9, <1>10 DEF Kin, IdsOf
<1>12. \A m \in new, l \in logs : m.id # l.id
  BY <1>2, InsertedType DEF Drawn, Typed
<1>13. UniqueIds(logs')
  <2>1. UniqueIds(old)
    BY DEF LogsOk, UniqueIds
  <2>2. UniqueIds(new)
    <3>1. \A i, j \in DOMAIN tx.fresh :
             InsertedAt(tx, i).id = InsertedAt(tx, j).id => i = j
      <4>1. tx.first \in Nat /\ \A i \in DOMAIN tx.fresh : i \in Nat
        BY TxFields
      <4> QED
        BY <4>1, InsertedType DEF Typed
    <3> QED
      BY <1>2, <3>1 DEF UniqueIds
  <2>3. UniqueIds(saved)
    BY <1>2, <1>10 DEF UniqueIds, PaysOk, OpenTx, Kin
  <2>4. \A m \in old, l \in saved : m.id # l.id
    BY <1>11
  <2>5. \A m \in new, l \in old : m.id # l.id
    BY <1>12
  <2>6. \A m \in new, l \in saved : m.id # l.id
    BY <1>11, <1>12 DEF Kin
  <2> HIDE DEF old, new, saved
  <2> QED
    BY <1>1, <2>1, <2>2, <2>3, <2>4, <2>5, <2>6 DEF UniqueIds
<1>14. \A m \in logs' : m \notin new => \E l \in logs : Kin(l, m) /\ l.at = m.at
  BY <1>1, <1>11 DEF Kin
<1>15. \A l \in logs : \E m \in logs' : Kin(l, m) /\ l.at = m.at
  <2> TAKE l \in logs
  <2>1. CASE l.id \notin IdsOf(tx.pays)
    BY <1>1, <2>1 DEF Kin
  <2>2. CASE l.id \in IdsOf(tx.pays)
    <3>1. PICK q \in tx.pays : q.id = l.id
      BY <2>2 DEF IdsOf
    <3>2. PICK k \in logs : Kin(k, q) /\ k.at = q.at
      BY <1>9
    <3>3. k = l
      BY <3>1, <3>2 DEF Kin, LogsOk, UniqueIds
    <3>4. SavedOf(tx, q) \in logs'
      BY <1>1, <1>2
    <3>5. Kin(l, SavedOf(tx, q)) /\ l.at = SavedOf(tx, q).at
      BY <1>10, <3>2, <3>3 DEF Kin
    <3> QED
      BY <3>4, <3>5
  <2> QED
    BY <2>1, <2>2
<1>16. logs' \subseteq FiatLog
  <2>1. \A m \in old : m \in FiatLog
    BY DEF Typed
  <2> HIDE DEF old, new, saved
  <2> QED
    BY <1>1, <1>3, <1>4, <2>1
<1>17. \A m \in logs' :
         \/ \E i \in DOMAIN tx.fresh : m = InsertedAt(tx, i)
         \/ m \in logs /\ m.id \notin IdsOf(tx.pays)
         \/ \E q \in tx.pays : m = SavedOf(tx, q)
  BY <1>1, <1>2
<1>18. \A l \in logs : l.id \notin IdsOf(tx.pays) => l \in logs'
  BY <1>1
<1>19. (\A q \in tx.pays : SavedOf(tx, q) \in logs') /\ new \subseteq logs'
  BY <1>1, <1>2
<1> HIDE DEF old, new, saved
<1> QED
  BY <1>8, <1>12, <1>13, <1>14, <1>15, <1>16, <1>17, <1>18, <1>19 DEF new
-----------------------------------------------------------------------------
LEMMA NewCacheType ==
  ASSUME Typed, NEW p \in Postings, NEW merged \in BOOLEAN
  PROVE  /\ NewCache(p, merged) \in CacheRow /\ NewCache(p, merged).id = Cardinality(caches) + 1
         /\ NewCache(p, merged).at = day /\ NewCache(p, merged).merged = merged
         /\ NewCache(p, merged).user = p.user /\ NewCache(p, merged).type = p.type
         /\ NewCache(p, merged).cost = p.cost /\ NewCache(p, merged).count = p.count
         /\ NewCache(p, merged).amount = p.amount
         /\ Charged(NewCache(p, merged))
<1>1. p \in Posting /\ (p.type \in ApiRelated => p.cost \in CostType /\ p.count > 0)
  BY MergeAssumption
<1>2. Cardinality(caches) \in Nat
  BY FS_CardinalityType DEF Typed
<1> QED
  BY <1>1, <1>2 DEF NewCache, Posting, CacheRow, Typed, Charged

(* One row more. *)
LEMMA RowAdded ==
  ASSUME Typed, RowsOk, NEW row \in CacheRow, row.id = Cardinality(caches) + 1,
         row.at <= day, Charged(row), caches' = caches \cup {row}, day' = day
  PROVE  /\ RowsOk' /\ caches' \subseteq CacheRow /\ IsFiniteSet(caches')
         /\ row \notin caches /\ \A r \in caches : r.id # row.id
         /\ Cardinality(caches') = Cardinality(caches) + 1
<1>1. Cardinality(caches) \in Nat
  BY FS_CardinalityType DEF Typed
<1>2. \A r \in caches : r.id # row.id
  BY <1>1 DEF RowsOk, IdsOf
<1>3. row \notin caches
  BY <1>2
<1>4. IsFiniteSet(caches') /\ Cardinality(caches') = Cardinality(caches) + 1
  BY <1>3, FS_AddElement DEF Typed
<1>5. UniqueIds(caches')
  BY <1>2 DEF RowsOk, UniqueIds
<1>6. IdsOf(caches') = 1 .. Cardinality(caches')
  <2>1. IdsOf(caches') = IdsOf(caches) \cup {row.id}
    BY DEF IdsOf
  <2> DEFINE n == Cardinality(caches)
  <2> HIDE DEF n
  <2>2. n \in Nat /\ IdsOf(caches) = 1 .. n /\ row.id = n + 1 /\ Cardinality(caches') = n + 1
    BY <1>1, <1>4 DEF RowsOk, n
  <2>3. 1 .. (n + 1) = (1 .. n) \cup {n + 1}
    BY <2>2
  <2> QED
    BY <2>1, <2>2, <2>3
<1>7. \A r \in caches' : r.at <= day' /\ Charged(r)
  BY DEF RowsOk
<1> QED
  BY <1>2, <1>3, <1>4, <1>5, <1>6, <1>7 DEF RowsOk, Typed

LEMMA PostApiBase ==
  ASSUME BaseInv, NEW p \in Postings, PostApi(p)
  PROVE  BaseInv'
<1> DEFINE row == NewCache(p, FALSE)
<1>1. /\ caches' = caches \cup {row} /\ balance' = [balance EXCEPT ![p.user] = @ + p.amount]
      /\ post.pc = "idle"
      /\ UNCHANGED <<logs, lastLogId, balanceOnFiatlog, day, post, merge, faults, astray>>
  BY DEF PostApi
<1>2. /\ row \in CacheRow /\ row.id = Cardinality(caches) + 1 /\ row.at = day /\ Charged(row)
  BY NewCacheType DEF BaseInv
<1> HIDE DEF row
<1>3. /\ RowsOk' /\ caches' \subseteq CacheRow /\ IsFiniteSet(caches')
  <2>1. day \in Nat /\ row.at <= day /\ caches' = caches \cup {row} /\ day' = day
    BY <1>1, <1>2 DEF BaseInv, Typed
  <2>2. Typed /\ RowsOk
    BY DEF BaseInv
  <2> QED
    BY <1>2, <2>1, <2>2, RowAdded
<1>4. Typed'
  <2>1. balance' \in [User -> Int]
    BY <1>1, MergeAssumption DEF BaseInv, Typed, Posting
  <2> QED
    BY <1>1, <1>3, <2>1 DEF BaseInv, Typed, TxTyped, Tx
<1>5. IdsInv'
  BY <1>1 DEF BaseInv, IdsInv, LogsOk, IdsOf, Drawn, Apart
<1>6. OpenInv'
  <2>1. PostRow'
    BY <1>1 DEF PostRow, OpenTx
  <2>2. MergeRows'
    BY <1>1 DEF BaseInv, OpenInv, MergeRows, OpenTx
  <2>3. PostPays' /\ MergePays'
    BY <1>1 DEF BaseInv, OpenInv, PostPays, MergePays, PaysOk, OpenTx, IdsOf, Kin
  <2>4. OfRows(post)' /\ OfRows(merge)' /\ NextClean'
    BY <1>1 DEF BaseInv, OpenInv, OfRows, IdsOf, NextClean, LogAt
  <2> QED
    BY <2>1, <2>2, <2>3, <2>4 DEF OpenInv
<1> QED
  BY <1>3, <1>4, <1>5, <1>6 DEF BaseInv

(* Steps that leave the tables alone. *)
LEMMA SameTables ==
  ASSUME BaseInv, UNCHANGED <<caches, logs, day, lastLogId>>
  PROVE  /\ RowsOk' /\ LogsOk'
         /\ UNCHANGED post => /\ Drawn(post)' /\ PostRow' /\ PostPays' /\ OfRows(post)'
         /\ UNCHANGED merge => /\ Drawn(merge)' /\ MergeRows' /\ MergePays' /\ OfRows(merge)'
                               /\ NextClean'
         /\ UNCHANGED <<post, merge>> => Apart'
<1>1. RowsOk' /\ LogsOk'
  BY DEF BaseInv, RowsOk, IdsInv, LogsOk, UniqueIds, IdsOf, Charged
<1>2. ASSUME UNCHANGED post PROVE Drawn(post)' /\ PostRow' /\ PostPays' /\ OfRows(post)'
  BY <1>2 DEF BaseInv, IdsInv, OpenInv, Drawn, PostRow, PostPays, PaysOk, OfRows, IdsOf, Kin, OpenTx,
     UniqueIds, LogAt
<1>3. ASSUME UNCHANGED merge
      PROVE  Drawn(merge)' /\ MergeRows' /\ MergePays' /\ OfRows(merge)' /\ NextClean'
  BY <1>3 DEF BaseInv, IdsInv, OpenInv, Drawn, MergeRows, MergePays, PaysOk, OfRows, IdsOf, Kin, OpenTx,
     UniqueIds, LogAt, NextClean
<1>4. UNCHANGED <<post, merge>> => Apart'
  BY DEF BaseInv, IdsInv, Apart
<1> QED
  BY <1>1, <1>2, <1>3, <1>4

(* A transaction that has just ended. *)
Ended(end) == [NoTx EXCEPT !.pc = "next", !.end = end]

LEMMA NoTxFields ==
  ASSUME NEW tx, tx = NoTx \/ \E n \in Nat : tx = Ended(n)
  PROVE  /\ tx.pc \in {"idle", "next"} /\ tx.pays = {} /\ tx.rows = {} /\ tx.users = {}
         /\ DOMAIN tx.fresh = {} /\ TxTyped(tx)
<1>1. CASE tx = NoTx
  <2>1. tx.pc = "idle" /\ tx.pays = {} /\ tx.rows = {} /\ tx.users = {} /\ tx.fresh = << >>
    BY <1>1 DEF NoTx
  <2> QED
    BY <1>1, <2>1, NoTxTyped
<1>2. ASSUME NEW n \in Nat, tx = Ended(n)
      PROVE  /\ tx.pc \in {"idle", "next"} /\ tx.pays = {} /\ tx.rows = {} /\ tx.users = {}
             /\ DOMAIN tx.fresh = {} /\ TxTyped(tx)
  <2>1. tx.pc = "next" /\ tx.pays = {} /\ tx.rows = {} /\ tx.users = {} /\ tx.fresh = << >>
    BY <1>2 DEF NoTx, Ended
  <2>2. NoTx \in Tx
    BY NoTxTyped DEF TxTyped
  <2>3. tx \in Tx
    BY <1>2, <2>2 DEF Tx, Ended
  <2> QED
    BY <2>1, <2>3, FS_EmptySet DEF TxTyped
<1> QED
  BY <1>1, <1>2

LEMMA ClosedPost ==
  ASSUME post' = NoTx
  PROVE  /\ Drawn(post)' /\ Apart' /\ PostRow' /\ PostPays' /\ OfRows(post)'
         /\ TxTyped(post)' /\ post'.pc = "idle"
<1>1. post'.pc = "idle" /\ DOMAIN post'.fresh = {} /\ TxTyped(post')
  <2>1. NoTx.pc = "idle"
    BY DEF NoTx
  <2>2. DOMAIN NoTx.fresh = {} /\ TxTyped(NoTx)
    BY NoTxFields
  <2> QED
    BY <2>1, <2>2
<1> QED
  BY <1>1 DEF Drawn, Apart, PostRow, PostPays, PaysOk, OpenTx, OfRows, TxTyped

LEMMA ClosedMerge ==
  ASSUME merge' = NoTx \/ \E n \in Nat : merge' = Ended(n)
  PROVE  /\ Drawn(merge)' /\ Apart' /\ MergeRows' /\ MergePays' /\ OfRows(merge)' /\ NextClean'
         /\ TxTyped(merge)' /\ merge'.pc \in {"idle", "next"} /\ DOMAIN merge'.fresh = {}
<1>1. /\ merge'.pc \in {"idle", "next"} /\ merge'.pays = {}
      /\ DOMAIN merge'.fresh = {} /\ TxTyped(merge')
  <2> DEFINE tx == merge'
  <2>1. tx = NoTx \/ \E n \in Nat : tx = Ended(n)
    OBVIOUS
  <2> HIDE DEF tx
  <2>2. tx.pc \in {"idle", "next"} /\ tx.pays = {} /\ DOMAIN tx.fresh = {} /\ TxTyped(tx)
    BY <2>1, NoTxFields
  <2> QED
    BY <2>2 DEF tx
<1> QED
  BY <1>1 DEF Drawn, Apart, MergeRows, MergePays, PaysOk, OfRows, NextClean, OpenTx, TxTyped

(* What a posting has read. *)
LEMMA PostReads ==
  ASSUME Typed, NEW p \in Postings, PostBegin(p)
  PROVE  \E pays \in SUBSET logs :
           /\ IsFiniteSet(pays) /\ \A l \in pays : l.type \in {"BUY_GAS", "BUY_STORAGE"}
           /\ pays # {} => p.type = "REFUND_SPONSOR"
           /\ p.type \in Copied
           /\ post' = [NoTx EXCEPT
                !.pc = "read", !.users = {p.user}, !.seen = IdsOf(LastOf(p.user)),
                !.rows = {NewCache(p, TRUE)}, !.early = UsersEarly({p.user}),
                !.fresh = <<Fresh(p, p.amount, p.count, LastBalance(p.user) + p.amount,
                                  {Cardinality(caches) + 1}, IdsOf(pays))>>,
                !.pays = {[l EXCEPT !.refunded = p.amount] : l \in pays},
                !.todo = p.amount]
<1>1. PICK pays \in IF p.type = "REFUND_SPONSOR" THEN {{l} : l \in Refundable(p)} ELSE {{}} :
         post' = [NoTx EXCEPT
                !.pc = "read", !.users = {p.user}, !.seen = IdsOf(LastOf(p.user)),
                !.rows = {NewCache(p, TRUE)}, !.early = UsersEarly({p.user}),
                !.fresh = <<Fresh(p, p.amount, p.count, LastBalance(p.user) + p.amount,
                                  {Cardinality(caches) + 1}, IdsOf(pays))>>,
                !.pays = {[l EXCEPT !.refunded = p.amount] : l \in pays},
                !.todo = p.amount]
  BY DEF PostBegin
<1>2. /\ pays \in SUBSET logs
      /\ IsFiniteSet(pays) /\ \A l \in pays : l.type \in {"BUY_GAS", "BUY_STORAGE"}
      /\ pays # {} => p.type = "REFUND_SPONSOR"
  <2>1. CASE p.type = "REFUND_SPONSOR"
    <3>1. PICK l \in Refundable(p) : pays = {l}
      BY <1>1, <2>1
    <3>2. l \in logs /\ l.type \in {"BUY_GAS", "BUY_STORAGE"}
      BY DEF Refundable, LogsOf
    <3> QED
      BY <2>1, <3>1, <3>2, FS_Singleton
  <2>2. CASE p.type # "REFUND_SPONSOR"
    <3>1. pays = {}
      BY <1>1, <2>2
    <3> QED
      BY <3>1, FS_EmptySet
  <2> QED
    BY <2>1, <2>2
<1>3. p.type \in Copied
  BY DEF PostBegin
<1> QED
  BY <1>1, <1>2, <1>3

(* A log that a refund pays back. *)
PaidBack(l, amount) == [l EXCEPT !.refunded = amount]

LEMMA PostBegins ==
  ASSUME Typed, NEW p \in Postings, PostBegin(p)
  PROVE  \E pays \in SUBSET logs :
           /\ \A l \in pays : l.type \in {"BUY_GAS", "BUY_STORAGE"}
           /\ pays # {} => p.type = "REFUND_SPONSOR"
           /\ p.type \in Copied
           /\ post'.pc = "read" /\ post'.users = {p.user} /\ post'.seen = IdsOf(LastOf(p.user))
           /\ post'.rows = {NewCache(p, TRUE)} /\ post'.early = UsersEarly({p.user})
           /\ post'.todo = p.amount /\ post'.pays = {PaidBack(l, p.amount) : l \in pays}
           /\ Len(post'.fresh) = 1 /\ DOMAIN post'.fresh = {1}
           /\ post'.fresh[1] = Fresh(p, p.amount, p.count, LastBalance(p.user) + p.amount,
                                     {Cardinality(caches) + 1}, IdsOf(pays))
           /\ TxTyped(post')
<1>1. PICK pays \in SUBSET logs :
           /\ IsFiniteSet(pays) /\ \A l \in pays : l.type \in {"BUY_GAS", "BUY_STORAGE"}
           /\ pays # {} => p.type = "REFUND_SPONSOR"
           /\ p.type \in Copied
           /\ post' = [NoTx EXCEPT
                !.pc = "read", !.users = {p.user}, !.seen = IdsOf(LastOf(p.user)),
                !.rows = {NewCache(p, TRUE)}, !.early = UsersEarly({p.user}),
                !.fresh = <<Fresh(p, p.amount, p.count, LastBalance(p.user) + p.amount,
                                  {Cardinality(caches) + 1}, IdsOf(pays))>>,
                !.pays = {[l EXCEPT !.refunded = p.amount] : l \in pays},
                !.todo = p.amount]
  BY PostReads
<1> DEFINE f == Fresh(p, p.amount, p.count, LastBalance(p.user) + p.amount,
                      {Cardinality(caches) + 1}, IdsOf(pays))
           fresh == <<f>>
           saved == {PaidBack(l, p.amount) : l \in pays}
           seen == IdsOf(LastOf(p.user))
           rows == {NewCache(p, TRUE)}
           early == UsersEarly({p.user})
<1>2. p \in Posting /\ Cardinality(caches) \in Nat
  BY MergeAssumption, FS_CardinalityType DEF Typed
<1>3. f \in FreshLog
  <2>1. /\ p.user \in User /\ p.type \in FiatLogType /\ p.cost \in CostType \cup {NoCost}
        /\ p.count \in Nat /\ p.amount \in Int
    BY <1>2 DEF Posting
  <2>2. LastBalance(p.user) + p.amount \in Int
    BY <2>1, LastBalanceType
  <2>3. IdsOf(pays) \in SUBSET Nat /\ {Cardinality(caches) + 1} \in SUBSET Nat
    BY <1>2 DEF IdsOf, Typed, FiatLog
  <2> DEFINE b == LastBalance(p.user) + p.amount
             n == {Cardinality(caches) + 1}
             k == IdsOf(pays)
  <2>4. f = Fresh(p, p.amount, p.count, b, n, k)
    OBVIOUS
  <2> HIDE DEF b, n, k, f
  <2> QED
    BY <2>1, <2>2, <2>3, <2>4 DEF Fresh, FreshLog, FiatLog, b, n, k
<1>4. saved \in SUBSET FiatLog /\ IsFiniteSet(saved)
  <2> DEFINE g == [l \in pays |-> PaidBack(l, p.amount)]
  <2>1. \A l \in pays : PaidBack(l, p.amount) \in FiatLog
    <3>1. p.amount \in Int /\ \A l \in pays : l \in FiatLog
      BY <1>2 DEF Posting, Typed
    <3> QED
      BY <3>1 DEF PaidBack, FiatLog
  <2>2. saved = {g[l] : l \in pays}
    OBVIOUS
  <2>3. saved \in SUBSET FiatLog
    BY <2>1
  <2> HIDE DEF g, saved
  <2> QED
    BY <1>1, <2>2, <2>3, FiniteImage
<1>5. seen \in SUBSET Nat
  BY DEF IdsOf, LastOf, LogsOf, Typed, FiatLog
<1>6. rows \in SUBSET CacheRow /\ IsFiniteSet(rows)
  BY NewCacheType, FS_Singleton
<1>7. early \in SUBSET User /\ p.user \in User /\ p.amount \in Int
  BY <1>2 DEF UsersEarly, Posting
<1>8. fresh \in Seq(FreshLog) /\ Len(fresh) = 1 /\ DOMAIN fresh = {1} /\ fresh[1] = f
  <2> HIDE DEF f
  <2> QED
    BY <1>3
<1>9. post' = [NoTx EXCEPT !.pc = "read", !.users = {p.user}, !.seen = seen, !.rows = rows,
                 !.early = early, !.fresh = fresh, !.pays = saved, !.todo = p.amount]
  BY <1>1 DEF PaidBack
<1> HIDE DEF f, fresh, saved, seen, rows, early
<1>10. NoTx \in Tx
  BY NoTxTyped DEF TxTyped
<1>11. /\ post'.pc = "read" /\ post'.users = {p.user} /\ post'.seen = seen /\ post'.rows = rows
       /\ post'.early = early /\ post'.fresh = fresh /\ post'.pays = saved /\ post'.todo = p.amount
  BY <1>9, <1>10 DEF Tx
<1>12. post' \in Tx
  BY <1>4, <1>5, <1>6, <1>7, <1>8, <1>9, <1>10 DEF Tx
<1>13. TxTyped(post')
  BY <1>4, <1>6, <1>11, <1>12 DEF TxTyped
<1> QED
  BY <1>1, <1>8, <1>11, <1>13 DEF f, saved, seen, rows, early

LEMMA PostBeginBase ==
  ASSUME BaseInv, NEW p \in Postings, PostBegin(p)
  PROVE  BaseInv'
<1>1. PICK pays \in SUBSET logs :
           /\ \A l \in pays : l.type \in {"BUY_GAS", "BUY_STORAGE"}
           /\ p.type \in Copied
           /\ post'.pc = "read" /\ post'.users = {p.user}
           /\ post'.rows = {NewCache(p, TRUE)}
           /\ post'.pays = {PaidBack(l, p.amount) : l \in pays}
           /\ Len(post'.fresh) = 1 /\ DOMAIN post'.fresh = {1}
           /\ post'.fresh[1] = Fresh(p, p.amount, p.count, LastBalance(p.user) + p.amount,
                                     {Cardinality(caches) + 1}, IdsOf(pays))
           /\ TxTyped(post')
  BY PostBegins DEF BaseInv
<1>2. UNCHANGED <<caches, logs, lastLogId, balance, balanceOnFiatlog, day, merge, faults, astray>>
  BY DEF PostBegin, tables
<1>3. LogAt(post', 1).type = p.type /\ LogAt(post', 1).ids = {Cardinality(caches) + 1}
  BY <1>1 DEF Fresh, LogAt
<1>4. Typed'
  BY <1>1, <1>2 DEF BaseInv, Typed, TxTyped, Tx
<1>5. RowsOk' /\ LogsOk' /\ Drawn(merge)' /\ MergeRows' /\ MergePays' /\ OfRows(merge)' /\ NextClean'
  BY <1>2, SameTables
<1>6. Drawn(post)' /\ Apart'
  BY <1>1 DEF Drawn, Apart
<1> DEFINE row == NewCache(p, TRUE)
<1>7. /\ row.id = Cardinality(caches) + 1 /\ row.merged /\ row.at = day
      /\ row.type = p.type /\ row.user = p.user
  BY NewCacheType DEF BaseInv
<1> HIDE DEF row
<1>8. day \in Nat
  BY DEF BaseInv, Typed
<1>9. PostRow'
  <2>0. row.at = day /\ day' = day
    BY <1>2, <1>7
  <2>1. row \in post'.rows /\ post'.rows = {row}
    BY <1>1 DEF row
  <2>2. /\ row.id = Cardinality(caches') + 1 /\ row.type \in Copied /\ post'.users = {row.user}
        /\ Len(post'.fresh) = 1 /\ post'.fresh[1].log.type = row.type
    BY <1>1, <1>2, <1>3, <1>7 DEF LogAt
  <2>3. row.merged
    BY <1>7
  <2>4. row.at <= day'
    BY <1>8, <2>0
  <2> QED
    BY <2>1, <2>2, <2>4, <2>3, Zenon DEF PostRow, LogAt
<1>10. OfRows(post)'
  <2>1. IdsOf(post'.rows) = {row.id}
    BY <1>1 DEF IdsOf, row
  <2> QED
    BY <1>1, <1>3, <1>7, <2>1 DEF OfRows, LogAt
<1>11. PostPays'
  <2>1. \A l \in pays : l \in FiatLog /\ l \in logs
    BY DEF BaseInv, Typed
  <2>2. \A l \in pays : LET q == PaidBack(l, p.amount)
                        IN Kin(l, q) /\ l.refunds = q.refunds /\ l.at = q.at
    BY <2>1 DEF PaidBack, Kin, FiatLog
  <2>3. \A q \in post'.pays : \E l \in pays : Kin(l, q) /\ l.refunds = q.refunds /\ l.at = q.at
    BY <1>1, <2>2
  <2>4. \A l \in pays, m \in pays : l.id = m.id => l = m
    BY <2>1 DEF BaseInv, IdsInv, LogsOk, UniqueIds
  <2>5. UniqueIds(post'.pays)
    <3>1. ASSUME NEW x \in post'.pays, NEW y \in post'.pays, x.id = y.id PROVE x = y
      <4>1. PICK l \in pays : x = PaidBack(l, p.amount)
        BY <1>1
      <4>2. PICK m \in pays : y = PaidBack(m, p.amount)
        BY <1>1
      <4>3. l.id = m.id
        BY <2>2, <3>1, <4>1, <4>2 DEF Kin
      <4> QED
        BY <2>4, <4>1, <4>2, <4>3
    <3> QED
      BY <3>1 DEF UniqueIds
  <2>6. \A q \in post'.pays : q.type \in {"BUY_GAS", "BUY_STORAGE"}
    BY <1>1, <2>3 DEF Kin
  <2>7. \A q \in post'.pays : \E l \in logs : Kin(l, q) /\ l.refunds = q.refunds /\ l.at = q.at
    BY <2>1, <2>3
  <2> QED
    BY <1>2, <2>5, <2>6, <2>7 DEF PostPays, PaysOk
<1> QED
  BY <1>4, <1>5, <1>6, <1>9, <1>10, <1>11 DEF BaseInv, IdsInv, OpenInv
-----------------------------------------------------------------------------
LEMMA DrawnIds ==
  ASSUME NEW tx, TxTyped(tx), lastLogId \in Nat
  PROVE  LET new == DrawIds(tx) IN
         /\ TxTyped(new) /\ new.pc = "inserted" /\ new.first = lastLogId
         /\ new.users = tx.users /\ new.seen = tx.seen /\ new.fresh = tx.fresh
         /\ new.pays = tx.pays /\ new.rows = tx.rows /\ new.early = tx.early /\ new.todo = tx.todo
         /\ new.end = tx.end
<1> DEFINE new == DrawIds(tx)
<1>1. tx \in Tx
  BY DEF TxTyped
<1>2. /\ new \in Tx /\ new.pc = "inserted" /\ new.first = lastLogId
      /\ new.users = tx.users /\ new.seen = tx.seen /\ new.fresh = tx.fresh
      /\ new.pays = tx.pays /\ new.rows = tx.rows /\ new.early = tx.early /\ new.todo = tx.todo
      /\ new.end = tx.end
  BY <1>1 DEF DrawIds, Tx
<1> HIDE DEF new
<1> QED
  BY <1>2 DEF TxTyped, new

LEMMA PostInsertBase ==
  ASSUME BaseInv, PostInsert
  PROVE  BaseInv'
<1>1. /\ post.pc = "read" /\ post' = DrawIds(post) /\ lastLogId' = lastLogId + Len(post.fresh)
      /\ UNCHANGED <<caches, logs, balance, balanceOnFiatlog, day, merge, faults, astray>>
  BY DEF PostInsert
<1>2. TxTyped(post) /\ TxTyped(merge) /\ lastLogId \in Nat /\ Len(post.fresh) \in Nat
  BY TxFields DEF BaseInv, Typed
<1>3. /\ TxTyped(post') /\ post'.pc = "inserted" /\ post'.first = lastLogId
      /\ post'.users = post.users /\ post'.fresh = post.fresh /\ post'.pays = post.pays
      /\ post'.rows = post.rows
  BY <1>1, <1>2, DrawnIds
<1>4. Typed'
  BY <1>1, <1>2, <1>3 DEF BaseInv, Typed, TxTyped, Tx
<1>5. RowsOk'
  BY <1>1 DEF BaseInv, RowsOk, UniqueIds, IdsOf, Charged
<1>6. \A l \in logs : l.id \in Nat /\ l.id <= lastLogId
  BY DEF BaseInv, IdsInv, LogsOk, Typed, FiatLog
<1>7. LogsOk'
  BY <1>1, <1>2, <1>6 DEF BaseInv, IdsInv, LogsOk, UniqueIds, IdsOf
<1>8. Drawn(post)'
  <2>1. \A i \in DOMAIN post.fresh : i \in Nat /\ i > 0
    BY <1>2, TxFields
  <2> QED
    BY <1>1, <1>2, <1>3, <1>6, <2>1 DEF Drawn
<1>9. ASSUME merge.pc = "inserted"
      PROVE  /\ merge.first + Len(merge.fresh) <= lastLogId
             /\ merge.first \in Nat /\ Len(merge.fresh) \in Nat
             /\ DOMAIN merge.fresh = 1 .. Len(merge.fresh)
  BY <1>2, <1>9, TxFields DEF BaseInv, IdsInv, Drawn
<1>10. Drawn(merge)'
  BY <1>1, <1>2, <1>9 DEF BaseInv, IdsInv, Drawn
<1>11. Apart'
  <2>1. \A i \in DOMAIN post.fresh : i \in Nat /\ i > 0
    BY <1>2, TxFields
  <2> QED
    BY <1>1, <1>2, <1>3, <1>9, <2>1 DEF Apart
<1>12. PostRow' /\ PostPays' /\ OfRows(post)'
  <2>1. OpenTx(post) /\ UNCHANGED <<caches, logs, day>>
    BY <1>1 DEF OpenTx
  <2>2. PostRow'
    BY <1>3, <2>1 DEF BaseInv, OpenInv, PostRow, LogAt
  <2>3. PostPays'
    BY <1>3, <2>1 DEF BaseInv, OpenInv, PostPays, PaysOk, UniqueIds, Kin
  <2>4. OfRows(post)'
    BY <1>3 DEF BaseInv, OpenInv, OfRows, LogAt, IdsOf
  <2> QED
    BY <2>2, <2>3, <2>4
<1>13. MergeRows' /\ MergePays' /\ OfRows(merge)' /\ NextClean'
  BY <1>1 DEF BaseInv, OpenInv, MergeRows, MergePays, PaysOk, UniqueIds, Kin, OfRows, LogAt, IdsOf,
     NextClean, OpenTx
<1> QED
  BY <1>4, <1>5, <1>7, <1>8, <1>10, <1>11, <1>12, <1>13 DEF BaseInv, IdsInv, OpenInv

LEMMA MergeInsertBase ==
  ASSUME BaseInv, MergeInsert
  PROVE  BaseInv'
<1>1. /\ merge.pc = "read" /\ merge' = DrawIds(merge) /\ lastLogId' = lastLogId + Len(merge.fresh)
      /\ UNCHANGED <<caches, logs, balance, balanceOnFiatlog, day, post, faults, astray>>
  BY DEF MergeInsert
<1>2. TxTyped(post) /\ TxTyped(merge) /\ lastLogId \in Nat /\ Len(merge.fresh) \in Nat
  BY TxFields DEF BaseInv, Typed
<1>3. /\ TxTyped(merge') /\ merge'.pc = "inserted" /\ merge'.first = lastLogId
      /\ merge'.users = merge.users /\ merge'.fresh = merge.fresh /\ merge'.pays = merge.pays
      /\ merge'.rows = merge.rows
  BY <1>1, <1>2, DrawnIds
<1>4. Typed'
  BY <1>1, <1>2, <1>3 DEF BaseInv, Typed, TxTyped, Tx
<1>5. RowsOk'
  BY <1>1 DEF BaseInv, RowsOk, UniqueIds, IdsOf, Charged
<1>6. \A l \in logs : l.id \in Nat /\ l.id <= lastLogId
  BY DEF BaseInv, IdsInv, LogsOk, Typed, FiatLog
<1>7. LogsOk'
  BY <1>1, <1>2, <1>6 DEF BaseInv, IdsInv, LogsOk, UniqueIds, IdsOf
<1>8. Drawn(merge)'
  <2>1. \A i \in DOMAIN merge.fresh : i \in Nat /\ i > 0
    BY <1>2, TxFields
  <2> QED
    BY <1>1, <1>2, <1>3, <1>6, <2>1 DEF Drawn
<1>9. ASSUME post.pc = "inserted"
      PROVE  /\ post.first + Len(post.fresh) <= lastLogId
             /\ post.first \in Nat /\ Len(post.fresh) \in Nat
             /\ DOMAIN post.fresh = 1 .. Len(post.fresh)
  BY <1>2, <1>9, TxFields DEF BaseInv, IdsInv, Drawn
<1>10. Drawn(post)'
  BY <1>1, <1>2, <1>9 DEF BaseInv, IdsInv, Drawn
<1>11. Apart'
  <2>1. \A i \in DOMAIN merge.fresh : i \in Nat /\ i > 0
    BY <1>2, TxFields
  <2> QED
    BY <1>1, <1>2, <1>3, <1>9, <2>1 DEF Apart
<1>12. MergeRows' /\ MergePays' /\ OfRows(merge)' /\ NextClean'
  <2>1. OpenTx(merge) /\ UNCHANGED <<caches, logs, day>>
    BY <1>1 DEF OpenTx
  <2>2. MergeRows' /\ NextClean'
    BY <1>3, <2>1 DEF BaseInv, OpenInv, MergeRows, NextClean
  <2>3. MergePays'
    BY <1>3, <2>1 DEF BaseInv, OpenInv, MergePays, PaysOk, UniqueIds, Kin
  <2>4. OfRows(merge)'
    BY <1>3 DEF BaseInv, OpenInv, OfRows, LogAt, IdsOf
  <2> QED
    BY <2>2, <2>3, <2>4
<1>13. PostRow' /\ PostPays' /\ OfRows(post)'
  BY <1>1 DEF BaseInv, OpenInv, PostRow, PostPays, PaysOk, UniqueIds, Kin, OfRows, LogAt, IdsOf, OpenTx
<1> QED
  BY <1>4, <1>5, <1>7, <1>8, <1>10, <1>11, <1>12, <1>13 DEF BaseInv, IdsInv, OpenInv

(* Steps that end a transaction, or begin a run of the merge. *)
LEMMA PostBalanceBase ==
  ASSUME BaseInv, PostBalance
  PROVE  BaseInv'
<1>1. /\ balance' = [u \in User |-> balance[u] + IF u \in post.users THEN post.todo ELSE 0]
      /\ post' = NoTx
      /\ UNCHANGED <<caches, logs, lastLogId, balanceOnFiatlog, day, merge, faults, astray>>
  BY DEF PostBalance
<1>2. /\ Drawn(post)' /\ Apart' /\ PostRow' /\ PostPays' /\ OfRows(post)' /\ TxTyped(post)'
  BY <1>1, ClosedPost
<1>3. /\ RowsOk' /\ LogsOk' /\ Drawn(merge)' /\ MergeRows' /\ MergePays' /\ OfRows(merge)' /\ NextClean'
  BY <1>1, SameTables
<1>4. balance' \in [User -> Int]
  BY <1>1, TxFields DEF BaseInv, Typed
<1>5. Typed'
  BY <1>1, <1>2, <1>4 DEF BaseInv, Typed, TxTyped, Tx
<1> QED
  BY <1>2, <1>3, <1>5 DEF BaseInv, IdsInv, OpenInv

LEMMA MergeStartBase ==
  ASSUME BaseInv, MergeStart
  PROVE  BaseInv'
<1>1. merge' = Ended(day) /\ UNCHANGED <<tables, day, post, faults, astray>>
  BY DEF MergeStart, Ended
<1>2. day \in Nat /\ UNCHANGED <<caches, logs, lastLogId, day, post>>
  BY <1>1 DEF BaseInv, Typed, tables
<1>3. /\ Drawn(merge)' /\ Apart' /\ MergeRows' /\ MergePays' /\ OfRows(merge)' /\ NextClean'
      /\ TxTyped(merge)'
  BY <1>1, <1>2, ClosedMerge
<1>4. RowsOk' /\ LogsOk' /\ Drawn(post)' /\ PostRow' /\ PostPays' /\ OfRows(post)'
  BY <1>2, SameTables
<1>5. Typed'
  BY <1>1, <1>3 DEF BaseInv, Typed, TxTyped, Tx, tables
<1> QED
  BY <1>3, <1>4, <1>5 DEF BaseInv, IdsInv, OpenInv

LEMMA MergeFailsBase ==
  ASSUME BaseInv, MergeFails
  PROVE  BaseInv'
<1>1. merge' = NoTx /\ UNCHANGED <<tables, day, post, astray>>
  BY DEF MergeFails
<1>2. UNCHANGED <<caches, logs, lastLogId, day, post>>
  BY <1>1 DEF tables
<1>3. /\ Drawn(merge)' /\ Apart' /\ MergeRows' /\ MergePays' /\ OfRows(merge)' /\ NextClean'
      /\ TxTyped(merge)'
  BY <1>1, ClosedMerge
<1>4. RowsOk' /\ LogsOk' /\ Drawn(post)' /\ PostRow' /\ PostPays' /\ OfRows(post)'
  BY <1>2, SameTables
<1>5. Typed'
  BY <1>1, <1>3 DEF BaseInv, Typed, TxTyped, Tx, tables
<1> QED
  BY <1>3, <1>4, <1>5 DEF BaseInv, IdsInv, OpenInv

LEMMA CrashBase ==
  ASSUME BaseInv, Crash
  PROVE  BaseInv'
<1>1. /\ post' = NoTx /\ merge' = NoTx
      /\ balanceOnFiatlog' = [u \in User |-> LogBalance(u)]
      /\ astray' = [u \in User |->
           astray[u] \cup IF post.pc = "logged" /\ u \in post.users THEN {"half"} ELSE {}]
      /\ UNCHANGED <<caches, logs, lastLogId, balance, day>>
  BY DEF Crash
<1>2. /\ Drawn(merge)' /\ Apart' /\ MergeRows' /\ MergePays' /\ OfRows(merge)' /\ NextClean'
      /\ TxTyped(merge)'
  BY <1>1, ClosedMerge
<1>3. Drawn(post)' /\ PostRow' /\ PostPays' /\ OfRows(post)' /\ TxTyped(post)'
  BY <1>1, ClosedPost
<1>4. RowsOk' /\ LogsOk'
  BY <1>1, SameTables
<1>5. balanceOnFiatlog' \in [User -> Int]
  BY <1>1, LastBalanceType DEF BaseInv, LogBalance
<1>6. astray' \in [User -> SUBSET Reasons]
  <2> DEFINE why(u) == IF post.pc = "logged" /\ u \in post.users THEN {"half"} ELSE {}
  <2>1. \A u \in User : why(u) \in SUBSET Reasons
    BY DEF Reasons
  <2>2. \A u \in User : astray[u] \in SUBSET Reasons
    BY DEF BaseInv, Typed
  <2>3. astray' = [u \in User |-> astray[u] \cup why(u)]
    BY <1>1
  <2> HIDE DEF why
  <2> QED
    BY <2>1, <2>2, <2>3
<1>7. Typed'
  BY <1>1, <1>2, <1>3, <1>5, <1>6 DEF BaseInv, Typed
<1> QED
  BY <1>2, <1>3, <1>4, <1>7 DEF BaseInv, IdsInv, OpenInv

LEMMA NextDayBase ==
  ASSUME BaseInv, NextDay
  PROVE  BaseInv'
<1>1. day' = day + 1 /\ UNCHANGED <<tables, post, merge, faults, astray>>
  BY DEF NextDay
<1>2. UNCHANGED <<caches, logs, lastLogId, balance, balanceOnFiatlog>>
  BY <1>1 DEF tables
<1>3. /\ day \in Nat /\ \A r \in caches : r.at \in Nat /\ r.at <= day
      /\ \A l \in logs : l.at \in Nat /\ l.at <= day
      /\ \A r \in post.rows : r.at \in Nat
  BY TxFields DEF BaseInv, RowsOk, IdsInv, LogsOk, Typed, CacheRow, FiatLog
<1>4. Typed'
  BY <1>1, <1>2 DEF BaseInv, Typed, TxTyped, Tx
<1>5. RowsOk'
  BY <1>1, <1>2, <1>3 DEF BaseInv, RowsOk, UniqueIds, IdsOf, Charged
<1>6. IdsInv'
  <2>1. LogsOk'
    BY <1>1, <1>2, <1>3 DEF BaseInv, IdsInv, LogsOk, UniqueIds, IdsOf
  <2>2. Drawn(post)' /\ Drawn(merge)' /\ Apart'
    BY <1>1, <1>2 DEF BaseInv, IdsInv, Drawn, Apart
  <2> QED
    BY <2>1, <2>2 DEF IdsInv
<1>7. PostRow'
  <2>1. SUFFICES ASSUME OpenTx(post) PROVE PostRow'
    BY <1>1 DEF PostRow, OpenTx
  <2>2. PICK row \in post.rows :
          /\ post.rows = {row} /\ row.id = Cardinality(caches) + 1 /\ row.merged /\ row.at <= day
          /\ row.type \in Copied /\ post.users = {row.user} /\ Len(post.fresh) = 1
          /\ LogAt(post, 1).type = row.type
    BY <2>1 DEF BaseInv, OpenInv, PostRow
  <2>3. row.at <= day'
    BY <1>1, <1>3, <2>2
  <2>4. UNCHANGED <<caches, post>>
    BY <1>1, <1>2
  <2> QED
    BY <2>2, <2>3, <2>4, Zenon DEF PostRow, LogAt
<1>8. MergeRows' /\ PostPays' /\ MergePays' /\ OfRows(post)' /\ OfRows(merge)' /\ NextClean'
  BY <1>1, <1>2 DEF BaseInv, OpenInv, MergeRows, PostPays, MergePays, PaysOk, UniqueIds, Kin, OfRows,
     LogAt, IdsOf, NextClean, OpenTx
<1> QED
  BY <1>4, <1>5, <1>6, <1>7, <1>8 DEF BaseInv, OpenInv
-----------------------------------------------------------------------------
LEMMA MergeReadFields ==
  ASSUME Typed, NEW u \in User, MergeRead(u)
  PROVE  \E rows \in SUBSET caches : \E order :
           /\ Grouped(u, TypeDue, rows, order)
           /\ merge'.pc = "read" /\ merge'.users = {u} /\ merge'.seen = IdsOf(LastOf(u))
           /\ merge'.rows = rows /\ merge'.early = UsersEarly({u})
           /\ merge'.fresh = LogsOfGroups(u, rows, order) /\ merge'.pays = merge.pays
           /\ merge.pc = "next" /\ DOMAIN merge'.fresh = DOMAIN order
           /\ UNCHANGED <<caches, logs, lastLogId, balance, balanceOnFiatlog, day, post, faults, astray>>
<1>1. PICK rows \in SUBSET caches : \E order \in Orderings({r.cost : r \in rows}) :
        /\ Grouped(u, TypeDue, rows, order)
        /\ merge' = [merge EXCEPT
                !.pc = "read", !.users = {u}, !.seen = IdsOf(LastOf(u)), !.rows = rows,
                !.early = UsersEarly({u}), !.fresh = LogsOfGroups(u, rows, order)]
  BY MergeReads
<1>2. PICK order :
        /\ Grouped(u, TypeDue, rows, order)
        /\ merge' = [merge EXCEPT
                !.pc = "read", !.users = {u}, !.seen = IdsOf(LastOf(u)), !.rows = rows,
                !.early = UsersEarly({u}), !.fresh = LogsOfGroups(u, rows, order)]
  BY <1>1
<1>3. DOMAIN LogsOfGroups(u, rows, order) = DOMAIN order
  BY DEF LogsOfGroups
<1> DEFINE seen == IdsOf(LastOf(u))
           early == UsersEarly({u})
           fresh == LogsOfGroups(u, rows, order)
<1>4. merge' = [merge EXCEPT !.pc = "read", !.users = {u}, !.seen = seen, !.rows = rows,
                             !.early = early, !.fresh = fresh]
  BY <1>2
<1> HIDE DEF seen, early, fresh
<1>5. merge \in Tx
  BY DEF Typed, TxTyped
<1>6. /\ merge'.pc = "read" /\ merge'.users = {u} /\ merge'.seen = seen /\ merge'.rows = rows
      /\ merge'.early = early /\ merge'.fresh = fresh /\ merge'.pays = merge.pays
  BY <1>4, <1>5 DEF Tx
<1>7. merge.pc = "next" /\ UNCHANGED <<caches, logs, lastLogId, balance, balanceOnFiatlog, day, post, faults, astray>>
  BY DEF MergeRead, tables
<1> QED
  BY <1>2, <1>3, <1>6, <1>7 DEF seen, early, fresh

LEMMA MergeReadBase ==
  ASSUME BaseInv, NEW u \in User, MergeRead(u)
  PROVE  BaseInv'
<1>1. PICK rows, order :
           /\ rows \in SUBSET caches
           /\ Grouped(u, TypeDue, rows, order)
           /\ merge'.pc = "read" /\ merge'.rows = rows
           /\ merge'.fresh = LogsOfGroups(u, rows, order) /\ merge'.pays = merge.pays
           /\ merge.pc = "next" /\ DOMAIN merge'.fresh = DOMAIN order
           /\ UNCHANGED <<caches, logs, lastLogId, balance, balanceOnFiatlog, day, post, faults, astray>>
  BY MergeReadFields DEF BaseInv
<1>2. Typed'
  BY MergeReadTyped DEF BaseInv
<1>3. RowsOk' /\ LogsOk' /\ Drawn(post)' /\ PostRow' /\ PostPays' /\ OfRows(post)'
  BY <1>1, SameTables
<1>4. Drawn(merge)' /\ Apart' /\ NextClean'
  BY <1>1 DEF Drawn, Apart, NextClean
<1>5. MergeRows'
  BY <1>1 DEF Grouped, Due, MergeRows
<1>6. MergePays'
  BY <1>1 DEF BaseInv, OpenInv, NextClean, MergePays, PaysOk, UniqueIds
<1>7. OfRows(merge)'
  <2>1. ASSUME NEW i \in DOMAIN order
        PROVE  /\ LogAt(merge', i).ids # {}
               /\ LogAt(merge', i).ids \subseteq IdsOf(rows)
    <3>0. GroupAt(rows, order, i) # {}
      <4>1. Typed /\ Grouped(u, TypeDue, rows, order) /\ rows \in SUBSET caches
        BY <1>1 DEF BaseInv
      <4>2. \A j \in DOMAIN order : GroupAt(rows, order, j) # {}
        BY <4>1, GroupFacts
      <4> QED
        BY <4>2
    <3> DEFINE mine == GroupAt(rows, order, i)
    <3>1. LogsOfGroups(u, rows, order)[i].log.ids = IdsOf(mine)
      BY <1>1, GroupLog DEF BaseInv
    <3>2. mine # {}
      BY <3>0
    <3>3. mine \subseteq rows
      BY DEF GroupAt
    <3> HIDE DEF mine
    <3> QED
      BY <1>1, <3>1, <3>2, <3>3 DEF LogAt, IdsOf
  <2> QED
    BY <1>1, <2>1 DEF OfRows, LogAt
<1> QED
  BY <1>2, <1>3, <1>4, <1>5, <1>6, <1>7 DEF BaseInv, IdsInv, OpenInv

(* A payment as a merge of refunds will save it. *)
Shared(l) == [l EXCEPT !.refunded = @ + Share(l)]

LEMMA RefundsReadFields ==
  ASSUME Typed, RefundsRead
  PROVE  /\ merge.pc = "next" /\ UNCHANGED <<caches, logs, lastLogId, balance, balanceOnFiatlog, day, post, faults, astray>>
         /\ \/ merge' = NoTx
            \/ \E order \in Orderings(Paying) :
                 /\ BorneRows # {}
                 /\ GroupedNewestFirst(order)
                 /\ merge'.pc = "read" /\ merge'.users = BorneUsers /\ merge'.rows = BorneRows
                 /\ merge'.seen = UNION {IdsOf(LastOf(v)) : v \in BorneUsers}
                 /\ merge'.early = UsersEarly(BorneUsers)
                 /\ merge'.pays = {Shared(l) : l \in Bearing}
                 /\ merge'.fresh = LogsOfRefunds(order)
                 /\ DOMAIN merge'.fresh = DOMAIN order
<1>1. merge.pc = "next" /\ UNCHANGED <<caches, logs, lastLogId, balance, balanceOnFiatlog, day, post, faults, astray>>
  BY DEF RefundsRead, tables
<1>2. ASSUME BorneRows # {}, NEW order \in Orderings(Paying), GroupedNewestFirst(order),
             merge' = [merge EXCEPT
                    !.pc = "read", !.users = BorneUsers, !.rows = BorneRows,
                    !.seen = UNION {IdsOf(LastOf(u)) : u \in BorneUsers},
                    !.early = UsersEarly(BorneUsers),
                    !.pays = {[l EXCEPT !.refunded = @ + Share(l)] : l \in Bearing},
                    !.fresh = LogsOfRefunds(order)]
      PROVE  /\ merge'.pc = "read" /\ merge'.users = BorneUsers /\ merge'.rows = BorneRows
             /\ merge'.seen = UNION {IdsOf(LastOf(v)) : v \in BorneUsers}
             /\ merge'.early = UsersEarly(BorneUsers)
             /\ merge'.pays = {Shared(l) : l \in Bearing}
             /\ merge'.fresh = LogsOfRefunds(order)
             /\ DOMAIN merge'.fresh = DOMAIN order
  <2>1. DOMAIN LogsOfRefunds(order) = DOMAIN order
    BY DEF LogsOfRefunds
  <2> DEFINE seen == UNION {IdsOf(LastOf(u)) : u \in BorneUsers}
             early == UsersEarly(BorneUsers)
             pays == {Shared(l) : l \in Bearing}
             fresh == LogsOfRefunds(order)
  <2>2. merge' = [merge EXCEPT
                    !.pc = "read", !.users = BorneUsers, !.rows = BorneRows,
                    !.seen = seen, !.early = early, !.pays = pays, !.fresh = fresh]
    BY <1>2 DEF Shared
  <2> HIDE DEF seen, early, pays, fresh
  <2>3. merge \in Tx
    BY DEF Typed, TxTyped
  <2>4. /\ merge'.pc = "read" /\ merge'.users = BorneUsers /\ merge'.rows = BorneRows
        /\ merge'.seen = seen /\ merge'.early = early /\ merge'.pays = pays /\ merge'.fresh = fresh
    BY <2>2, <2>3 DEF Tx
  <2> QED
    BY <2>1, <2>4 DEF seen, early, pays, fresh
<1> QED
  BY <1>1, <1>2, RefundsReads

LEMMA RefundsReadBase ==
  ASSUME BaseInv, RefundsRead
  PROVE  BaseInv'
<1>1. UNCHANGED <<caches, logs, lastLogId, balance, balanceOnFiatlog, day, post, faults, astray>>
  BY RefundsReadFields DEF BaseInv
<1>2. Typed'
  BY RefundsReadTyped DEF BaseInv
<1>3. RowsOk' /\ LogsOk' /\ Drawn(post)' /\ PostRow' /\ PostPays' /\ OfRows(post)'
  BY <1>1, SameTables
<1>4. CASE merge' = NoTx
  <2>1. /\ Drawn(merge)' /\ Apart' /\ MergeRows' /\ MergePays' /\ OfRows(merge)' /\ NextClean'
    BY <1>4, ClosedMerge
  <2> QED
    BY <1>2, <1>3, <2>1 DEF BaseInv, IdsInv, OpenInv
<1>5. ASSUME NEW order \in Orderings(Paying),
             merge'.pc = "read", merge'.rows = BorneRows,
             merge'.pays = {Shared(l) : l \in Bearing},
             merge'.fresh = LogsOfRefunds(order), DOMAIN merge'.fresh = DOMAIN order
      PROVE  BaseInv'
  <2>1. Drawn(merge)' /\ Apart' /\ NextClean'
    BY <1>5 DEF Drawn, Apart, NextClean
  <2>2. MergeRows'
    BY <1>1, <1>5 DEF MergeRows, BorneRows, RefundsDue, Due
  <2>3. MergePays'
    <3>1. ASSUME NEW l \in Bearing
          PROVE  /\ l \in logs /\ Kin(l, Shared(l)) /\ l.refunds = Shared(l).refunds
                 /\ l.at = Shared(l).at /\ Shared(l).type = "PAY_API_FEE"
      <4>1. l \in logs /\ l \in FiatLog /\ l.type = "PAY_API_FEE"
        BY BearingFacts DEF BaseInv, Typed
      <4> QED
        BY <4>1 DEF Shared, Kin, FiatLog
    <3>2. UniqueIds(merge'.pays)
      <4>1. ASSUME NEW x \in merge'.pays, NEW y \in merge'.pays, x.id = y.id PROVE x = y
        <5>1. PICK l \in Bearing : x = Shared(l)
          BY <1>5
        <5>2. PICK m \in Bearing : y = Shared(m)
          BY <1>5
        <5>3. l.id = m.id /\ l \in logs /\ m \in logs
          BY <3>1, <4>1, <5>1, <5>2 DEF Kin
        <5>4. l = m
          BY <5>3 DEF BaseInv, IdsInv, LogsOk, UniqueIds
        <5> QED
          BY <5>1, <5>2, <5>4
      <4> QED
        BY <4>1 DEF UniqueIds
    <3>3. \A q \in merge'.pays : q.type = "PAY_API_FEE" /\ \E l \in logs :
             Kin(l, q) /\ l.refunds = q.refunds /\ l.at = q.at
      BY <1>5, <3>1
    <3> QED
      BY <1>1, <3>2, <3>3 DEF MergePays, PaysOk
  <2>4. OfRows(merge)'
    <3>1. ASSUME NEW i \in DOMAIN order
          PROVE  LogAt(merge', i).ids # {} /\ LogAt(merge', i).ids \subseteq IdsOf(BorneRows)
      <4> DEFINE l == order[i]
                 rows == RefundsLike(l)
      <4>1. l \in Paying
        BY PayingOrder DEF BaseInv
      <4>2. LogsOfRefunds(order)[i].log.ids = IdsOf(rows)
        BY <4>1, RefundLog DEF BaseInv
      <4>3. rows # {} /\ rows \subseteq BorneRows
        BY <4>1, BearingFacts DEF BaseInv, Paying
      <4> HIDE DEF rows
      <4> QED
        BY <1>5, <4>2, <4>3 DEF LogAt, IdsOf
    <3> QED
      BY <1>5, <3>1 DEF OfRows, LogAt
  <2> QED
    BY <1>2, <1>3, <2>1, <2>2, <2>3, <2>4 DEF BaseInv, IdsInv, OpenInv
<1> QED
  BY <1>4, <1>5, RefundsReadFields DEF BaseInv
-----------------------------------------------------------------------------
(* A commit, for the rest of the tables ... *)
LEMMA CommitTypes ==
  ASSUME Typed, NEW tx, TxTyped(tx), WriteLogs(tx)
  PROVE  balanceOnFiatlog' \in [User -> Int] /\ astray' \in [User -> SUBSET Reasons]
<1>1. balanceOnFiatlog' \in [User -> Int]
  <2>1. ASSUME NEW u \in User PROVE OnFiatlogOf(tx, u) \in Int
    <3> DEFINE mine == {i \in DOMAIN tx.fresh : tx.fresh[i].log.user = u}
               last == tx.fresh[Max(mine)].log
               again == {l \in tx.pays : last.type = "REFUND_API_FEE" /\ l.user = u /\ l.cost = last.cost}
               oldest == CHOOSE l \in again : \A m \in again : l.id <= m.id
    <3>1. OnFiatlogOf(tx, u) = IF mine = {} THEN balanceOnFiatlog[u]
                                  ELSE IF again = {} THEN last.balance ELSE oldest.balance
      BY DEF OnFiatlogOf
    <3>2. ASSUME mine # {} PROVE last.balance \in Int
      <4>1. mine \in SUBSET (DOMAIN tx.fresh) /\ \A x \in mine : x \in Nat
        BY TxFields
      <4>2. IsFiniteSet(DOMAIN tx.fresh)
        BY TxFields, FS_Interval
      <4> HIDE DEF mine
      <4>3. Max(mine) \in mine
        BY <3>2, <4>1, <4>2, FS_Subset, Greatest
      <4>4. tx.fresh[Max(mine)] \in FreshLog
        BY <4>1, <4>3, TxFields
      <4> QED
        BY <4>4 DEF FreshLog, FiatLog
    <3>3. ASSUME again # {} PROVE oldest.balance \in Int
      <4>1. again \subseteq FiatLog
        BY TxFields
      <4> HIDE DEF again
      <4>2. IdsOf(again) \subseteq Nat /\ IdsOf(again) # {}
        BY <3>3, <4>1 DEF IdsOf, FiatLog
      <4>3. PICK n \in IdsOf(again) : \A k \in IdsOf(again) : n <= k
        BY <4>2, LeastNumber
      <4>4. \E l \in again : \A m \in again : l.id <= m.id
        BY <4>3 DEF IdsOf
      <4>5. oldest \in again
        BY <4>4
      <4> QED
        BY <4>1, <4>5 DEF FiatLog
    <3> HIDE DEF mine, last, again, oldest
    <3>4. balanceOnFiatlog[u] \in Int
      BY DEF Typed
    <3> QED
      BY <3>1, <3>2, <3>3, <3>4
  <2>2. balanceOnFiatlog' = [u \in User |-> OnFiatlogOf(tx, u)]
    BY DEF WriteLogs, OnFiatlogAfter
  <2> QED
    BY <2>1, <2>2
<1>2. astray' \in [User -> SUBSET Reasons]
  <2> DEFINE raced(u) == IF u \in tx.users /\ IdsOf(LastOf(u)) \ tx.seen # {} THEN {"raced"} ELSE {}
             early(u) == IF u \in tx.early THEN {"early"} ELSE {}
  <2>1. \A u \in User : raced(u) \in SUBSET Reasons /\ early(u) \in SUBSET Reasons
    BY DEF Reasons
  <2>2. \A u \in User : astray[u] \in SUBSET Reasons
    BY DEF Typed
  <2>3. astray' = [u \in User |-> astray[u] \cup raced(u) \cup early(u)]
    BY DEF WriteLogs
  <2> HIDE DEF raced, early
  <2> QED
    BY <2>1, <2>2, <2>3
<1> QED
  BY <1>1, <1>2

(* ... for the logs ... *)
LEMMA CommitLogsOk ==
  ASSUME Typed, LogsOk, NEW tx, TxTyped(tx), tx.pc = "inserted", Drawn(tx),
         NEW types, PaysOk(tx, types), WriteLogs(tx), OfRows(tx),
         IdsOf(caches) \subseteq IdsOf(caches'), IdsOf(tx.rows) \subseteq IdsOf(caches'),
         day' = day, lastLogId' = lastLogId
  PROVE  LogsOk'
<1>1. UniqueIds(logs')
  BY CommitLogs
<1>2. ASSUME NEW m \in logs'
      PROVE  /\ m.id <= lastLogId /\ m.at <= day /\ m.ids # {} /\ m.ids \subseteq IdsOf(caches')
  <2>1. CASE m \in Inserted(tx)
    <3>1. PICK i \in DOMAIN tx.fresh : m = InsertedAt(tx, i)
      BY <2>1, Written
    <3>2. m.id = tx.first + i /\ m.at = day /\ m.ids = LogAt(tx, i).ids
      BY <3>1, InsertedType DEF Typed
    <3>3. i \in 1 .. Len(tx.fresh) /\ Len(tx.fresh) \in Nat /\ tx.first \in Nat
          /\ lastLogId \in Nat /\ day \in Nat
      BY TxFields DEF Typed
    <3>4. tx.first + Len(tx.fresh) <= lastLogId
      BY DEF Drawn
    <3>5. m.id <= lastLogId /\ m.at <= day
      BY <3>2, <3>3, <3>4
    <3>6. m.ids # {} /\ m.ids \subseteq IdsOf(caches')
      BY <3>2 DEF OfRows
    <3> QED
      BY <3>5, <3>6
  <2>2. CASE m \notin Inserted(tx)
    <3>1. PICK l \in logs : Kin(l, m) /\ l.at = m.at
      BY <2>2, CommitLogs
    <3>2. l.id <= lastLogId /\ l.at <= day /\ l.ids # {} /\ l.ids \subseteq IdsOf(caches)
      BY DEF LogsOk
    <3> QED
      BY <3>1, <3>2 DEF Kin
  <2> QED
    BY <2>1, <2>2
<1> QED
  BY <1>1, <1>2 DEF LogsOk

(* ... and for the other transaction. *)
LEMMA CommitOther ==
  ASSUME Typed, LogsOk, NEW tx, TxTyped(tx), tx.pc = "inserted", Drawn(tx),
         NEW types, PaysOk(tx, types), WriteLogs(tx),
         NEW o, NEW others, types \cap others = {}, PaysOk(o, others), Drawn(o),
         o.pc = "inserted" =>
           \A i \in DOMAIN tx.fresh, j \in DOMAIN o.fresh : tx.first + i # o.first + j
  PROVE  /\ OpenTx(o) =>
              /\ UniqueIds(o.pays)
              /\ \A q \in o.pays : q.type \in others /\ \E l \in logs' :
                   Kin(l, q) /\ l.refunds = q.refunds /\ l.at = q.at
         /\ o.pc = "inserted" => \A m \in logs', j \in DOMAIN o.fresh : m.id # o.first + j
         /\ OpenTx(o) => \A q \in o.pays, l \in logs : l.id = q.id => l \in logs'
<1>1. ASSUME OpenTx(o), NEW q \in o.pays, NEW l \in logs, l.id = q.id
      PROVE  l \in logs' /\ Kin(l, q) /\ l.refunds = q.refunds /\ l.at = q.at
  <2>1. q.type \in others /\ \E k \in logs : Kin(k, q) /\ k.refunds = q.refunds /\ k.at = q.at
    BY <1>1 DEF PaysOk
  <2>2. PICK k \in logs : Kin(k, q) /\ k.refunds = q.refunds /\ k.at = q.at
    BY <2>1
  <2>3. k = l
    BY <1>1, <2>2 DEF Kin, LogsOk, UniqueIds
  <2>4. l.id \notin IdsOf(tx.pays)
    <3>1. SUFFICES ASSUME NEW p \in tx.pays, p.id = l.id PROVE FALSE
      BY DEF IdsOf
    <3>2. p.type \in types
      BY DEF PaysOk, OpenTx
    <3>3. PICK n \in logs : Kin(n, p)
      BY DEF PaysOk, OpenTx
    <3>4. n = l
      BY <3>1, <3>3 DEF Kin, LogsOk, UniqueIds
    <3> QED
      BY <2>1, <2>2, <2>3, <3>2, <3>3, <3>4 DEF Kin
  <2> QED
    BY <2>2, <2>3, <2>4, CommitLogs
<1>2. ASSUME OpenTx(o)
      PROVE  /\ UniqueIds(o.pays)
             /\ \A q \in o.pays : q.type \in others /\ \E l \in logs' :
                   Kin(l, q) /\ l.refunds = q.refunds /\ l.at = q.at
  <2>1. UniqueIds(o.pays) /\ \A q \in o.pays : q.type \in others /\ \E l \in logs : l.id = q.id
    BY <1>2 DEF PaysOk, Kin
  <2> QED
    BY <1>1, <1>2, <2>1
<1>3. ASSUME o.pc = "inserted", NEW m \in logs', NEW j \in DOMAIN o.fresh
      PROVE  m.id # o.first + j
  <2>1. CASE m \in Inserted(tx)
    <3>1. PICK i \in DOMAIN tx.fresh : m = InsertedAt(tx, i)
      BY <2>1, Written
    <3>2. m.id = tx.first + i
      BY <3>1, InsertedType DEF Typed
    <3> QED
      BY <1>3, <3>2
  <2>2. CASE m \notin Inserted(tx)
    <3>1. PICK l \in logs : Kin(l, m)
      BY <2>2, CommitLogs
    <3> QED
      BY <1>3, <3>1 DEF Kin, Drawn
  <2> QED
    BY <2>1, <2>2
<1> QED
  BY <1>1, <1>2, <1>3

(* The rows: a posting adds its row, a merge marks its rows. *)
LEMMA PostRows ==
  ASSUME BaseInv, WriteLogs(post), post.pc = "inserted", day' = day
  PROVE  /\ \E row \in post.rows :
              /\ row \in CacheRow /\ post.rows = {row} /\ caches' = caches \cup {row}
              /\ row.merged = TRUE /\ row.type \in Copied /\ post.users = {row.user}
         /\ RowsOk' /\ caches' \subseteq CacheRow /\ IsFiniteSet(caches')
         /\ IdsOf(caches) \subseteq IdsOf(caches') /\ IdsOf(post.rows) \subseteq IdsOf(caches')
         /\ \A r \in caches, q \in post.rows : r.id # q.id
<1>1. PICK row \in post.rows :
    /\ post.rows = {row} /\ row.id = Cardinality(caches) + 1 /\ row.merged /\ row.at <= day
    /\ row.type \in Copied /\ post.users = {row.user}
  BY DEF BaseInv, OpenInv, PostRow, OpenTx
<1>2. row \in CacheRow
  BY TxFields DEF BaseInv, Typed
<1>3. row.merged = TRUE
  BY <1>1, <1>2 DEF CacheRow
<1>4. MergedRow(row) = row
  BY <1>2, <1>3 DEF MergedRow, CacheRow
<1>5. Cardinality(caches) \in Nat
  BY FS_CardinalityType DEF BaseInv, Typed
<1>6. \A r \in caches : r.id # row.id
  BY <1>1, <1>5 DEF BaseInv, RowsOk, IdsOf
<1>7. caches' = caches \cup {row}
  <2>1. caches' = {r \in caches : r.id \notin IdsOf(post.rows)} \cup {MergedRow(r) : r \in post.rows}
    BY Written
  <2>2. IdsOf(post.rows) = {row.id} /\ {MergedRow(r) : r \in post.rows} = {row}
    BY <1>1, <1>4 DEF IdsOf
  <2> QED
    BY <1>6, <2>1, <2>2
<1>8. Charged(row)
  BY <1>1 DEF Charged, Copied, ApiRelated, MergeOrder
<1>9. RowsOk' /\ caches' \subseteq CacheRow /\ IsFiniteSet(caches')
  <2>1. Typed /\ RowsOk /\ row.id = Cardinality(caches) + 1 /\ row.at <= day
    BY <1>1 DEF BaseInv
  <2> QED
    BY <1>2, <1>7, <1>8, <2>1, RowAdded
<1>10. IdsOf(caches) \subseteq IdsOf(caches') /\ IdsOf(post.rows) \subseteq IdsOf(caches')
  BY <1>1, <1>7 DEF IdsOf
<1> QED
  BY <1>1, <1>2, <1>3, <1>6, <1>7, <1>9, <1>10

LEMMA MergeMarks ==
  ASSUME BaseInv, WriteLogs(merge), merge.pc = "inserted", day' = day
  PROVE  /\ merge.rows \subseteq {r \in caches : ~r.merged}
         /\ \A r \in caches' :
              \/ r \in caches /\ r.id \notin IdsOf(merge.rows)
              \/ \E q \in merge.rows : r = MergedRow(q)
         /\ \A r \in caches : r.id \notin IdsOf(merge.rows) => r \in caches'
         /\ \A q \in merge.rows : MergedRow(q) \in caches'
         /\ RowsOk' /\ caches' \subseteq CacheRow /\ IsFiniteSet(caches')
         /\ IdsOf(caches') = IdsOf(caches) /\ Cardinality(caches') = Cardinality(caches)
<1> DEFINE old == {r \in caches : r.id \notin IdsOf(merge.rows)}
           new == {MergedRow(r) : r \in merge.rows}
<1>1. merge.rows \subseteq {r \in caches : ~r.merged} /\ merge.rows \subseteq caches
  BY DEF BaseInv, OpenInv, MergeRows, OpenTx
<1>2. caches' = old \cup new
  BY Written
<1>3. \A r \in caches : r \in CacheRow
  BY DEF BaseInv, Typed
<1>4. \A r \in merge.rows : /\ MergedRow(r) \in CacheRow /\ MergedRow(r).id = r.id
                            /\ MergedRow(r).at = r.at /\ (Charged(r) => Charged(MergedRow(r)))
  BY <1>1, <1>3 DEF MergedRow, CacheRow, Charged
<1>5. UniqueIds(caches)
  BY DEF BaseInv, RowsOk
<1>6. IdsOf(caches') = IdsOf(caches)
  <2>1. \A n \in IdsOf(caches') : n \in IdsOf(caches)
    <3>1. \A r \in old : r.id \in IdsOf(caches)
      BY DEF IdsOf
    <3>2. \A r \in new : r.id \in IdsOf(caches)
      BY <1>1, <1>4 DEF IdsOf
    <3> HIDE DEF old, new
    <3> QED
      BY <1>2, <3>1, <3>2 DEF IdsOf
  <2>2. \A r \in caches : r.id \in IdsOf(caches')
    <3> TAKE r \in caches
    <3>1. CASE r \in old
      BY <1>2, <3>1 DEF IdsOf
    <3>2. CASE r \notin old
      <4>1. PICK q \in merge.rows : q.id = r.id
        BY <3>2 DEF IdsOf
      <4>2. MergedRow(q) \in caches' /\ MergedRow(q).id = r.id
        BY <1>2, <1>4, <4>1
      <4> QED
        BY <4>2 DEF IdsOf
    <3> QED
      BY <3>1, <3>2
  <2> QED
    BY <2>1, <2>2 DEF IdsOf
<1>7. UniqueIds(caches')
  <2>1. \A x, y \in old : x.id = y.id => x = y
    BY <1>5 DEF UniqueIds
  <2>2. \A x, y \in new : x.id = y.id => x = y
    BY <1>1, <1>4, <1>5 DEF UniqueIds
  <2>3. \A x \in old, y \in new : x.id # y.id
    BY <1>4 DEF IdsOf
  <2> HIDE DEF old, new
  <2> QED
    BY <1>2, <2>1, <2>2, <2>3 DEF UniqueIds
<1>8. IsFiniteSet(caches') /\ Cardinality(caches') = Cardinality(caches)
  <2>1. SameIds(caches, caches')
    BY <1>6 DEF IdsOf, SameIds
  <2> QED
    BY <1>5, <1>7, <2>1, CardinalityById DEF BaseInv, Typed
<1>9. \A r \in caches : r.at <= day /\ Charged(r)
  BY DEF BaseInv, RowsOk
<1>10. \A r \in caches' : r.at <= day /\ Charged(r) /\ r \in CacheRow
  <2>1. \A r \in old : r.at <= day /\ Charged(r) /\ r \in CacheRow
    BY <1>3, <1>9
  <2>2. \A r \in new : r.at <= day /\ Charged(r) /\ r \in CacheRow
    BY <1>1, <1>4, <1>9
  <2> HIDE DEF old, new
  <2> QED
    BY <1>2, <2>1, <2>2
<1>11. RowsOk'
  <2>1. IdsOf(caches') = 1 .. Cardinality(caches')
    BY <1>6, <1>8 DEF BaseInv, RowsOk
  <2>2. \A r \in caches' : r.at <= day' /\ Charged(r)
    BY <1>10
  <2> QED
    BY <1>7, <2>1, <2>2 DEF RowsOk, Charged
<1>12. \A r \in caches' :
              \/ r \in caches /\ r.id \notin IdsOf(merge.rows)
              \/ \E q \in merge.rows : r = MergedRow(q)
  BY <1>2
<1>13. (\A r \in caches : r.id \notin IdsOf(merge.rows) => r \in caches')
       /\ \A q \in merge.rows : MergedRow(q) \in caches'
  BY <1>2
<1>14. caches' \subseteq CacheRow
  BY <1>10
<1> HIDE DEF old, new
<1> QED
  BY <1>1, <1>6, <1>8, <1>11, <1>12, <1>13, <1>14

LEMMA PostCommits ==
  ASSUME Typed, PostCommit
  PROVE  /\ post.pc = "inserted" /\ WriteLogs(post)
         /\ UNCHANGED <<lastLogId, day, merge, faults>>
         /\ \E u \in post.users :
              \/ /\ post.fresh[1].log.type = "REFUND_SPONSOR"
                 /\ post' = [post EXCEPT !.pc = "logged"] /\ UNCHANGED balance
              \/ /\ post.fresh[1].log.type # "REFUND_SPONSOR"
                 /\ post' = NoTx /\ balance' = [balance EXCEPT ![u] = @ + post.todo]
         /\ balance' \in [User -> Int]
<1>1. PICK u \in post.users :
         IF post.fresh[1].log.type = "REFUND_SPONSOR"
         THEN post' = [post EXCEPT !.pc = "logged"] /\ UNCHANGED balance
         ELSE post' = NoTx /\ balance' = [balance EXCEPT ![u] = @ + post.todo]
  BY DEF PostCommit
<1>2. u \in User /\ post.todo \in Int
  BY TxFields DEF Typed
<1>3. balance' \in [User -> Int]
  BY <1>1, <1>2 DEF Typed
<1> QED
  BY <1>1, <1>3 DEF PostCommit

LEMMA PostCommitBase ==
  ASSUME BaseInv, PostCommit
  PROVE  BaseInv'
<1>1. /\ post.pc = "inserted" /\ WriteLogs(post) /\ UNCHANGED <<lastLogId, day, merge, faults>>
      /\ balance' \in [User -> Int]
      /\ post' = [post EXCEPT !.pc = "logged"] \/ post' = NoTx
  BY PostCommits DEF BaseInv
<1>2. TxTyped(post) /\ TxTyped(merge)
  BY DEF BaseInv, Typed
<1>3. /\ RowsOk' /\ caches' \subseteq CacheRow /\ IsFiniteSet(caches')
      /\ IdsOf(caches) \subseteq IdsOf(caches') /\ IdsOf(post.rows) \subseteq IdsOf(caches')
      /\ caches \subseteq caches'
  BY <1>1, PostRows
<1>4. PICK types : types = {"BUY_GAS", "BUY_STORAGE"}
  OBVIOUS
<1>5. PICK others : others = {"PAY_API_FEE"}
  OBVIOUS
<1>6. /\ Typed /\ LogsOk /\ Drawn(post) /\ PaysOk(post, types) /\ OfRows(post)
      /\ PaysOk(merge, others) /\ Drawn(merge) /\ types \cap others = {}
      /\ merge.pc = "inserted" =>
           \A i \in DOMAIN post.fresh, j \in DOMAIN merge.fresh : post.first + i # merge.first + j
  <2>1. PaysOk(post, types) /\ PaysOk(merge, others)
    BY <1>4, <1>5 DEF BaseInv, OpenInv, PostPays, MergePays
  <2>2. types \cap others = {}
    BY <1>4, <1>5
  <2> QED
    BY <1>1, <2>1, <2>2 DEF BaseInv, IdsInv, OpenInv, Apart
<1>7. LogsOk'
  <2>1. day' = day /\ lastLogId' = lastLogId
    BY <1>1
  <2> QED
    BY <1>1, <1>2, <1>3, <1>6, <2>1, CommitLogsOk
<1>8. logs' \subseteq FiatLog /\ IsFiniteSet(logs')
  BY <1>1, <1>2, <1>6, CommitLogs
<1>9. balanceOnFiatlog' \in [User -> Int] /\ astray' \in [User -> SUBSET Reasons]
  BY <1>1, <1>2, <1>6, CommitTypes
<1>10. post'.pc \notin {"read", "inserted"} /\ TxTyped(post') /\ OfRows(post)'
  <2>1. CASE post' = NoTx
    <3>1. OfRows(post)' /\ TxTyped(post)' /\ post'.pc = "idle"
      BY <2>1, ClosedPost
    <3> QED
      BY <3>1 DEF TxTyped
  <2>2. CASE post' = [post EXCEPT !.pc = "logged"]
    <3>1. post \in Tx
      BY <1>2 DEF TxTyped
    <3>2. /\ post' \in Tx /\ post'.pc = "logged" /\ post'.pays = post.pays /\ post'.rows = post.rows
          /\ post'.fresh = post.fresh
      BY <2>2, <3>1 DEF Tx
    <3>3. TxTyped(post')
      BY <1>2, <3>2 DEF TxTyped
    <3>4. OfRows(post)'
      BY <1>6, <3>2 DEF OfRows, LogAt, IdsOf
    <3> QED
      BY <3>2, <3>3, <3>4
  <2> QED
    BY <1>1, <2>1, <2>2
<1>11. Typed'
  <2>1. TxTyped(merge') /\ lastLogId' \in Nat /\ day' \in Nat
    BY <1>1, <1>2 DEF BaseInv, Typed
  <2> QED
    BY <1>1, <1>3, <1>8, <1>9, <1>10, <2>1 DEF Typed, TxTyped
<1>12. Drawn(post)' /\ Apart' /\ PostRow' /\ PostPays'
  BY <1>10 DEF Drawn, Apart, PostRow, PostPays, PaysOk, OpenTx
<1>13. /\ OpenTx(merge) =>
              /\ UniqueIds(merge.pays)
              /\ \A q \in merge.pays : q.type \in others /\ \E l \in logs' :
                   Kin(l, q) /\ l.refunds = q.refunds /\ l.at = q.at
       /\ merge.pc = "inserted" => \A m \in logs', j \in DOMAIN merge.fresh : m.id # merge.first + j
  <2> HIDE <1>4, <1>5
  <2> QED
    BY <1>1, <1>2, <1>6, CommitOther
<1>14. MergePays'
  BY <1>1, <1>5, <1>13 DEF MergePays, PaysOk, OpenTx
<1>15. Drawn(merge)'
  BY <1>1, <1>6, <1>13 DEF Drawn
<1>16. MergeRows'
  <2>1. OpenTx(merge) => merge.rows \subseteq {r \in caches : ~r.merged}
    BY DEF BaseInv, OpenInv, MergeRows
  <2> QED
    BY <1>1, <1>3, <2>1 DEF MergeRows, OpenTx
<1>17. OfRows(merge)' /\ NextClean'
  BY <1>1 DEF BaseInv, OpenInv, OfRows, LogAt, IdsOf, NextClean
<1> QED
  BY <1>3, <1>7, <1>10, <1>11, <1>12, <1>14, <1>15, <1>16, <1>17 DEF BaseInv, IdsInv, OpenInv

LEMMA MergeCommits ==
  ASSUME Typed, MergeCommit
  PROVE  /\ merge.pc = "inserted" /\ WriteLogs(merge)
         /\ UNCHANGED <<lastLogId, balance, day, post, faults>>
         /\ merge' = NoTx \/ \E n \in Nat : merge' = Ended(n)
<1>1. merge' = NoTx \/ merge' = Ended(merge.end)
  BY DEF MergeCommit, Ended
<1>2. merge.end \in Nat
  BY TxFields DEF Typed
<1> QED
  BY <1>1, <1>2 DEF MergeCommit

LEMMA MergeCommitBase ==
  ASSUME BaseInv, MergeCommit
  PROVE  BaseInv'
<1>1. /\ merge.pc = "inserted" /\ WriteLogs(merge)
      /\ UNCHANGED <<lastLogId, balance, day, post, faults>>
      /\ merge' = NoTx \/ \E n \in Nat : merge' = Ended(n)
  BY MergeCommits DEF BaseInv
<1>2. TxTyped(post) /\ TxTyped(merge)
  BY DEF BaseInv, Typed
<1>3. /\ RowsOk' /\ caches' \subseteq CacheRow /\ IsFiniteSet(caches')
      /\ IdsOf(caches') = IdsOf(caches) /\ Cardinality(caches') = Cardinality(caches)
      /\ merge.rows \subseteq caches
  BY <1>1, MergeMarks
<1>4. PICK types : types = {"PAY_API_FEE"}
  OBVIOUS
<1>5. PICK others : others = {"BUY_GAS", "BUY_STORAGE"}
  OBVIOUS
<1>6. /\ Typed /\ LogsOk /\ Drawn(merge) /\ PaysOk(merge, types) /\ OfRows(merge)
      /\ PaysOk(post, others) /\ Drawn(post) /\ types \cap others = {}
      /\ post.pc = "inserted" =>
           \A i \in DOMAIN merge.fresh, j \in DOMAIN post.fresh : merge.first + i # post.first + j
  <2>1. PaysOk(merge, types) /\ PaysOk(post, others)
    BY <1>4, <1>5 DEF BaseInv, OpenInv, PostPays, MergePays
  <2>2. types \cap others = {}
    BY <1>4, <1>5
  <2> QED
    BY <1>1, <2>1, <2>2 DEF BaseInv, IdsInv, OpenInv, Apart
<1>7. LogsOk'
  <2>1. day' = day /\ lastLogId' = lastLogId
    BY <1>1
  <2>2. IdsOf(caches) \subseteq IdsOf(caches') /\ IdsOf(merge.rows) \subseteq IdsOf(caches')
    BY <1>3 DEF IdsOf
  <2> QED
    BY <1>1, <1>2, <1>6, <2>1, <2>2, CommitLogsOk
<1>8. logs' \subseteq FiatLog /\ IsFiniteSet(logs')
  BY <1>1, <1>2, <1>6, CommitLogs
<1>9. balanceOnFiatlog' \in [User -> Int] /\ astray' \in [User -> SUBSET Reasons]
  BY <1>1, <1>2, <1>6, CommitTypes
<1>10. /\ Drawn(merge)' /\ Apart' /\ MergeRows' /\ MergePays' /\ OfRows(merge)' /\ NextClean'
       /\ TxTyped(merge)'
  BY <1>1, ClosedMerge
<1>11. Typed'
  <2>1. TxTyped(post') /\ lastLogId' \in Nat /\ day' \in Nat /\ balance' \in [User -> Int]
    BY <1>1, <1>2 DEF BaseInv, Typed
  <2> QED
    BY <1>1, <1>3, <1>8, <1>9, <1>10, <2>1 DEF Typed, TxTyped
<1>12. /\ OpenTx(post) =>
              /\ UniqueIds(post.pays)
              /\ \A q \in post.pays : q.type \in others /\ \E l \in logs' :
                   Kin(l, q) /\ l.refunds = q.refunds /\ l.at = q.at
       /\ post.pc = "inserted" => \A m \in logs', j \in DOMAIN post.fresh : m.id # post.first + j
  <2> HIDE <1>4, <1>5
  <2> QED
    BY <1>1, <1>2, <1>6, CommitOther
<1>13. PostPays'
  BY <1>1, <1>5, <1>12 DEF PostPays, PaysOk, OpenTx
<1>14. Drawn(post)'
  BY <1>1, <1>6, <1>12 DEF Drawn
<1>15. PostRow'
  <2>1. SUFFICES ASSUME OpenTx(post) PROVE PostRow'
    BY <1>1 DEF PostRow, OpenTx
  <2>2. PICK row \in post.rows :
          /\ post.rows = {row} /\ row.id = Cardinality(caches) + 1 /\ row.merged /\ row.at <= day
          /\ row.type \in Copied /\ post.users = {row.user} /\ Len(post.fresh) = 1
          /\ LogAt(post, 1).type = row.type
    BY <2>1 DEF BaseInv, OpenInv, PostRow
  <2>3. Cardinality(caches') = Cardinality(caches) /\ day' = day /\ UNCHANGED post
    BY <1>1, <1>3
  <2> QED
    BY <2>2, <2>3, Zenon DEF PostRow, LogAt
<1>16. OfRows(post)'
  BY <1>1 DEF BaseInv, OpenInv, OfRows, LogAt, IdsOf
<1> QED
  BY <1>3, <1>7, <1>10, <1>11, <1>13, <1>14, <1>15, <1>16 DEF BaseInv, IdsInv, OpenInv
-----------------------------------------------------------------------------
(* cli/update_fiat_log_created changes the days of refunds only. *)
RefundTypes == {"REFUND_API_FEE", "REFUND_SPONSOR"}
LastRow(l) == CHOOSE r \in caches : r.id = Max(l.ids)
Dated(l) == IF l.type \in RefundTypes THEN [l EXCEPT !.at = LastRow(l).at] ELSE l

LEMMA DatedFacts ==
  ASSUME BaseInv, NEW l \in logs
  PROVE  /\ Dated(l) \in FiatLog /\ Kin(l, Dated(l)) /\ Dated(l).refunds = l.refunds
         /\ Dated(l).refunded = l.refunded /\ Dated(l).at <= day
         /\ l.type \notin RefundTypes => Dated(l) = l
<1>1. l \in FiatLog /\ l.ids # {} /\ l.ids \subseteq IdsOf(caches) /\ l.at <= day
  BY DEF BaseInv, IdsInv, LogsOk, Typed
<1>2. LastRow(l) \in caches
  <2>1. Cardinality(caches) \in Nat /\ IdsOf(caches) = 1 .. Cardinality(caches)
    BY FS_CardinalityType DEF BaseInv, RowsOk, Typed
  <2>2. IsFiniteSet(1 .. Cardinality(caches))
    BY <2>1, FS_Interval
  <2>3. IsFiniteSet(l.ids) /\ \A n \in l.ids : n \in Nat
    BY <1>1, <2>1, <2>2, FS_Subset
  <2>4. Max(l.ids) \in IdsOf(caches)
    BY <1>1, <2>3, Greatest
  <2>5. \E r \in caches : r.id = Max(l.ids)
    BY <2>4 DEF IdsOf
  <2> QED
    BY <2>5 DEF LastRow
<1>3. LastRow(l).at \in Nat /\ LastRow(l).at <= day
  BY <1>2 DEF BaseInv, RowsOk, Typed, CacheRow
<1> QED
  BY <1>1, <1>3 DEF Dated, Kin, FiatLog

LEMMA UpdateFacts ==
  ASSUME BaseInv, UpdateCreated
  PROVE  /\ logs' = {Dated(l) : l \in logs}
         /\ UNCHANGED <<caches, lastLogId, balance, balanceOnFiatlog, day, post, merge>>
         /\ astray' \in [User -> SUBSET Reasons]
         /\ \A u \in User : astray'[u] = {} =>
              astray[u] = {} /\ IdsOf(LastOf(u)') = IdsOf(LastOf(u))
<1>1. logs' = {Dated(l) : l \in logs}
  BY DEF UpdateCreated, Dated, LastRow, RefundTypes
<1>2. UNCHANGED <<caches, lastLogId, balance, balanceOnFiatlog, day, post, merge>>
  BY DEF UpdateCreated
<1>3. astray' = [u \in User |-> IF IdsOf(LastOf(u)') # IdsOf(LastOf(u)) THEN astray[u] \cup {"dated"}
                                                        ELSE astray[u]]
  BY DEF UpdateCreated
<1>4. \A u \in User : astray[u] \in SUBSET Reasons /\ {"dated"} \subseteq Reasons
  BY DEF BaseInv, Typed, Reasons
<1>5. astray' \in [User -> SUBSET Reasons]
  BY <1>3, <1>4
<1>6. \A u \in User : astray'[u] = {} =>
              astray[u] = {} /\ IdsOf(LastOf(u)') = IdsOf(LastOf(u))
  BY <1>3
<1> QED
  BY <1>1, <1>2, <1>5, <1>6

LEMMA UpdateCreatedBase ==
  ASSUME BaseInv, UpdateCreated
  PROVE  BaseInv'
<1>1. /\ logs' = {Dated(l) : l \in logs}
      /\ UNCHANGED <<caches, lastLogId, balance, balanceOnFiatlog, day, post, merge>>
      /\ astray' \in [User -> SUBSET Reasons]
  BY UpdateFacts
<1>2. \A l \in logs : /\ Dated(l) \in FiatLog /\ Kin(l, Dated(l)) /\ Dated(l).refunds = l.refunds
                      /\ Dated(l).at <= day /\ Dated(l).id = l.id /\ Dated(l).ids = l.ids
                      /\ l.type \notin RefundTypes => Dated(l) = l
  BY DatedFacts DEF Kin
<1>3. IsFiniteSet(logs')
  <2> DEFINE f == [l \in logs |-> Dated(l)]
  <2>1. logs' = {f[l] : l \in logs}
    BY <1>1
  <2> HIDE DEF f
  <2> QED
    BY <2>1, FiniteImage DEF BaseInv, Typed
<1>4. Typed'
  BY <1>1, <1>2, <1>3 DEF BaseInv, Typed, TxTyped, Tx
<1>5. RowsOk'
  BY <1>1 DEF BaseInv, RowsOk, UniqueIds, IdsOf, Charged
<1>6. LogsOk'
  <2>1. UniqueIds(logs')
    <3>1. \A l, m \in logs : l.id = m.id => l = m
      BY DEF BaseInv, IdsInv, LogsOk, UniqueIds
    <3>2. \A l, m \in logs : Dated(l).id = Dated(m).id => l = m
      BY <1>2, <3>1
    <3> QED
      BY <1>1, <3>2 DEF UniqueIds
  <2>2. \A l \in logs : l.id <= lastLogId /\ l.ids # {} /\ l.ids \subseteq IdsOf(caches)
    BY DEF BaseInv, IdsInv, LogsOk
  <2>3. \A l \in logs' : l.id <= lastLogId /\ l.at <= day /\ l.ids # {} /\ l.ids \subseteq IdsOf(caches)
    BY <1>1, <1>2, <2>2
  <2>4. lastLogId' = lastLogId /\ day' = day /\ IdsOf(caches') = IdsOf(caches)
    BY <1>1 DEF IdsOf
  <2> QED
    BY <2>1, <2>3, <2>4 DEF LogsOk
<1>7. Drawn(post)' /\ Drawn(merge)' /\ Apart'
  <2>1. \A m \in logs' : \E l \in logs : m.id = l.id
    BY <1>1, <1>2
  <2> QED
    BY <1>1, <2>1 DEF BaseInv, IdsInv, Drawn, Apart
<1>8. ASSUME NEW l \in logs, l.type \in {"BUY_GAS", "BUY_STORAGE", "PAY_API_FEE"}
      PROVE  l \in logs'
  <2>1. l.type \notin RefundTypes
    BY <1>8 DEF RefundTypes
  <2> QED
    BY <1>1, <1>2, <2>1
<1>9. PostPays' /\ MergePays'
  <2>1. PostPays'
    BY <1>1, <1>8 DEF BaseInv, OpenInv, PostPays, PaysOk, UniqueIds, Kin, OpenTx
  <2>2. MergePays'
    BY <1>1, <1>8 DEF BaseInv, OpenInv, MergePays, PaysOk, UniqueIds, Kin, OpenTx
  <2> QED
    BY <2>1, <2>2
<1>10. PostRow' /\ MergeRows' /\ OfRows(post)' /\ OfRows(merge)' /\ NextClean'
  BY <1>1 DEF BaseInv, OpenInv, PostRow, MergeRows, OfRows, NextClean, OpenTx, LogAt, IdsOf
<1> QED
  BY <1>4, <1>5, <1>6, <1>7, <1>9, <1>10 DEF BaseInv, IdsInv, OpenInv
-----------------------------------------------------------------------------
(* At first there is a deposit of each user who has paid in, and its log. *)
LEMMA FirstRows ==
  ASSUME Init
  PROVE  \E id \in [Payers -> Nat] :
           /\ \A u \in Payers : u \in User /\ FirstRow(u, id[u]) \in CacheRow
                                /\ FirstLog(u, id[u]) \in FiatLog /\ id[u] \in 1 .. Cardinality(Payers)
           /\ \A u, v \in Payers : id[u] = id[v] => u = v
           /\ caches = {FirstRow(u, id[u]) : u \in Payers}
           /\ logs = {FirstLog(u, id[u]) : u \in Payers}
           /\ IsFiniteSet(caches) /\ IsFiniteSet(logs) /\ IsFiniteSet(Payers)
           /\ Cardinality(caches) = Cardinality(Payers)
           /\ Cardinality(Payers) \in Nat
           /\ \A n \in 1 .. Cardinality(Payers) : \E u \in Payers : id[u] = n
<1> DEFINE n == Cardinality(Payers)
<1>1. PICK id \in [Payers -> 1 .. n] :
        /\ IsInjective(id)
        /\ caches = {FirstRow(u, id[u]) : u \in Payers}
        /\ logs = {FirstLog(u, id[u]) : u \in Payers}
  BY DEF Init
<1>2. Payers \in SUBSET User /\ IsFiniteSet(Payers)
  BY MergeAssumption, FS_Subset DEF Payers
<1>3. n \in Nat
  BY <1>2, FS_CardinalityType
<1>4. \A u, v \in Payers : id[u] = id[v] => u = v
  BY <1>1 DEF IsInjective
<1>5. \A u \in Payers : Deposited[u] \in Nat
  BY <1>2, MergeAssumption
<1>6. \A u \in Payers : u \in User /\ FirstRow(u, id[u]) \in CacheRow
                        /\ FirstLog(u, id[u]) \in FiatLog
  <2> HIDE DEF n
  <2>1. \A u \in Payers : id[u] \in Nat /\ u \in User
    BY <1>1, <1>2, <1>3
  <2>2. "DEPOSIT" \in FiatLogType
    BY DEF FiatLogType, Copied
  <2>3. \A u \in Payers : FirstRow(u, id[u]) \in CacheRow
    BY <1>5, <2>1, <2>2 DEF FirstRow, CacheRow
  <2>4. \A u \in Payers : FirstLog(u, id[u]) \in FiatLog
    BY <1>5, <2>1, <2>2 DEF FirstLog, FiatLog
  <2> QED
    BY <2>1, <2>3, <2>4
<1>7. IsFiniteSet(caches) /\ Cardinality(caches) = n
  <2> DEFINE g == [u \in Payers |-> FirstRow(u, id[u])]
  <2>1. g \in Bijection(Payers, caches)
    <3>1. g \in [Payers -> caches]
      BY <1>1
    <3>2. \A u, v \in Payers : g[u] = g[v] => u = v
      BY <1>4 DEF FirstRow
    <3>3. \A r \in caches : \E u \in Payers : g[u] = r
      BY <1>1
    <3> HIDE DEF g, n
    <3> QED
      BY <3>1, <3>2, <3>3 DEF Bijection, Injection, Surjection, IsInjective
  <2>2. ExistsBijection(Payers, caches)
    BY <2>1 DEF ExistsBijection
  <2> QED
    BY <1>2, <2>2, FS_Bijection
<1>8. IsFiniteSet(logs)
  <2> DEFINE g == [u \in Payers |-> FirstLog(u, id[u])]
  <2>1. logs = {g[u] : u \in Payers}
    BY <1>1
  <2> HIDE DEF g
  <2> QED
    BY <1>2, <2>1, FiniteImage
<1>9. \A k \in 1 .. n : \E u \in Payers : id[u] = k
  <2>1. IsFiniteSet(1 .. n) /\ Cardinality(1 .. n) = n
    BY <1>3, FS_Interval
  <2>2. id \in Injection(Payers, 1 .. n)
    BY <1>1, <1>4 DEF Injection, IsInjective
  <2>3. id \in Surjection(Payers, 1 .. n)
    BY <2>1, <2>2, FS_Injection
  <2> QED
    BY <2>3 DEF Surjection
<1>10. id \in [Payers -> Nat] /\ \A u \in Payers : id[u] \in 1 .. n
  BY <1>1, <1>3
<1> QED
  BY <1>1, <1>2, <1>3, <1>4, <1>6, <1>7, <1>8, <1>9, <1>10

LEMMA BaseInit ==
  ASSUME Init
  PROVE  BaseInv
<1>1. PICK id \in [Payers -> Nat] :
           /\ \A u \in Payers : u \in User /\ FirstRow(u, id[u]) \in CacheRow
                                /\ FirstLog(u, id[u]) \in FiatLog /\ id[u] \in 1 .. Cardinality(Payers)
           /\ \A u, v \in Payers : id[u] = id[v] => u = v
           /\ caches = {FirstRow(u, id[u]) : u \in Payers}
           /\ logs = {FirstLog(u, id[u]) : u \in Payers}
           /\ IsFiniteSet(caches) /\ IsFiniteSet(logs) /\ IsFiniteSet(Payers)
           /\ Cardinality(caches) = Cardinality(Payers)
           /\ Cardinality(Payers) \in Nat
           /\ \A n \in 1 .. Cardinality(Payers) : \E u \in Payers : id[u] = n
  BY FirstRows
<1>2. /\ lastLogId = Cardinality(Payers) /\ day = 1 /\ post = NoTx /\ merge = NoTx
      /\ balance = Deposited /\ balanceOnFiatlog = Deposited /\ astray = [u \in User |-> {}]
  BY DEF Init
<1>3. NoTx.pc = "idle" /\ NoTx.pays = {} /\ DOMAIN NoTx.fresh = {} /\ TxTyped(NoTx)
  <2>1. NoTx.pc = "idle"
    BY DEF NoTx
  <2> QED
    BY <2>1, NoTxFields
<1>4. \A r \in caches : \E u \in Payers : r.id = id[u] /\ r = FirstRow(u, r.id) /\ r.at = 1
                                          /\ r.type = "DEPOSIT"
  BY <1>1 DEF FirstRow
<1>5. \A l \in logs : \E u \in Payers : l.id = id[u] /\ l = FirstLog(u, l.id) /\ l.at = 1
                                          /\ l.ids = {id[u]}
  BY <1>1 DEF FirstLog
<1>6. Typed
  <2>1. balance \in [User -> Int] /\ astray \in [User -> SUBSET Reasons]
    BY <1>2, MergeAssumption
  <2>2. caches \subseteq CacheRow /\ logs \subseteq FiatLog
    BY <1>1
  <2> QED
    BY <1>1, <1>2, <1>3, <2>1, <2>2 DEF Typed
<1>0. \A u \in Payers : id[u] \in IdsOf(caches)
  <2>1. \A u \in Payers : FirstRow(u, id[u]) \in caches
    BY <1>1
  <2>2. \A u \in Payers : FirstRow(u, id[u]).id = id[u]
    BY DEF FirstRow
  <2> QED
    BY <2>1, <2>2 DEF IdsOf
<1>7. RowsOk
  <2>1. UniqueIds(caches)
    BY <1>1, <1>4 DEF UniqueIds
  <2>2. IdsOf(caches) = 1 .. Cardinality(caches)
    <3>1. \A k \in IdsOf(caches) : \E u \in Payers : k = id[u]
      BY <1>4 DEF IdsOf
    <3>2. \A u \in Payers : id[u] \in 1 .. Cardinality(Payers)
      BY <1>1
    <3>3. \A k \in 1 .. Cardinality(Payers) : k \in IdsOf(caches)
      BY <1>1, <1>0
    <3>4. Cardinality(caches) = Cardinality(Payers)
      BY <1>1
    <3> QED
      BY <3>1, <3>2, <3>3, <3>4
  <2>3. \A r \in caches : r.at <= day /\ Charged(r)
    BY <1>2, <1>4 DEF Charged, ApiRelated, MergeOrder
  <2> QED
    BY <2>1, <2>2, <2>3 DEF RowsOk
<1>8. LogsOk
  <2>1. UniqueIds(logs)
    BY <1>1, <1>5 DEF UniqueIds
  <2>2. \A u \in Payers : id[u] <= lastLogId
    BY <1>1, <1>2
  <2>3. \A l \in logs : l.id <= lastLogId /\ l.at <= day
    BY <1>2, <1>5, <2>2
  <2>4. \A l \in logs : l.ids # {} /\ l.ids \subseteq IdsOf(caches)
    BY <1>0, <1>5
  <2> QED
    BY <2>1, <2>3, <2>4 DEF LogsOk
<1>9. Drawn(post) /\ Drawn(merge) /\ Apart
  BY <1>2, <1>3 DEF Drawn, Apart
<1>10. PostRow /\ MergeRows /\ PostPays /\ MergePays /\ NextClean
  BY <1>2, <1>3 DEF PostRow, MergeRows, PostPays, MergePays, PaysOk, OpenTx, NextClean
<1>11. OfRows(post) /\ OfRows(merge)
  BY <1>2, <1>3 DEF OfRows
<1> QED
  BY <1>6, <1>7, <1>8, <1>9, <1>10, <1>11 DEF BaseInv, IdsInv, OpenInv

LEMMA BaseStep ==
  ASSUME BaseInv, [Next]_vars
  PROVE  BaseInv'
<1>1. CASE UNCHANGED vars
  <2>1. UNCHANGED <<caches, logs, day, lastLogId, post, merge>>
    BY <1>1 DEF vars, tables
  <2>2. /\ RowsOk' /\ LogsOk' /\ Drawn(post)' /\ PostRow' /\ PostPays' /\ OfRows(post)'
        /\ Drawn(merge)' /\ MergeRows' /\ MergePays' /\ OfRows(merge)' /\ NextClean' /\ Apart'
    BY <2>1, SameTables
  <2>3. Typed'
    BY <1>1 DEF BaseInv, Typed, TxTyped, Tx, vars, tables
  <2> QED
    BY <2>2, <2>3 DEF BaseInv, IdsInv, OpenInv
<1>2. ASSUME NEW p \in Postings, PostApi(p) PROVE BaseInv'
  BY <1>2, PostApiBase
<1>3. ASSUME NEW p \in Postings, PostBegin(p) PROVE BaseInv'
  BY <1>3, PostBeginBase
<1>4. CASE PostSteps
  BY <1>4, PostInsertBase, PostCommitBase, PostBalanceBase DEF PostSteps
<1>5. CASE MergeSteps
  BY <1>5, MergeStartBase, RefundsReadBase, MergeInsertBase, MergeCommitBase, MergeReadBase
     DEF MergeSteps
<1>6. CASE NextDay \/ MergeFails \/ Crash \/ UpdateCreated
  BY <1>6, NextDayBase, MergeFailsBase, CrashBase, UpdateCreatedBase
<1> QED
  BY <1>1, <1>2, <1>3, <1>4, <1>5, <1>6 DEF Next

(* fiat_log_cache.go:39-83 and 299-382: every variable has its type; the ids of
   fiat_log_caches and fiat_logs are each one row's, also while two transactions hold
   ids that they have drawn and not yet committed; what an open transaction is about
   to mark or to save is still as it has read it. *)
THEOREM BaseInvariant == Spec => []BaseInv
<1>1. Init => BaseInv
  BY BaseInit
<1>2. BaseInv /\ [Next]_vars => BaseInv'
  BY BaseStep
<1> QED
  BY <1>1, <1>2, PTL DEF Spec
-----------------------------------------------------------------------------
(* What a step does to the tables and the transactions.  A quiet one leaves the
   tables, and what the transactions are going to write, unless one of them ends. *)
Keeps(old, new) ==
  /\ new.rows = old.rows /\ new.fresh = old.fresh /\ new.pays = old.pays
  /\ OpenTx(new) => OpenTx(old)
Clean(tx) == tx.rows = {} /\ tx.pays = {} /\ DOMAIN tx.fresh = {} /\ ~OpenTx(tx)
Quiet ==
  /\ UNCHANGED <<caches, logs>>
  /\ Keeps(post, post') \/ Clean(post')
  /\ Keeps(merge, merge') \/ Clean(merge')

LEMMA CleanClosed ==
  /\ post' = NoTx => Clean(post')
  /\ (merge' = NoTx \/ \E n \in Nat : merge' = Ended(n)) => Clean(merge')
<1>1. ASSUME NEW tx, tx = NoTx \/ \E n \in Nat : tx = Ended(n) PROVE Clean(tx)
  BY <1>1, NoTxFields DEF Clean, OpenTx
<1>2. post' = NoTx => Clean(post')
  <2> DEFINE tx == post'
  <2>1. tx = NoTx => Clean(tx)
    BY <1>1
  <2> QED
    BY <2>1
<1>3. (merge' = NoTx \/ \E n \in Nat : merge' = Ended(n)) => Clean(merge')
  <2> DEFINE tx == merge'
  <2> HIDE DEF tx
  <2>1. (tx = NoTx \/ \E n \in Nat : tx = Ended(n)) => Clean(tx)
    BY <1>1
  <2> QED
    BY <2>1 DEF tx
<1> QED
  BY <1>2, <1>3

LEMMA KeepsSame ==
  /\ UNCHANGED post => Keeps(post, post')
  /\ UNCHANGED merge => Keeps(merge, merge')
BY DEF Keeps

LEMMA QuietSteps ==
  ASSUME BaseInv,
         \/ UNCHANGED vars \/ PostInsert \/ PostBalance \/ MergeStart \/ MergeInsert
         \/ NextDay \/ MergeFails \/ Crash
  PROVE  Quiet
<1>1. CASE UNCHANGED vars
  BY <1>1, KeepsSame DEF Quiet, vars, tables
<1>2. CASE PostInsert
  <2>1. post.pc = "read" /\ post' = DrawIds(post) /\ UNCHANGED <<caches, logs, merge>>
    BY <1>2 DEF PostInsert
  <2>2. TxTyped(post) /\ lastLogId \in Nat
    BY DEF BaseInv, Typed
  <2>3. post'.rows = post.rows /\ post'.fresh = post.fresh /\ post'.pays = post.pays
    BY <2>1, <2>2, DrawnIds
  <2>4. OpenTx(post)
    BY <2>1 DEF OpenTx
  <2> QED
    BY <2>1, <2>3, <2>4, KeepsSame DEF Quiet, Keeps
<1>3. CASE MergeInsert
  <2>1. merge.pc = "read" /\ merge' = DrawIds(merge) /\ UNCHANGED <<caches, logs, post>>
    BY <1>3 DEF MergeInsert
  <2>2. TxTyped(merge) /\ lastLogId \in Nat
    BY DEF BaseInv, Typed
  <2>3. merge'.rows = merge.rows /\ merge'.fresh = merge.fresh /\ merge'.pays = merge.pays
    BY <2>1, <2>2, DrawnIds
  <2>4. OpenTx(merge)
    BY <2>1 DEF OpenTx
  <2> QED
    BY <2>1, <2>3, <2>4, KeepsSame DEF Quiet, Keeps
<1>4. CASE PostBalance
  BY <1>4, CleanClosed, KeepsSame DEF PostBalance, Quiet
<1>5. CASE MergeStart
  <2>1. merge' = Ended(day) /\ day \in Nat /\ UNCHANGED <<caches, logs, post>>
    BY <1>5 DEF MergeStart, Ended, tables, BaseInv, Typed
  <2> QED
    BY <2>1, CleanClosed, KeepsSame DEF Quiet
<1>6. CASE NextDay
  BY <1>6, KeepsSame DEF NextDay, Quiet, tables
<1>7. CASE MergeFails
  BY <1>7, CleanClosed, KeepsSame DEF MergeFails, Quiet, tables
<1>8. CASE Crash
  BY <1>8, CleanClosed DEF Crash, Quiet
<1> QED
  BY <1>1, <1>2, <1>3, <1>4, <1>5, <1>6, <1>7, <1>8

LEMMA StepCases ==
  ASSUME BaseInv, [Next]_vars
  PROVE  \/ Quiet
         \/ \E p \in Postings : PostApi(p) \/ PostBegin(p)
         \/ PostCommit \/ MergeCommit \/ RefundsRead \/ UpdateCreated
         \/ \E u \in User : MergeRead(u)
BY QuietSteps DEF Next, PostSteps, MergeSteps
-----------------------------------------------------------------------------
(* Nothing is refunded of a new log, and of a payment never more than was paid. *)
Blank(tx) == \A i \in DOMAIN tx.fresh : LogAt(tx, i).refunded = 0 /\ LogAt(tx, i).refunds = {}
NotOver == \A l \in logs : l.type = "PAY_API_FEE" => l.refunded <= l.count
MergeNotOver == OpenTx(merge) => \A q \in merge.pays : q.refunded <= q.count
AliveInv == Blank(post) /\ Blank(merge) /\ NotOver /\ MergeNotOver

LEMMA AliveInit ==
  ASSUME Init
  PROVE  AliveInv
<1>1. post = NoTx /\ merge = NoTx /\ DOMAIN NoTx.fresh = {} /\ NoTx.pays = {}
  BY NoTxFields DEF Init
<1>2. \A l \in logs : l.type = "DEPOSIT"
  BY FirstRows DEF FirstLog
<1> QED
  BY <1>1, <1>2 DEF AliveInv, Blank, NotOver, MergeNotOver

LEMMA PostFresh ==
  ASSUME BaseInv, NEW p \in Postings, PostBegin(p)
  PROVE  LET l == LogAt(post', 1) IN
         /\ DOMAIN post'.fresh = {1} /\ post'.rows = {NewCache(p, TRUE)}
         /\ l.ids = {Cardinality(caches) + 1} /\ l.user = p.user /\ l.type = p.type /\ l.cost = p.cost
         /\ l.count = p.count /\ l.amount = p.amount /\ l.balance = LastBalance(p.user) + p.amount
         /\ l.refunded = 0 /\ l.refunds = {}
<1>1. PICK pays :
        /\ DOMAIN post'.fresh = {1} /\ post'.rows = {NewCache(p, TRUE)}
        /\ post'.fresh[1] = Fresh(p, p.amount, p.count, LastBalance(p.user) + p.amount,
                                     {Cardinality(caches) + 1}, IdsOf(pays))
  BY PostBegins DEF BaseInv
<1> QED
  BY <1>1 DEF Fresh, LogAt

LEMMA GroupBlank ==
  ASSUME Typed, NEW u \in User, NEW t, NEW rows \in SUBSET caches, NEW order,
         Grouped(u, t, rows, order), NEW i \in DOMAIN order
  PROVE  /\ LogsOfGroups(u, rows, order)[i].log.refunded = 0
         /\ LogsOfGroups(u, rows, order)[i].log.refunds = {}
<1>1. LogsOfGroups(u, rows, order)[i].log.refunded = 0
  BY GroupLog
<1>2. LogsOfGroups(u, rows, order)[i].log.refunds = {}
  BY GroupLog
<1> QED
  BY <1>1, <1>2

LEMMA AliveStep ==
  ASSUME BaseInv, AliveInv, [Next]_vars
  PROVE  AliveInv'
<1> USE DEF AliveInv
<1>1. CASE Quiet
  <2>1. Blank(post)'
    BY <1>1 DEF Quiet, Keeps, Clean, Blank, LogAt
  <2>2. Blank(merge)'
    BY <1>1 DEF Quiet, Keeps, Clean, Blank, LogAt
  <2>3. NotOver'
    BY <1>1 DEF Quiet, NotOver
  <2>4. MergeNotOver'
    BY <1>1 DEF Quiet, Keeps, Clean, MergeNotOver, OpenTx
  <2> QED
    BY <2>1, <2>2, <2>3, <2>4
<1>2. ASSUME NEW p \in Postings, PostApi(p) PROVE AliveInv'
  BY <1>2 DEF PostApi, Blank, LogAt, NotOver, MergeNotOver, OpenTx
<1>3. ASSUME NEW p \in Postings, PostBegin(p) PROVE AliveInv'
  <2>1. UNCHANGED <<logs, merge>>
    BY <1>3 DEF PostBegin, tables
  <2>2. DOMAIN post'.fresh = {1} /\ LogAt(post', 1).refunded = 0 /\ LogAt(post', 1).refunds = {}
    BY <1>3, PostFresh
  <2> QED
    BY <2>1, <2>2 DEF Blank, LogAt, NotOver, MergeNotOver, OpenTx
<1>4. CASE PostCommit
  <2>1. /\ post.pc = "inserted" /\ WriteLogs(post) /\ UNCHANGED merge
        /\ post' = [post EXCEPT !.pc = "logged"] \/ post' = NoTx
    BY <1>4, PostCommits DEF BaseInv
  <2>2. Typed /\ LogsOk /\ TxTyped(post) /\ Drawn(post) /\ PaysOk(post, {"BUY_GAS", "BUY_STORAGE"})
    BY DEF BaseInv, IdsInv, OpenInv, PostPays, Typed
  <2>3. Blank(post)'
    <3>1. CASE post' = NoTx
      BY <3>1, CleanClosed DEF Clean, Blank
    <3>2. CASE post' = [post EXCEPT !.pc = "logged"]
      <4>1. post'.fresh = post.fresh
        BY <2>2, <3>2 DEF TxTyped, Tx
      <4> QED
        BY <4>1 DEF Blank, LogAt
    <3> QED
      BY <2>1, <3>1, <3>2
  <2>4. NotOver'
    <3>1. ASSUME NEW m \in logs', m.type = "PAY_API_FEE" PROVE m.refunded <= m.count
      <4>1. CASE \E i \in DOMAIN post.fresh : m = InsertedAt(post, i)
        <5>1. PICK i \in DOMAIN post.fresh : m = InsertedAt(post, i)
          BY <4>1
        <5>2. m.refunded = 0 /\ m.count \in Nat
          BY <2>2, <5>1, InsertedType DEF Typed, Blank, FiatLog
        <5> QED
          BY <5>2
      <4>2. CASE m \in logs
        BY <3>1, <4>2 DEF NotOver
      <4>3. CASE \E q \in post.pays : m = SavedOf(post, q)
        BY <2>1, <2>2, <3>1, <4>3, SavedType DEF PaysOk, OpenTx, Kin
      <4> QED
        BY <2>1, <2>2, <4>1, <4>2, <4>3, CommitLogs
    <3> QED
      BY <3>1 DEF NotOver
  <2> QED
    BY <2>1, <2>3, <2>4 DEF Blank, LogAt, MergeNotOver, OpenTx
<1>5. CASE MergeCommit
  <2>1. /\ merge.pc = "inserted" /\ WriteLogs(merge) /\ UNCHANGED post
        /\ merge' = NoTx \/ \E n \in Nat : merge' = Ended(n)
    BY <1>5, MergeCommits DEF BaseInv
  <2>2. Typed /\ LogsOk /\ TxTyped(merge) /\ Drawn(merge) /\ PaysOk(merge, {"PAY_API_FEE"})
    BY DEF BaseInv, IdsInv, OpenInv, MergePays, Typed
  <2>3. Blank(merge)' /\ MergeNotOver'
    BY <2>1, CleanClosed DEF Clean, Blank, MergeNotOver
  <2>4. NotOver'
    <3>1. ASSUME NEW m \in logs', m.type = "PAY_API_FEE" PROVE m.refunded <= m.count
      <4>1. CASE \E i \in DOMAIN merge.fresh : m = InsertedAt(merge, i)
        <5>1. PICK i \in DOMAIN merge.fresh : m = InsertedAt(merge, i)
          BY <4>1
        <5>2. m.refunded = 0 /\ m.count \in Nat
          BY <2>2, <5>1, InsertedType DEF Typed, Blank, FiatLog
        <5> QED
          BY <5>2
      <4>2. CASE m \in logs
        BY <3>1, <4>2 DEF NotOver
      <4>3. CASE \E q \in merge.pays : m = SavedOf(merge, q)
        <5>1. PICK q \in merge.pays : m = SavedOf(merge, q)
          BY <4>3
        <5>2. m.refunded = q.refunded /\ m.count = q.count
          BY <2>2, <5>1, SavedType DEF Kin
        <5> QED
          BY <2>1, <5>2 DEF MergeNotOver, OpenTx
      <4> QED
        BY <2>1, <2>2, <4>1, <4>2, <4>3, CommitLogs
    <3> QED
      BY <3>1 DEF NotOver
  <2> QED
    BY <2>1, <2>3, <2>4 DEF Blank, LogAt
<1>6. ASSUME NEW u \in User, MergeRead(u) PROVE AliveInv'
  <2>1. PICK rows, order :
           /\ rows \in SUBSET caches
           /\ Grouped(u, TypeDue, rows, order)
           /\ merge'.fresh = LogsOfGroups(u, rows, order) /\ merge'.pays = merge.pays
           /\ merge.pc = "next" /\ DOMAIN merge'.fresh = DOMAIN order
           /\ UNCHANGED <<logs, post>>
    BY <1>6, MergeReadFields DEF BaseInv
  <2>2. Blank(merge)'
    <3>1. ASSUME NEW i \in DOMAIN order
          PROVE  /\ LogsOfGroups(u, rows, order)[i].log.refunded = 0
                 /\ LogsOfGroups(u, rows, order)[i].log.refunds = {}
      BY <2>1, GroupBlank DEF BaseInv
    <3> QED
      BY <2>1, <3>1 DEF Blank, LogAt
  <2>3. merge'.pays = {}
    BY <2>1 DEF BaseInv, OpenInv, NextClean
  <2> QED
    BY <2>1, <2>2, <2>3 DEF Blank, LogAt, NotOver, MergeNotOver
<1>7. CASE RefundsRead
  <2>1. UNCHANGED <<logs, post>>
    BY <1>7, RefundsReadFields DEF BaseInv
  <2>2. CASE merge' = NoTx
    <3>1. Blank(merge)' /\ MergeNotOver'
      BY <2>2, CleanClosed DEF Clean, Blank, MergeNotOver
    <3> QED
      BY <2>1, <3>1 DEF Blank, LogAt, NotOver
  <2>3. ASSUME NEW order \in Orderings(Paying), merge'.pays = {Shared(l) : l \in Bearing},
               merge'.fresh = LogsOfRefunds(order), DOMAIN merge'.fresh = DOMAIN order
        PROVE  AliveInv'
    <3>1. Blank(merge)'
      <4>1. ASSUME NEW i \in DOMAIN order
            PROVE  LET l == LogsOfRefunds(order)[i].log IN l.refunded = 0 /\ l.refunds = {}
        <5>1. order[i] \in Paying
          BY PayingOrder DEF BaseInv
        <5> QED
          BY <5>1, RefundLog DEF BaseInv
      <4> QED
        BY <2>3, <4>1 DEF Blank, LogAt
    <3>2. \A l \in Bearing : Shared(l).refunded <= Shared(l).count
      <4> TAKE l \in Bearing
      <4>1. l \in logs /\ l.type = "PAY_API_FEE"
        BY BearingFacts DEF BaseInv
      <4>2. l \in FiatLog /\ l.refunded \in Int /\ l.count \in Nat /\ l.refunded <= l.count
        BY <4>1 DEF BaseInv, Typed, FiatLog, NotOver
      <4>3. Share(l) \in Int /\ (Share(l) <= 0 \/ Share(l) <= l.count - l.refunded)
        BY <4>1, ShareType DEF BaseInv, Alive
      <4>4. Shared(l).refunded = l.refunded + Share(l) /\ Shared(l).count = l.count
        BY <4>2 DEF Shared, FiatLog
      <4> QED
        BY <4>2, <4>3, <4>4
    <3> QED
      BY <2>1, <2>3, <3>1, <3>2 DEF Blank, LogAt, NotOver, MergeNotOver
  <2> QED
    BY <1>7, <2>2, <2>3, RefundsReadFields DEF BaseInv
<1>8. CASE UpdateCreated
  <2>1. logs' = {Dated(l) : l \in logs} /\ UNCHANGED <<post, merge>>
    BY <1>8, UpdateFacts
  <2>2. \A l \in logs : /\ Dated(l).type = l.type /\ Dated(l).count = l.count
                        /\ Dated(l).refunded = l.refunded
    BY DatedFacts DEF Kin
  <2>3. NotOver'
    BY <2>1, <2>2 DEF NotOver
  <2> QED
    BY <2>1, <2>3 DEF Blank, LogAt, MergeNotOver, OpenTx
<1> QED
  BY <1>1, <1>2, <1>3, <1>4, <1>5, <1>6, <1>7, <1>8, StepCases
-----------------------------------------------------------------------------
(* The shares of the payments of a user and cost type, taken from the newest on, add
   up to what they can bear, and no further than to the refunds. *)
LEMMA SumZero ==
  ASSUME NEW S, IsFiniteSet(S), NEW f, \A x \in S : f[x] = 0
  PROVE  SumFunctionOnSet(f, S) = 0
<1> DEFINE T == {s \in SUBSET S : SumFunctionOnSet(f, s) # 0}
<1>1. SUFFICES ASSUME T # {} PROVE FALSE
  OBVIOUS
<1>2. PICK t \in T : \A r \in T : ~(r \subseteq t /\ r # t)
  <2>1. T \subseteq SUBSET S
    OBVIOUS
  <2> HIDE DEF T
  <2> QED
    BY <1>1, <2>1, LeastSubset
<1>3. t \in SUBSET S /\ IsFiniteSet(t) /\ SumFunctionOnSet(f, t) # 0
  BY <1>2, FS_Subset
<1>4. PICK y \in t : TRUE
  BY <1>3, SumEmpty
<1>5. \A x \in t : f[x] \in Int
  BY <1>3
<1>6. SumFunctionOnSet(f, t) = f[y] + SumFunctionOnSet(f, t \ {y})
  <2> HIDE DEF T
  <2> QED
    BY <1>3, <1>4, <1>5, SumRemove
<1>7. SumFunctionOnSet(f, t \ {y}) = 0
  BY <1>2, <1>3, <1>4
<1> QED
  BY <1>3, <1>4, <1>6, <1>7

Least(n, a) == IF n <= a THEN n ELSE a
NewestOf(s, pays) == \A l \in s, m \in pays : m.id > l.id => m \in s
AliveFn(S) == [l \in S |-> Alive(l)]
ShareFn(S) == [p \in S |-> Share(p)]

LEMMA SharesOfNewest ==
  ASSUME Typed, LogsOk, NotOver, NEW u, NEW c, NEW x, x.user = u, x.cost = c,
         NEW s \in SUBSET PaysOf(u, c), NewestOf(s, PaysOf(u, c))
  PROVE  Shares(s) = Least(CountIn(RefundsLike(x)), AliveIn(s))
<1> DEFINE pays == PaysOf(u, c)
           n == CountIn(RefundsLike(x))
           T == {t \in SUBSET pays : NewestOf(t, pays) /\ Shares(t) # Least(n, AliveIn(t))}
<1>0. n \in Nat
  BY LikeSums
<1>1. SUFFICES ASSUME T # {} PROVE FALSE
  OBVIOUS
<1>2. IsFiniteSet(pays)
  BY PaysFinite
<1>3. PICK t \in T : \A r \in T : ~(r \subseteq t /\ r # t)
  <2>1. T \subseteq SUBSET pays
    OBVIOUS
  <2> HIDE DEF T
  <2> QED
    BY <1>1, <1>2, <2>1, LeastSubset
<1>4. t \in SUBSET pays /\ NewestOf(t, pays) /\ Shares(t) # Least(n, AliveIn(t)) /\ IsFiniteSet(t)
  BY <1>2, <1>3, FS_Subset
<1>5. t # {}
  <2>1. SUFFICES ASSUME t = {} PROVE FALSE
    OBVIOUS
  <2>2. Shares(t) = 0 /\ AliveIn(t) = 0
    BY <2>1, SumEmpty DEF Shares, AliveIn
  <2> HIDE DEF n, T
  <2> QED
    BY <1>0, <1>4, <2>2 DEF Least
<1>6. PICK y \in t : \A z \in t : y.id <= z.id
  <2> DEFINE K == {z.id : z \in t}
  <2>1. K \subseteq Nat /\ K # {}
    BY <1>4, <1>5 DEF PaysOf, LogsOf, Typed, FiatLog
  <2>2. \E m \in K : \A k \in K : m <= k
    <3> HIDE DEF K
    <3> QED
      BY <2>1, LeastNumber
  <2> QED
    BY <2>2
<1> DEFINE r == t \ {y}
<1>7. /\ NewestOf(r, pays) /\ r = {p \in pays : p.id > y.id}
      /\ Share(y) = Part(y, pays, n) /\ Alive(y) \in Nat
  <2>1. \A l \in pays : l \in logs /\ l.user = u /\ l.cost = c /\ l.type = "PAY_API_FEE" /\ l.id \in Nat
    BY DEF PaysOf, LogsOf, Typed, FiatLog
  <2>2. \A l, m \in pays : l.id = m.id => l = m
    BY <2>1 DEF LogsOk, UniqueIds
  <2>3. y \in pays
    BY <1>4
  <2>4. r = {p \in pays : p.id > y.id}
    <3> HIDE DEF T, n
    <3> QED
      BY <1>4, <1>6, <2>1, <2>2 DEF NewestOf
  <2>5. NewestOf(r, pays)
    BY <2>1, <2>3, <2>4 DEF NewestOf
  <2>6. RefundsLike(y) = RefundsLike(x) /\ y.user = u /\ y.cost = c
    BY <2>1, <2>3 DEF RefundsLike
  <2>7. Share(y) = Part(y, pays, n)
    BY <2>6 DEF Share
  <2>8. Alive(y) \in Nat
    <3>1. y \in FiatLog /\ y.refunded <= y.count
      BY <2>1, <2>3 DEF NotOver, Typed
    <3> QED
      BY <3>1 DEF FiatLog, Alive
  <2> QED
    BY <2>4, <2>5, <2>7, <2>8
<1>8. r \in SUBSET pays /\ r \notin T
  BY <1>3, <1>4
<1>9. Shares(r) = Least(n, AliveIn(r))
  BY <1>7, <1>8
<1>10. AliveIn(r) \in Int
  <2> HIDE DEF T, r, pays
  <2> QED
    BY <1>8, PaysFinite DEF pays
<1>11. Shares(t) = Share(y) + Shares(r)
  <2> DEFINE f == [p \in t |-> Share(p)]
             g == [p \in r |-> Share(p)]
  <2>1. (\A p \in t : f[p] \in Int) /\ \A p \in r : f[p] = g[p]
    BY <1>4, ShareType DEF PaysOf, LogsOf
  <2>2. Shares(t) = SumFunctionOnSet(f, t) /\ Shares(r) = SumFunctionOnSet(g, r) /\ f[y] = Share(y)
    BY DEF Shares
  <2>3. IsFiniteSet(r) /\ r = t \ {y} /\ \A p \in r : f[p] \in Int
    BY <1>4, <2>1, FS_Subset
  <2> HIDE DEF f, g, r, T
  <2>4. SumFunctionOnSet(f, t) = f[y] + SumFunctionOnSet(f, r)
    BY <1>4, <2>1, <2>3, SumRemove
  <2>5. SumFunctionOnSet(f, r) = SumFunctionOnSet(g, r)
    BY <2>1, <2>3, SumSame
  <2> QED
    BY <2>2, <2>4, <2>5
<1>12. AliveIn(t) = Alive(y) + AliveIn(r)
  <2> DEFINE f == [p \in t |-> Alive(p)]
             g == [p \in r |-> Alive(p)]
  <2>0. t \in SUBSET pays
    BY <1>4
  <2>1. (\A p \in t : f[p] \in Int) /\ \A p \in r : f[p] = g[p]
    <3>1. t \subseteq FiatLog
      BY <2>0 DEF PaysOf, LogsOf, Typed
    <3> QED
      BY <3>1 DEF Alive, FiatLog
  <2>2. AliveIn(t) = SumFunctionOnSet(f, t) /\ AliveIn(r) = SumFunctionOnSet(g, r) /\ f[y] = Alive(y)
    BY DEF AliveIn
  <2>3. IsFiniteSet(r) /\ r = t \ {y} /\ \A p \in r : f[p] \in Int
    BY <1>4, <2>1, FS_Subset
  <2> HIDE DEF f, g, r, T
  <2>4. SumFunctionOnSet(f, t) = f[y] + SumFunctionOnSet(f, r)
    BY <1>4, <2>1, <2>3, SumRemove
  <2>5. SumFunctionOnSet(f, r) = SumFunctionOnSet(g, r)
    BY <2>1, <2>3, SumSame
  <2> QED
    BY <2>2, <2>4, <2>5
<1>13. Share(y) = LET left == n - AliveIn(r)
                  IN IF left <= 0 THEN 0 ELSE IF left < Alive(y) THEN left ELSE Alive(y)
  BY <1>7 DEF Part
<1> HIDE DEF n, T, r, pays
<1> QED
  BY <1>0, <1>4, <1>7, <1>9, <1>10, <1>11, <1>12, <1>13 DEF Least

LEMMA SharesOfAll ==
  ASSUME Typed, LogsOk, NotOver, NEW l \in logs, Borne(l)
  PROVE  /\ Shares({p \in PaysOf(l.user, l.cost) : Share(p) > 0}) = CountIn(RefundsLike(l))
         /\ \A p \in PaysOf(l.user, l.cost) : Share(p) \in Nat
<1> DEFINE pays == PaysOf(l.user, l.cost)
           n == CountIn(RefundsLike(l))
           some == {p \in pays : Share(p) > 0}
           none == pays \ some
<1>1. n \in Nat /\ AliveIn(pays) \in Int /\ IsFiniteSet(pays) /\ IsFiniteSet(some) /\ IsFiniteSet(none)
  <2>1. IsFiniteSet(pays) /\ AliveIn(pays) \in Int
    BY PaysFinite
  <2> QED
    BY <2>1, LikeSums, FS_Subset
<1>2. Shares(pays) = Least(n, AliveIn(pays))
  <2>1. NewestOf(pays, pays) /\ pays \in SUBSET pays
    BY DEF NewestOf
  <2>2. PICK u : u = l.user
    OBVIOUS
  <2>3. PICK c : c = l.cost
    OBVIOUS
  <2> HIDE DEF pays, n
  <2>4. l.user = u /\ l.cost = c /\ pays = PaysOf(u, c)
    BY <2>2, <2>3 DEF pays
  <2> HIDE <2>2, <2>3
  <2> QED
    BY <2>1, <2>4, SharesOfNewest DEF n
<1>3. Shares(pays) = n
  <2>1. AliveIn(pays) >= n
    BY DEF Borne, Bears
  <2> HIDE DEF pays, n
  <2> QED
    BY <1>1, <1>2, <2>1 DEF Least
<1>4. \A p \in pays : Share(p) \in Nat
  <2> TAKE p \in pays
  <2>1. p \in logs /\ p.type = "PAY_API_FEE"
    BY DEF PaysOf, LogsOf
  <2>2. p \in FiatLog /\ p.refunded <= p.count
    BY <2>1 DEF NotOver, Typed
  <2>3. Alive(p) \in Nat
    BY <2>2 DEF Alive, FiatLog
  <2>4. AliveIn({q \in PaysOf(p.user, p.cost) : q.id > p.id}) \in Int
    BY PaysFinite
  <2>5. CountIn(RefundsLike(p)) \in Nat
    BY LikeSums
  <2> HIDE DEF pays
  <2> QED
    BY <2>3, <2>4, <2>5 DEF Share, Part
<1>5. Shares(pays) = Shares(some) + Shares(none)
  <2> DEFINE f == [p \in pays |-> Share(p)]
             g == [p \in some |-> Share(p)]
             h == [p \in none |-> Share(p)]
  <2>1. (\A p \in pays : f[p] \in Int) /\ (\A p \in some : f[p] = g[p]) /\ \A p \in none : f[p] = h[p]
    BY <1>4
  <2>2. /\ Shares(pays) = SumFunctionOnSet(f, pays) /\ Shares(some) = SumFunctionOnSet(g, some)
        /\ Shares(none) = SumFunctionOnSet(h, none)
    BY DEF Shares
  <2>3. pays = some \cup none /\ some \cap none = {}
    OBVIOUS
  <2> HIDE DEF f, g, h, pays, some, none
  <2>4. SumFunctionOnSet(f, pays) = SumFunctionOnSet(f, some) + SumFunctionOnSet(f, none)
    BY <1>1, <2>1, <2>3, SumUnion
  <2>5. (\A p \in some : f[p] \in Int) /\ \A p \in none : f[p] \in Int
    BY <2>1, <2>3
  <2>6. SumFunctionOnSet(f, some) = SumFunctionOnSet(g, some)
    BY <1>1, <2>1, <2>5, SumSame
  <2>7. SumFunctionOnSet(f, none) = SumFunctionOnSet(h, none)
    BY <1>1, <2>1, <2>5, SumSame
  <2> QED
    BY <2>2, <2>4, <2>6, <2>7
<1>6. Shares(none) = 0
  <2> DEFINE h == [p \in none |-> Share(p)]
  <2>1. \A p \in none : h[p] = 0
    BY <1>4
  <2>2. Shares(none) = SumFunctionOnSet(h, none)
    BY DEF Shares
  <2> HIDE DEF h, none
  <2> QED
    BY <1>1, <2>1, <2>2, SumZero
<1>7. Shares(some) \in Int
  <2>1. some \in SUBSET pays
    OBVIOUS
  <2> HIDE DEF some
  <2> QED
    BY <2>1, SharesType
<1>8. Shares(some) = n
  <2> HIDE DEF n, some, none, pays
  <2> QED
    BY <1>1, <1>3, <1>5, <1>6, <1>7
<1> QED
  BY <1>4, <1>8
-----------------------------------------------------------------------------
(* What is merged: each log is of merged rows of its user, type and cost type, each
   merged row is in a log, two logs have a row in common only as parts of a refund, and
   the parts make up the count of the rows.  What a transaction is going to write is
   so for its own rows. *)
Merges(l, rows) ==
  \A n \in l.ids : \E r \in rows : r.id = n /\ r.user = l.user /\ r.type = l.type /\ r.cost = l.cost
Split(l, m) == l.ids = m.ids /\ l.type = "REFUND_API_FEE"

Alike(tx, i) == {j \in DOMAIN tx.fresh : LogAt(tx, j).ids = LogAt(tx, i).ids}
CountAlike(tx, i) == SumFunctionOnSet([j \in Alike(tx, i) |-> LogAt(tx, j).count], Alike(tx, i))
RowsAt(tx, i) == {r \in tx.rows : r.id \in LogAt(tx, i).ids}

TxMerges(tx) == \A i \in DOMAIN tx.fresh : Merges(LogAt(tx, i), tx.rows)
TxCovers(tx) == \A r \in tx.rows : \E i \in DOMAIN tx.fresh : r.id \in LogAt(tx, i).ids
TxApart(tx) ==
  \A i, j \in DOMAIN tx.fresh : LogAt(tx, i).ids \cap LogAt(tx, j).ids # {} =>
    i = j \/ Split(LogAt(tx, i), LogAt(tx, j))
TxCounts(tx) ==
  \A i \in DOMAIN tx.fresh : LogAt(tx, i).type = "REFUND_API_FEE" =>
    CountAlike(tx, i) = CountIn(RowsAt(tx, i))
Groups(tx) == UniqueIds(tx.rows) /\ TxMerges(tx) /\ TxCovers(tx) /\ TxApart(tx) /\ TxCounts(tx)

LogsAlike(l) == {m \in logs : m.ids = l.ids}
RowsOf(l) == {r \in caches : r.id \in l.ids}
MergedLogs == \A l \in logs : Merges(l, {r \in caches : r.merged})
MergedRows == \A r \in caches : r.merged => \E l \in logs : r.id \in l.ids
LogsApart == \A l, m \in logs : l.ids \cap m.ids # {} => l = m \/ Split(l, m)
LogCounts == \A l \in logs : l.type = "REFUND_API_FEE" => CountIn(LogsAlike(l)) = CountIn(RowsOf(l))
MergedInv == MergedLogs /\ MergedRows /\ LogsApart /\ LogCounts
MInv == Groups(post) /\ Groups(merge) /\ MergedInv

LEMMA MInvMergedOnce ==
  ASSUME Typed, RowsOk, LogsOk, MergedInv
  PROVE  MergedOnce
<1>0. SUFFICES ASSUME NEW r \in caches
      PROVE  LET of == OfRow(r) IN
             /\ r.merged <=> of # {}
             /\ \A l \in of : l.user = r.user /\ l.type = r.type /\ l.cost = r.cost
             /\ r.type # "REFUND_API_FEE" => Cardinality(of) <= 1
             /\ r.merged /\ r.type = "REFUND_API_FEE" =>
                  /\ Cardinality({l.ids : l \in of}) = 1
                  /\ CountIn(of) = CountIn({q \in caches : \E l \in of : q.id \in l.ids})
  BY DEF MergedOnce
<1> DEFINE of == OfRow(r)
<1>1. \A l \in of : l \in logs /\ r.id \in l.ids
  BY DEF OfRow
<1>2. ASSUME NEW l \in of PROVE r.merged /\ l.user = r.user /\ l.type = r.type /\ l.cost = r.cost
  <2>1. PICK q \in {s \in caches : s.merged} :
           q.id = r.id /\ q.user = l.user /\ q.type = l.type /\ q.cost = l.cost
    BY <1>1 DEF MergedInv, MergedLogs, Merges
  <2>2. q = r
    BY <2>1 DEF RowsOk, UniqueIds
  <2> QED
    BY <2>1, <2>2
<1>3. r.merged <=> of # {}
  <2>1. r.merged => of # {}
    BY DEF MergedInv, MergedRows, OfRow
  <2>2. of # {} => r.merged
    BY <1>2
  <2> QED
    BY <2>1, <2>2
<1>4. \A l, m \in of : l = m \/ (l.ids = m.ids /\ l.type = "REFUND_API_FEE")
  BY <1>1 DEF MergedInv, LogsApart, Split
<1>5. ASSUME r.type # "REFUND_API_FEE" PROVE Cardinality(of) <= 1
  <2>1. CASE of = {}
    <3>1. Cardinality(of) = 0
      BY <2>1, FS_EmptySet
    <3> QED
      BY <3>1
  <2>2. CASE of # {}
    <3>1. PICK l : l \in of
      BY <2>2
    <3>2. of = {l}
      BY <1>2, <1>4, <1>5, <3>1
    <3>3. Cardinality(of) = 1
      BY <3>2, FS_Singleton
    <3> QED
      BY <3>3
  <2> QED
    BY <2>1, <2>2
<1>6. ASSUME r.merged, r.type = "REFUND_API_FEE"
      PROVE  /\ Cardinality({l.ids : l \in of}) = 1
             /\ CountIn(of) = CountIn({q \in caches : \E l \in of : q.id \in l.ids})
  <2>1. PICK k : k \in of
    BY <1>3, <1>6
  <2>2. \A l \in of : l.ids = k.ids
    BY <1>4, <2>1
  <2>3. {l.ids : l \in of} = {k.ids}
    BY <2>1, <2>2
  <2>4. of = LogsAlike(k)
    BY <1>1, <2>1, <2>2 DEF LogsAlike, OfRow
  <2>5. {q \in caches : \E l \in of : q.id \in l.ids} = RowsOf(k)
    BY <2>1, <2>2 DEF RowsOf
  <2>6. CountIn(LogsAlike(k)) = CountIn(RowsOf(k))
    BY <1>1, <1>2, <1>6, <2>1 DEF MergedInv, LogCounts
  <2>7. Cardinality({l.ids : l \in of}) = 1
    BY <2>3, FS_Singleton
  <2> QED
    BY <2>4, <2>5, <2>6, <2>7
<1> QED
  BY <1>2, <1>3, <1>5, <1>6
-----------------------------------------------------------------------------
(* What a commit does to the rows. *)
SameRow(r, s) ==
  /\ r.id = s.id /\ r.user = s.user /\ r.type = s.type /\ r.cost = s.cost
  /\ r.count = s.count /\ r.amount = s.amount
OldRow(tx, s) ==
  \E r \in caches : SameRow(r, s) /\ (s.merged => r.merged) /\ r.id \notin IdsOf(tx.rows)
NewRow(tx, s) == \E q \in tx.rows : SameRow(q, s)
RowsWritten(tx) ==
  /\ UniqueIds(caches') /\ IsFiniteSet(caches') /\ caches' \subseteq CacheRow
  /\ \A r \in caches : \E s \in caches' : SameRow(r, s) /\ (r.merged => s.merged)
  /\ \A q \in tx.rows : \E s \in caches' : SameRow(q, s) /\ s.merged
  /\ \A s \in caches' : OldRow(tx, s) \/ NewRow(tx, s)
  /\ \A q \in tx.rows, r \in caches : r.merged => r.id # q.id

LEMMA PostRowsWritten ==
  ASSUME BaseInv, WriteLogs(post), post.pc = "inserted", day' = day
  PROVE  RowsWritten(post)
<1>1. PICK row \in post.rows :
              /\ row \in CacheRow /\ post.rows = {row} /\ caches' = caches \cup {row}
              /\ row.merged = TRUE
  BY PostRows
<1>2. UniqueIds(caches') /\ IsFiniteSet(caches') /\ caches' \subseteq CacheRow
  BY PostRows DEF RowsOk
<1>3. \A r \in caches, q \in post.rows : r.id # q.id
  BY PostRows
<1>4. \A r \in caches : \E s \in caches' : SameRow(r, s) /\ (r.merged => s.merged)
  BY <1>1 DEF SameRow
<1>5. \A q \in post.rows : \E s \in caches' : SameRow(q, s) /\ s.merged
  BY <1>1 DEF SameRow
<1>6. ASSUME NEW s \in caches' PROVE OldRow(post, s) \/ NewRow(post, s)
  <2>1. CASE s \in caches
    <3>1. s.id \notin IdsOf(post.rows)
      BY <1>3, <2>1 DEF IdsOf
    <3>2. SameRow(s, s)
      BY DEF SameRow
    <3> QED
      BY <2>1, <3>1, <3>2 DEF OldRow
  <2>2. CASE s \notin caches
    BY <1>1, <2>2 DEF NewRow, SameRow
  <2> QED
    BY <2>1, <2>2
<1> QED
  BY <1>2, <1>3, <1>4, <1>5, <1>6 DEF RowsWritten

LEMMA MergeRowsWritten ==
  ASSUME BaseInv, WriteLogs(merge), merge.pc = "inserted", day' = day
  PROVE  RowsWritten(merge)
<1>1. /\ merge.rows \subseteq {r \in caches : ~r.merged}
      /\ \A r \in caches' :
              \/ r \in caches /\ r.id \notin IdsOf(merge.rows)
              \/ \E q \in merge.rows : r = MergedRow(q)
      /\ \A r \in caches : r.id \notin IdsOf(merge.rows) => r \in caches'
      /\ \A q \in merge.rows : MergedRow(q) \in caches'
      /\ UniqueIds(caches') /\ IsFiniteSet(caches') /\ caches' \subseteq CacheRow
  BY MergeMarks DEF RowsOk
<1>2. \A q \in merge.rows : q \in caches /\ q \in CacheRow /\ ~q.merged
  BY <1>1 DEF BaseInv, Typed
<1>3. \A q \in merge.rows : SameRow(q, MergedRow(q)) /\ MergedRow(q).merged = TRUE
  BY <1>2 DEF SameRow, MergedRow, CacheRow
<1>4. \A q \in merge.rows, r \in caches : r.id = q.id => r = q
  BY <1>2 DEF BaseInv, RowsOk, UniqueIds
<1>5. ASSUME NEW r \in caches PROVE \E s \in caches' : SameRow(r, s) /\ (r.merged => s.merged)
  <2>1. CASE r.id \in IdsOf(merge.rows)
    <3>1. PICK q \in merge.rows : r.id = q.id
      BY <2>1 DEF IdsOf
    <3>2. r = q
      BY <1>4, <3>1
    <3> QED
      BY <1>1, <1>2, <1>3, <3>2
  <2>2. CASE r.id \notin IdsOf(merge.rows)
    BY <1>1, <2>2 DEF SameRow
  <2> QED
    BY <2>1, <2>2
<1>6. ASSUME NEW s \in caches' PROVE OldRow(merge, s) \/ NewRow(merge, s)
  <2>1. CASE s \in caches /\ s.id \notin IdsOf(merge.rows)
    BY <2>1 DEF OldRow, SameRow
  <2>2. CASE \E q \in merge.rows : s = MergedRow(q)
    BY <1>3, <2>2 DEF NewRow
  <2> QED
    BY <1>1, <2>1, <2>2
<1>7. \A q \in merge.rows, r \in caches : r.merged => r.id # q.id
  BY <1>2, <1>4
<1>8. \A q \in merge.rows : \E s \in caches' : SameRow(q, s) /\ s.merged
  BY <1>1, <1>3
<1> QED
  BY <1>1, <1>5, <1>6, <1>7, <1>8 DEF RowsWritten

(* What a transaction may commit. *)
Ready(tx, types) ==
  /\ TxTyped(tx) /\ tx.pc = "inserted" /\ Drawn(tx) /\ PaysOk(tx, types) /\ OfRows(tx)
  /\ WriteLogs(tx) /\ RowsWritten(tx)

LEMMA ReadyPost ==
  ASSUME BaseInv, WriteLogs(post), post.pc = "inserted", day' = day
  PROVE  Ready(post, {"BUY_GAS", "BUY_STORAGE"})
BY PostRowsWritten DEF Ready, BaseInv, Typed, IdsInv, OpenInv, PostPays

LEMMA ReadyMerge ==
  ASSUME BaseInv, WriteLogs(merge), merge.pc = "inserted", day' = day
  PROVE  Ready(merge, {"PAY_API_FEE"})
BY MergeRowsWritten DEF Ready, BaseInv, Typed, IdsInv, OpenInv, MergePays

(* Where the logs of a commit come from. *)
LEMMA CommitOrigins ==
  ASSUME Typed, LogsOk, NEW tx, NEW types, Ready(tx, types)
  PROVE  /\ logs' \subseteq FiatLog /\ IsFiniteSet(logs') /\ UniqueIds(logs')
         /\ \A m \in logs' : m \in Inserted(tx) \/ \E l \in logs : Kin(l, m)
         /\ \A l \in logs : \E m \in logs' : Kin(l, m)
         /\ \A i \in DOMAIN tx.fresh : InsertedAt(tx, i) \in logs'
         /\ \A m \in Inserted(tx) : \E i \in DOMAIN tx.fresh : m = InsertedAt(tx, i)
         /\ \A i \in DOMAIN tx.fresh :
              /\ InsertedAt(tx, i).id = tx.first + i /\ InsertedAt(tx, i).ids = LogAt(tx, i).ids
              /\ InsertedAt(tx, i).user = LogAt(tx, i).user /\ InsertedAt(tx, i).type = LogAt(tx, i).type
              /\ InsertedAt(tx, i).cost = LogAt(tx, i).cost /\ InsertedAt(tx, i).count = LogAt(tx, i).count
              /\ InsertedAt(tx, i).amount = LogAt(tx, i).amount
              /\ LogAt(tx, i).ids # {} /\ LogAt(tx, i).ids \subseteq IdsOf(tx.rows)
         /\ tx.first \in Nat /\ \A i \in DOMAIN tx.fresh : i \in Nat
         /\ IsFiniteSet(DOMAIN tx.fresh) /\ IsFiniteSet(tx.rows) /\ tx.rows \subseteq CacheRow
<1> USE DEF Ready
<1>1. /\ logs' \subseteq FiatLog /\ IsFiniteSet(logs') /\ UniqueIds(logs')
      /\ \A m \in logs' : m \notin Inserted(tx) => \E l \in logs : Kin(l, m) /\ l.at = m.at
      /\ \A l \in logs : \E m \in logs' : Kin(l, m) /\ l.at = m.at
      /\ Inserted(tx) \subseteq logs'
  BY CommitLogs
<1>2. Inserted(tx) = {InsertedAt(tx, i) : i \in DOMAIN tx.fresh}
  BY Written
<1>3. \A i \in DOMAIN tx.fresh :
              /\ InsertedAt(tx, i).id = tx.first + i /\ InsertedAt(tx, i).ids = LogAt(tx, i).ids
              /\ InsertedAt(tx, i).user = LogAt(tx, i).user /\ InsertedAt(tx, i).type = LogAt(tx, i).type
              /\ InsertedAt(tx, i).cost = LogAt(tx, i).cost /\ InsertedAt(tx, i).count = LogAt(tx, i).count
              /\ InsertedAt(tx, i).amount = LogAt(tx, i).amount
  BY InsertedType DEF Typed
<1>4. \A i \in DOMAIN tx.fresh : LogAt(tx, i).ids # {} /\ LogAt(tx, i).ids \subseteq IdsOf(tx.rows)
  BY DEF OfRows
<1>5. /\ tx.first \in Nat /\ \A i \in DOMAIN tx.fresh : i \in Nat
      /\ IsFiniteSet(DOMAIN tx.fresh)
  <2>1. TxTyped(tx)
    OBVIOUS
  <2>2. tx.first \in Nat /\ Len(tx.fresh) \in Nat /\ DOMAIN tx.fresh = 1 .. Len(tx.fresh)
    BY <2>1, TxFields
  <2>3. IsFiniteSet(1 .. Len(tx.fresh)) /\ \A i \in 1 .. Len(tx.fresh) : i \in Nat
    BY <2>2, FS_Interval
  <2> QED
    BY <2>2, <2>3
<1>6. IsFiniteSet(tx.rows) /\ tx.rows \subseteq CacheRow
  BY TxFields DEF TxTyped
<1> QED
  BY <1>1, <1>2, <1>3, <1>4, <1>5, <1>6

LEMMA OldAndNew ==
  ASSUME Typed, LogsOk, NEW tx, NEW types, Ready(tx, types), TxMerges(tx), MergedLogs
  PROVE  /\ \A l \in logs, q \in tx.rows : q.id \notin l.ids
         /\ \A l \in logs, i \in DOMAIN tx.fresh : l.ids \cap LogAt(tx, i).ids = {}
<1>1. ASSUME NEW l \in logs, NEW q \in tx.rows, q.id \in l.ids PROVE FALSE
  <2>1. PICK r \in {s \in caches : s.merged} : r.id = q.id
    BY <1>1 DEF MergedLogs, Merges
  <2> QED
    BY <2>1 DEF Ready, RowsWritten
<1>2. ASSUME NEW l \in logs, NEW i \in DOMAIN tx.fresh PROVE l.ids \cap LogAt(tx, i).ids = {}
  <2>1. SUFFICES ASSUME NEW n \in l.ids, n \in LogAt(tx, i).ids PROVE FALSE
    OBVIOUS
  <2>2. PICK q \in tx.rows : q.id = n
    BY <2>1 DEF TxMerges, Merges
  <2> QED
    BY <1>1, <2>1, <2>2
<1> QED
  BY <1>1, <1>2

LEMMA CommitMergedLogs ==
  ASSUME Typed, RowsOk, LogsOk, NEW tx, NEW types, Ready(tx, types), Groups(tx), MergedInv
  PROVE  MergedLogs' /\ MergedRows' /\ LogsApart'
<1>1. MergedLogs'
  <2>1. SUFFICES ASSUME NEW m \in logs', NEW n \in m.ids
                 PROVE  \E s \in {r \in caches' : r.merged} :
                          s.id = n /\ s.user = m.user /\ s.type = m.type /\ s.cost = m.cost
    BY DEF MergedLogs, Merges
  <2>2. CASE m \in Inserted(tx)
    <3>1. PICK i \in DOMAIN tx.fresh : m = InsertedAt(tx, i)
      BY <2>2, CommitOrigins
    <3>2. m.ids = LogAt(tx, i).ids /\ m.user = LogAt(tx, i).user /\ m.type = LogAt(tx, i).type
          /\ m.cost = LogAt(tx, i).cost
      BY <3>1, CommitOrigins
    <3>3. PICK q \in tx.rows : q.id = n /\ q.user = m.user /\ q.type = m.type /\ q.cost = m.cost
      BY <2>1, <3>2 DEF Groups, TxMerges, Merges
    <3>4. PICK s \in caches' : SameRow(q, s) /\ s.merged
      BY DEF Ready, RowsWritten
    <3> QED
      BY <3>3, <3>4 DEF SameRow
  <2>3. CASE \E l \in logs : Kin(l, m)
    <3>1. PICK l \in logs : Kin(l, m)
      BY <2>3
    <3>2. PICK r \in {s \in caches : s.merged} :
             r.id = n /\ r.user = m.user /\ r.type = m.type /\ r.cost = m.cost
      BY <2>1, <3>1 DEF MergedInv, MergedLogs, Merges, Kin
    <3>3. PICK s \in caches' : SameRow(r, s) /\ (r.merged => s.merged)
      BY DEF Ready, RowsWritten
    <3> QED
      BY <3>2, <3>3 DEF SameRow
  <2> QED
    BY <2>2, <2>3, CommitOrigins
<1>2. MergedRows'
  <2>1. SUFFICES ASSUME NEW s \in caches', s.merged PROVE \E m \in logs' : s.id \in m.ids
    BY DEF MergedRows
  <2>2. CASE OldRow(tx, s)
    <3>1. PICK r \in caches : SameRow(r, s) /\ r.merged
      BY <2>1, <2>2 DEF OldRow
    <3>2. PICK l \in logs : r.id \in l.ids
      BY <3>1 DEF MergedInv, MergedRows
    <3>3. PICK m \in logs' : Kin(l, m)
      BY CommitOrigins
    <3> QED
      BY <3>1, <3>2, <3>3 DEF SameRow, Kin
  <2>3. CASE NewRow(tx, s)
    <3>1. PICK q \in tx.rows : SameRow(q, s)
      BY <2>3 DEF NewRow
    <3>2. PICK i \in DOMAIN tx.fresh : q.id \in LogAt(tx, i).ids
      BY DEF Groups, TxCovers
    <3>3. InsertedAt(tx, i) \in logs' /\ InsertedAt(tx, i).ids = LogAt(tx, i).ids
      BY CommitOrigins
    <3> QED
      BY <3>1, <3>2, <3>3 DEF SameRow
  <2> QED
    BY <2>2, <2>3 DEF Ready, RowsWritten
<1>3. LogsApart'
  <2>1. SUFFICES ASSUME NEW l \in logs', NEW m \in logs', l.ids \cap m.ids # {}
                 PROVE  l = m \/ Split(l, m)
    BY DEF LogsApart, Split
  <2>2. \A k \in logs, i \in DOMAIN tx.fresh : k.ids \cap LogAt(tx, i).ids = {}
    BY OldAndNew DEF Groups, MergedInv
  <2>3. CASE l \in Inserted(tx) /\ m \in Inserted(tx)
    <3>1. PICK i \in DOMAIN tx.fresh : l = InsertedAt(tx, i)
      BY <2>3, CommitOrigins
    <3>2. PICK j \in DOMAIN tx.fresh : m = InsertedAt(tx, j)
      BY <2>3, CommitOrigins
    <3>3. l.ids = LogAt(tx, i).ids /\ m.ids = LogAt(tx, j).ids /\ l.type = LogAt(tx, i).type
      BY <3>1, <3>2, CommitOrigins
    <3>4. i = j \/ Split(LogAt(tx, i), LogAt(tx, j))
      BY <2>1, <3>3 DEF Groups, TxApart
    <3> QED
      BY <3>1, <3>2, <3>3, <3>4 DEF Split
  <2>4. ASSUME NEW x \in logs', NEW y \in logs', x \in Inserted(tx), NEW k \in logs, Kin(k, y)
        PROVE  x.ids \cap y.ids = {}
    <3>1. PICK i \in DOMAIN tx.fresh : x = InsertedAt(tx, i)
      BY <2>4, CommitOrigins
    <3>2. x.ids = LogAt(tx, i).ids
      BY <3>1, CommitOrigins
    <3> QED
      BY <2>2, <2>4, <3>2 DEF Kin
  <2>5. CASE \E k \in logs : Kin(k, l)
    <3>1. PICK k \in logs : Kin(k, l)
      BY <2>5
    <3>2. m \notin Inserted(tx)
      BY <2>1, <2>4, <3>1
    <3>3. PICK n \in logs : Kin(n, m)
      BY <3>2, CommitOrigins
    <3>4. k = n \/ Split(k, n)
      BY <2>1, <3>1, <3>3 DEF MergedInv, LogsApart, Kin
    <3>5. UniqueIds(logs')
      BY CommitOrigins
    <3> QED
      BY <3>1, <3>3, <3>4, <3>5 DEF Split, Kin, UniqueIds
  <2>6. CASE l \in Inserted(tx) /\ \E k \in logs : Kin(k, m)
    BY <2>1, <2>4, <2>6
  <2> QED
    BY <2>3, <2>5, <2>6, CommitOrigins
<1> QED
  BY <1>1, <1>2, <1>3

LEMMA CommitOldCounts ==
  ASSUME Typed, RowsOk, LogsOk, NEW tx, NEW types, Ready(tx, types), Groups(tx), MergedInv,
         NEW l \in logs, NEW m \in logs', Kin(l, m), l.type = "REFUND_API_FEE"
  PROVE  CountIn(LogsAlike(m)') = CountIn(RowsOf(m)')
<1> DEFINE S == {k \in logs : k.ids = l.ids}
           R == {k \in logs' : k.ids = m.ids}
           P == {r \in caches : r.id \in l.ids}
           Q == {r \in caches' : r.id \in m.ids}
<1>1. m.ids = l.ids /\ l.ids # {}
  BY DEF Kin, LogsOk
<1>2. /\ \A k \in logs, i \in DOMAIN tx.fresh : k.ids \cap LogAt(tx, i).ids = {}
      /\ \A k \in logs, q \in tx.rows : q.id \notin k.ids
  BY OldAndNew DEF Groups, MergedInv
<1>3. \A y \in R : \E k \in S : Kin(k, y)
  <2> TAKE y \in R
  <2>1. y \notin Inserted(tx)
    <3>1. SUFFICES ASSUME NEW i \in DOMAIN tx.fresh, y = InsertedAt(tx, i) PROVE FALSE
      BY CommitOrigins
    <3>2. y.ids = LogAt(tx, i).ids
      BY <3>1, CommitOrigins
    <3> QED
      BY <1>1, <1>2, <3>2
  <2>2. PICK k \in logs : Kin(k, y)
    BY <2>1, CommitOrigins
  <2> QED
    BY <1>1, <2>2 DEF Kin
<1>4. \A x \in S : \E y \in R : Kin(x, y)
  <2> TAKE x \in S
  <2>1. PICK y \in logs' : Kin(x, y)
    BY CommitOrigins
  <2> QED
    BY <1>1, <2>1 DEF Kin
<1>5. CountIn(R) = CountIn(S)
  <2>1. S \in SUBSET logs /\ IsFiniteSet(S) /\ \A x \in S : x.count \in Int
    <3>1. S \in SUBSET logs
      OBVIOUS
    <3>2. \A x \in S : x \in FiatLog
      BY DEF Typed
    <3> QED
      BY <3>1, <3>2, FS_Subset DEF Typed, FiatLog
  <2>2. UniqueIds(S)
    BY DEF LogsOk, UniqueIds
  <2>3. UniqueIds(R)
    <3>1. UniqueIds(logs')
      BY CommitOrigins
    <3> QED
      BY <3>1 DEF UniqueIds
  <2>4. IdsOf(S) = IdsOf(R)
    <3> HIDE DEF S, R
    <3> QED
      BY <1>3, <1>4 DEF IdsOf, Kin
  <2>5. \A x \in S, y \in R : x.id = y.id => x.count = y.count
    BY <1>3, <2>2 DEF Kin, UniqueIds
  <2> HIDE DEF S, R
  <2> QED
    BY <2>1, <2>2, <2>3, <2>4, <2>5, CountById
<1>6. \A y \in Q : \E r \in P : SameRow(r, y)
  <2> TAKE y \in Q
  <2>1. CASE OldRow(tx, y)
    BY <1>1, <2>1 DEF OldRow, SameRow
  <2>2. CASE NewRow(tx, y)
    BY <1>1, <1>2, <2>2 DEF NewRow, SameRow
  <2> QED
    BY <2>1, <2>2 DEF Ready, RowsWritten
<1>7. \A x \in P : \E y \in Q : SameRow(x, y)
  <2> TAKE x \in P
  <2>1. PICK y \in caches' : SameRow(x, y)
    BY DEF Ready, RowsWritten
  <2> QED
    BY <1>1, <2>1 DEF SameRow
<1>8. CountIn(Q) = CountIn(P)
  <2>1. P \in SUBSET caches /\ IsFiniteSet(P) /\ \A x \in P : x.count \in Int
    <3>1. P \in SUBSET caches
      OBVIOUS
    <3>2. \A x \in P : x \in CacheRow
      BY DEF Typed
    <3> QED
      BY <3>1, <3>2, FS_Subset DEF Typed, CacheRow
  <2>2. UniqueIds(P)
    BY DEF RowsOk, UniqueIds
  <2>3. UniqueIds(Q)
    BY DEF Ready, RowsWritten, UniqueIds
  <2>4. IdsOf(P) = IdsOf(Q)
    <3> HIDE DEF P, Q
    <3> QED
      BY <1>6, <1>7 DEF IdsOf, SameRow
  <2>5. \A x \in P, y \in Q : x.id = y.id => x.count = y.count
    BY <1>6, <2>2 DEF SameRow, UniqueIds
  <2> HIDE DEF P, Q
  <2> QED
    BY <2>1, <2>2, <2>3, <2>4, <2>5, CountById
<1>9. CountIn(S) = CountIn(P)
  <2>1. CountIn(LogsAlike(l)) = CountIn(RowsOf(l))
    BY DEF MergedInv, LogCounts
  <2> QED
    BY <2>1 DEF LogsAlike, RowsOf
<1>10. LogsAlike(m)' = R /\ RowsOf(m)' = Q
  BY DEF LogsAlike, RowsOf
<1> HIDE DEF P, Q, R, S
<1> QED
  BY <1>5, <1>8, <1>9, <1>10

LEMMA CommitNewCounts ==
  ASSUME Typed, RowsOk, LogsOk, NEW tx, NEW types, Ready(tx, types), Groups(tx), MergedInv,
         NEW i \in DOMAIN tx.fresh, LogAt(tx, i).type = "REFUND_API_FEE",
         NEW m \in logs', m = InsertedAt(tx, i)
  PROVE  CountIn(LogsAlike(m)') = CountIn(RowsOf(m)')
<1> DEFINE A == Alike(tx, i)
           R == {k \in logs' : k.ids = m.ids}
           P == RowsAt(tx, i)
           Q == {r \in caches' : r.id \in m.ids}
           g == [j \in A |-> InsertedAt(tx, j)]
           f == [j \in A |-> LogAt(tx, j).count]
           h == [k \in R |-> k.count]
<1>1. m.ids = LogAt(tx, i).ids /\ m.ids # {} /\ m.ids \subseteq IdsOf(tx.rows)
  BY CommitOrigins
<1>2. \A k \in logs : k.ids \cap m.ids = {}
  BY <1>1, OldAndNew DEF Groups, MergedInv
<1>3. \A j \in A : /\ j \in DOMAIN tx.fresh /\ j \in Nat /\ tx.first \in Nat
                   /\ InsertedAt(tx, j) \in logs' /\ InsertedAt(tx, j).id = tx.first + j
                   /\ InsertedAt(tx, j).ids = m.ids
                   /\ InsertedAt(tx, j).count = LogAt(tx, j).count
  <2> TAKE j \in A
  <2>1. j \in DOMAIN tx.fresh /\ LogAt(tx, j).ids = LogAt(tx, i).ids
    BY DEF Alike
  <2> HIDE DEF A
  <2> QED
    BY <1>1, <2>1, CommitOrigins
<1>4. \A j \in A : LogAt(tx, j).count \in Int
  <2> TAKE j \in A
  <2>1. j \in DOMAIN tx.fresh /\ TxTyped(tx)
    BY DEF Alike, Ready
  <2>2. tx.fresh[j] \in FreshLog
    BY <2>1, TxFields
  <2> QED
    BY <2>2 DEF LogAt, FreshLog, FiatLog
<1>5. IsFiniteSet(A)
  <2>1. A \in SUBSET DOMAIN tx.fresh
    BY DEF Alike
  <2>2. IsFiniteSet(DOMAIN tx.fresh)
    BY CommitOrigins
  <2> HIDE DEF A
  <2> QED
    BY <2>1, <2>2, FS_Subset
<1>6. \A k \in R : \E j \in A : k = InsertedAt(tx, j)
  <2> TAKE k \in R
  <2>1. ASSUME NEW l \in logs, Kin(l, k) PROVE FALSE
    BY <1>1, <1>2, <2>1 DEF Kin
  <2>2. k \in Inserted(tx)
    BY <2>1, CommitOrigins
  <2>3. PICK j \in DOMAIN tx.fresh : k = InsertedAt(tx, j)
    BY <2>2, CommitOrigins
  <2>4. k.ids = LogAt(tx, j).ids
    BY <2>3, CommitOrigins
  <2> QED
    BY <1>1, <2>3, <2>4 DEF Alike
<1>7. Pairs(g, A, R)
  <2>1. \A j \in A : InsertedAt(tx, j) \in R
    BY <1>3
  <2>2. \A j, k \in A : InsertedAt(tx, j) = InsertedAt(tx, k) => j = k
    <3> SUFFICES ASSUME NEW j \in A, NEW k \in A, InsertedAt(tx, j) = InsertedAt(tx, k) PROVE j = k
      OBVIOUS
    <3>1. tx.first + j = tx.first + k
      BY <1>3
    <3> QED
      BY <1>3, <3>1
  <2> HIDE DEF A, R
  <2> QED
    BY <1>6, <2>1, <2>2 DEF Pairs
<1>8. \A j \in A : f[j] \in Int /\ h[g[j]] = f[j]
  BY <1>3, <1>4
<1>9. CountIn(R) = CountAlike(tx, i)
  <2>1. CountIn(R) = SumFunctionOnSet(h, R) /\ CountAlike(tx, i) = SumFunctionOnSet(f, A)
    BY DEF CountIn, CountAlike
  <2> HIDE DEF A, R, f, g, h
  <2> QED
    BY <1>5, <1>7, <1>8, <2>1, SumBijection
<1>10. \A y \in Q : \E q \in P : SameRow(q, y)
  <2> TAKE y \in Q
  <2>1. ASSUME OldRow(tx, y) PROVE FALSE
    <3>1. PICK r \in caches : SameRow(r, y) /\ r.id \notin IdsOf(tx.rows)
      BY <2>1 DEF OldRow
    <3> QED
      BY <1>1, <3>1 DEF SameRow
  <2>2. NewRow(tx, y)
    BY <2>1 DEF Ready, RowsWritten
  <2>3. PICK q \in tx.rows : SameRow(q, y)
    BY <2>2 DEF NewRow
  <2> QED
    BY <1>1, <2>3 DEF RowsAt, SameRow
<1>11. \A q \in P : \E y \in Q : SameRow(q, y)
  <2> TAKE q \in P
  <2>1. q \in tx.rows /\ q.id \in m.ids
    BY <1>1 DEF RowsAt
  <2>2. PICK y \in caches' : SameRow(q, y)
    BY <2>1 DEF Ready, RowsWritten
  <2> QED
    BY <2>1, <2>2 DEF SameRow
<1>12. CountIn(Q) = CountIn(P)
  <2>1. P \in SUBSET tx.rows /\ IsFiniteSet(P) /\ \A x \in P : x.count \in Int
    <3>1. P \in SUBSET tx.rows
      BY DEF RowsAt
    <3>2. IsFiniteSet(tx.rows) /\ tx.rows \subseteq CacheRow
      BY CommitOrigins
    <3>3. \A x \in P : x \in CacheRow
      BY <3>1, <3>2
    <3> HIDE DEF P
    <3> QED
      BY <3>1, <3>2, <3>3, FS_Subset DEF CacheRow
  <2>2. UniqueIds(P)
    BY <2>1 DEF Groups, UniqueIds
  <2>3. UniqueIds(Q)
    BY DEF Ready, RowsWritten, UniqueIds
  <2> HIDE DEF P, Q
  <2>4. IdsOf(P) = IdsOf(Q)
    BY <1>10, <1>11 DEF IdsOf, SameRow
  <2>5. \A x \in P, y \in Q : x.id = y.id => x.count = y.count
    BY <1>10, <2>2 DEF SameRow, UniqueIds
  <2> QED
    BY <2>1, <2>2, <2>3, <2>4, <2>5, CountById
<1>13. CountAlike(tx, i) = CountIn(P)
  BY DEF Groups, TxCounts
<1>14. LogsAlike(m)' = R /\ RowsOf(m)' = Q
  BY DEF LogsAlike, RowsOf
<1> HIDE DEF A, P, Q, R
<1> QED
  BY <1>9, <1>12, <1>13, <1>14

LEMMA CommitMerged ==
  ASSUME Typed, RowsOk, LogsOk, NEW tx, NEW types, Ready(tx, types), Groups(tx), MergedInv
  PROVE  MergedInv'
<1>1. MergedLogs' /\ MergedRows' /\ LogsApart'
  BY CommitMergedLogs
<1>2. ASSUME NEW m \in logs', m.type = "REFUND_API_FEE"
      PROVE  CountIn(LogsAlike(m)') = CountIn(RowsOf(m)')
  <2>1. CASE m \in Inserted(tx)
    <3>1. PICK i \in DOMAIN tx.fresh : m = InsertedAt(tx, i)
      BY <2>1, CommitOrigins
    <3>2. LogAt(tx, i).type = "REFUND_API_FEE"
      BY <1>2, <3>1, CommitOrigins
    <3> QED
      BY <3>1, <3>2, CommitNewCounts
  <2>2. CASE \E l \in logs : Kin(l, m)
    <3>1. PICK l \in logs : Kin(l, m)
      BY <2>2
    <3>2. l.type = "REFUND_API_FEE"
      BY <1>2, <3>1 DEF Kin
    <3> QED
      BY <3>1, <3>2, CommitOldCounts
  <2> QED
    BY <2>1, <2>2, CommitOrigins
<1>3. LogCounts'
  <2>1. \A m \in logs' : m.type = "REFUND_API_FEE" => CountIn(LogsAlike(m)') = CountIn(RowsOf(m)')
    BY <1>2
  <2>2. \A m : CountIn(LogsAlike(m))' = CountIn(LogsAlike(m)') /\ CountIn(RowsOf(m))' = CountIn(RowsOf(m)')
    BY DEF CountIn, LogsAlike, RowsOf
  <2> QED
    BY <2>1, <2>2 DEF LogCounts, CountIn, LogsAlike, RowsOf
<1> QED
  BY <1>1, <1>3 DEF MergedInv
-----------------------------------------------------------------------------
LEMMA CleanGroups ==
  ASSUME NEW tx, Clean(tx)
  PROVE  Groups(tx)
BY DEF Clean, Groups, TxMerges, TxCovers, TxApart, TxCounts, UniqueIds

LEMMA KeptGroups ==
  ASSUME NEW old, NEW new, new.rows = old.rows, new.fresh = old.fresh, Groups(old)
  PROVE  Groups(new)
BY DEF Groups, TxMerges, TxCovers, TxApart, TxCounts, UniqueIds, LogAt, Alike, CountAlike, RowsAt

(* Tables that stay, or get a row which is not merged. *)
LEMMA MergedSame ==
  ASSUME MergedInv, UNCHANGED <<caches, logs>>
  PROVE  MergedInv'
BY DEF MergedInv, MergedLogs, MergedRows, LogsApart, LogCounts, LogsAlike, RowsOf, CountIn

LEMMA MergedApi ==
  ASSUME BaseInv, MergedInv, NEW p \in Postings, PostApi(p)
  PROVE  MergedInv'
<1> DEFINE row == NewCache(p, FALSE)
<1>1. /\ row \in CacheRow /\ row.id = Cardinality(caches) + 1 /\ row.merged = FALSE
      /\ row.at = day /\ Charged(row)
  <2>1. FALSE \in BOOLEAN
    OBVIOUS
  <2> QED
    BY <2>1, NewCacheType DEF BaseInv
<1>2. caches' = caches \cup {row} /\ UNCHANGED logs
  BY DEF PostApi
<1>3. \A r \in caches : r.id # row.id
  <2>1. IdsOf(caches) = 1 .. Cardinality(caches) /\ Cardinality(caches) \in Nat
    BY FS_CardinalityType DEF BaseInv, RowsOk, Typed
  <2>2. \A r \in caches : r.id \in 1 .. Cardinality(caches)
    BY <2>1 DEF IdsOf
  <2> HIDE DEF row
  <2> QED
    BY <1>1, <2>1, <2>2
<1>4. \A l \in logs : l.ids \subseteq IdsOf(caches)
  BY DEF BaseInv, IdsInv, LogsOk
<1> HIDE DEF row
<1>5. \A l \in logs : row.id \notin l.ids
  BY <1>3, <1>4 DEF IdsOf
<1>6. MergedLogs'
  BY <1>2 DEF MergedInv, MergedLogs, Merges
<1>7. MergedRows'
  BY <1>1, <1>2 DEF MergedInv, MergedRows
<1>8. LogsApart'
  BY <1>2 DEF MergedInv, LogsApart
<1>9. \A l \in logs : RowsOf(l)' = RowsOf(l) /\ LogsAlike(l)' = LogsAlike(l)
  BY <1>2, <1>5 DEF RowsOf, LogsAlike
<1>10. LogCounts'
  BY <1>2, <1>9 DEF MergedInv, LogCounts, RowsOf, LogsAlike, CountIn
<1> QED
  BY <1>6, <1>7, <1>8, <1>10 DEF MergedInv

LEMMA PostBeginGroups ==
  ASSUME BaseInv, NEW p \in Postings, PostBegin(p)
  PROVE  Groups(post)'
<1> DEFINE row == NewCache(p, TRUE)
           l == LogAt(post', 1)
<1>1. /\ DOMAIN post'.fresh = {1} /\ post'.rows = {row}
      /\ l.ids = {Cardinality(caches) + 1} /\ l.user = p.user /\ l.type = p.type /\ l.cost = p.cost
  BY PostFresh
<1>2. /\ row.id = Cardinality(caches) + 1 /\ row.user = p.user /\ row.type = p.type /\ row.cost = p.cost
  <2>1. TRUE \in BOOLEAN
    OBVIOUS
  <2> QED
    BY <2>1, NewCacheType DEF BaseInv
<1>3. l.type # "REFUND_API_FEE"
  <2>1. p.type \in Copied
    BY DEF PostBegin
  <2> QED
    BY <1>1, <2>1 DEF Copied
<1> DEFINE tx == post'
<1>4. /\ DOMAIN tx.fresh = {1} /\ tx.rows = {row} /\ LogAt(tx, 1).ids = {row.id}
      /\ LogAt(tx, 1).user = row.user /\ LogAt(tx, 1).type = row.type /\ LogAt(tx, 1).cost = row.cost
      /\ LogAt(tx, 1).type # "REFUND_API_FEE"
  BY <1>1, <1>2, <1>3
<1> HIDE DEF tx, row, l
<1>5. Groups(tx)
  BY <1>4 DEF Groups, TxMerges, Merges, TxCovers, TxApart, TxCounts, UniqueIds
<1> QED
  BY <1>5 DEF tx, Groups, TxMerges, TxCovers, TxApart, TxCounts, UniqueIds, LogAt, Alike, CountAlike, RowsAt

LEMMA GroupOf ==
  ASSUME Typed, NEW u \in User, NEW t, NEW rows \in SUBSET caches, NEW order,
         Grouped(u, t, rows, order), NEW i \in DOMAIN order
  PROVE  /\ LogsOfGroups(u, rows, order)[i].log.ids = IdsOf(GroupAt(rows, order, i))
         /\ LogsOfGroups(u, rows, order)[i].log.user = u
         /\ LogsOfGroups(u, rows, order)[i].log.type = t
         /\ LogsOfGroups(u, rows, order)[i].log.cost = order[i]
<1> DEFINE mine == GroupAt(rows, order, i)
           row == CHOOSE r \in mine : TRUE
           f == LogsOfGroups(u, rows, order)[i]
<1>1. LogsOfGroups(u, rows, order)[i].log.ids = IdsOf(GroupAt(rows, order, i))
  BY GroupLog
<1>2. GroupAt(rows, order, i) # {}
  BY GroupFacts
<1>3. row \in mine
  BY <1>2
<1>4. row.user = u /\ row.type = t /\ row.cost = order[i]
  BY <1>3 DEF Grouped, Due, GroupAt
<1>5. PICK amount, count, bal, ids : f = Fresh(row, amount, count, bal, ids, {})
  BY DEF LogsOfGroups, LogOfGroup, GroupAt
<1> HIDE DEF row, mine, f
<1>6. f.log.user = u /\ f.log.type = t /\ f.log.cost = order[i]
  BY <1>4, <1>5 DEF Fresh
<1> QED
  BY <1>1, <1>6 DEF f

LEMMA MergeReadGroups ==
  ASSUME BaseInv, NEW u \in User, MergeRead(u)
  PROVE  Groups(merge)'
<1>1. PICK rows, order :
           /\ rows \in SUBSET caches
           /\ Grouped(u, TypeDue, rows, order)
           /\ merge'.pc = "read" /\ merge'.rows = rows
           /\ merge'.fresh = LogsOfGroups(u, rows, order) /\ merge'.pays = merge.pays
           /\ merge.pc = "next" /\ DOMAIN merge'.fresh = DOMAIN order
           /\ UNCHANGED <<caches, logs, lastLogId, balance, balanceOnFiatlog, day, post, faults, astray>>
  BY MergeReadFields DEF BaseInv
<1>2. PICK t \in MergeableTypes : t = TypeDue
  BY TypeDueType DEF MergeRead
<1>3. Grouped(u, t, rows, order) /\ rows \in SUBSET caches
  BY <1>1, <1>2
<1>4. t # "REFUND_API_FEE"
  BY <1>2 DEF MergeableTypes
<1>5. \A i \in DOMAIN order :
        /\ LogsOfGroups(u, rows, order)[i].log.ids = IdsOf(GroupAt(rows, order, i))
        /\ LogsOfGroups(u, rows, order)[i].log.user = u
        /\ LogsOfGroups(u, rows, order)[i].log.type = t
        /\ LogsOfGroups(u, rows, order)[i].log.cost = order[i]
  BY <1>3, GroupOf DEF BaseInv
<1>6. /\ \A i, j \in DOMAIN order : order[i] = order[j] => i = j
      /\ \A r \in rows : \E i \in DOMAIN order : r \in GroupAt(rows, order, i)
  BY <1>3, GroupFacts DEF BaseInv
<1>7. \A r \in rows : r.user = u /\ r.type = t
  BY <1>3 DEF Grouped, Due
<1>8. UniqueIds(rows)
  BY <1>3 DEF BaseInv, RowsOk, UniqueIds
<1> DEFINE tx == merge'
<1>9. /\ tx.rows = rows /\ DOMAIN tx.fresh = DOMAIN order
      /\ \A i \in DOMAIN order :
           /\ LogAt(tx, i).ids = IdsOf(GroupAt(rows, order, i))
           /\ LogAt(tx, i).user = u /\ LogAt(tx, i).type = t /\ LogAt(tx, i).cost = order[i]
  BY <1>1, <1>5 DEF LogAt
<1> HIDE DEF tx
<1>10. TxMerges(tx)
  BY <1>7, <1>9 DEF TxMerges, Merges, IdsOf, GroupAt
<1>11. TxCovers(tx)
  BY <1>6, <1>9 DEF TxCovers, IdsOf
<1>12. TxApart(tx)
  <2>1. ASSUME NEW i \in DOMAIN order, NEW j \in DOMAIN order, NEW n,
               n \in IdsOf(GroupAt(rows, order, i)), n \in IdsOf(GroupAt(rows, order, j))
        PROVE  i = j
    <3>1. PICK q \in rows : q.id = n /\ q.cost = order[i]
      BY <2>1 DEF IdsOf, GroupAt
    <3>2. PICK r \in rows : r.id = n /\ r.cost = order[j]
      BY <2>1 DEF IdsOf, GroupAt
    <3>3. q = r
      BY <1>8, <3>1, <3>2 DEF UniqueIds
    <3> QED
      BY <1>6, <3>1, <3>2, <3>3
  <2> QED
    BY <1>9, <2>1 DEF TxApart
<1>13. TxCounts(tx)
  BY <1>4, <1>9 DEF TxCounts
<1>14. Groups(tx)
  BY <1>8, <1>9, <1>10, <1>11, <1>12, <1>13 DEF Groups
<1> QED
  BY <1>14 DEF tx, Groups, TxMerges, TxCovers, TxApart, TxCounts, UniqueIds, LogAt, Alike, CountAlike, RowsAt

(* Payments of the same user and cost type. *)
LEMMA LikeEachOther ==
  ASSUME NEW x, NEW y, x.user = y.user, x.cost = y.cost
  PROVE  RefundsLike(x) = RefundsLike(y) /\ PaysOf(x.user, x.cost) = PaysOf(y.user, y.cost)
         /\ (Borne(x) <=> Borne(y))
BY DEF RefundsLike, Borne

LEMMA LikeFacts ==
  ASSUME NEW x, NEW r \in RefundsLike(x)
  PROVE  r \in caches /\ r \in RefundsDue /\ r.user = x.user /\ r.cost = x.cost
         /\ r.type = "REFUND_API_FEE" /\ r.at < merge.end
BY DEF RefundsLike, RefundsDue, Due

(* A refund that can be borne is borne by a payment. *)
LEMMA SomePays ==
  ASSUME BaseInv, NotOver, NEW r \in BorneRows
  PROVE  \E p \in Paying : p.user = r.user /\ p.cost = r.cost
<1>1. r \in RefundsLike(r) /\ Borne(r) /\ r \in caches /\ r.type = "REFUND_API_FEE"
  BY DEF BorneRows, RefundsLike, RefundsDue, Due
<1>2. r.count > 0 /\ r.count \in Nat
  BY <1>1 DEF BaseInv, RowsOk, Charged, Typed, CacheRow, ApiRelated
<1>3. CountIn(RefundsLike(r)) \in Nat /\ CountIn(RefundsLike(r)) > 0
  <2> DEFINE like == RefundsLike(r)
  <2>1. like \in SUBSET caches /\ IsFiniteSet(like)
    BY LikeSums DEF BaseInv
  <2>2. \A q \in like : q.count \in Nat
    BY <2>1 DEF BaseInv, Typed, CacheRow
  <2> HIDE DEF like
  <2>3. CountIn(like) \in Nat /\ \A q \in like : q.count <= CountIn(like)
    BY <2>1, <2>2, CountPositive
  <2> QED
    BY <1>1, <1>2, <2>3 DEF like
<1>4. PaysOf(r.user, r.cost) # {}
  <2>1. ASSUME PaysOf(r.user, r.cost) = {} PROVE FALSE
    <3>1. AliveIn({}) = 0
      BY SumEmpty DEF AliveIn
    <3> QED
      BY <1>1, <1>3, <2>1, <3>1 DEF Borne, Bears
  <2> QED
    BY <2>1
<1>5. PICK l \in PaysOf(r.user, r.cost) : TRUE
  BY <1>4
<1>6. l \in logs /\ l.user = r.user /\ l.cost = r.cost
  BY DEF PaysOf, LogsOf
<1>7. Borne(l) /\ RefundsLike(l) = RefundsLike(r) /\ PaysOf(l.user, l.cost) = PaysOf(r.user, r.cost)
  BY <1>1, <1>6, LikeEachOther
<1> DEFINE some == {p \in PaysOf(l.user, l.cost) : Share(p) > 0}
<1>8. Shares(some) = CountIn(RefundsLike(l))
  BY <1>6, <1>7, SharesOfAll DEF BaseInv, IdsInv
<1>9. some # {}
  <2>1. Shares({}) = 0
    BY SumEmpty DEF Shares
  <2> HIDE DEF some
  <2> QED
    BY <1>3, <1>7, <1>8, <2>1
<1>10. PICK p \in some : TRUE
  BY <1>9
<1>11. p \in PaysOf(r.user, r.cost) /\ Share(p) > 0
  BY <1>7, <1>10
<1> QED
  BY <1>11 DEF Paying, Bearing, PaysOf, LogsOf

LEMMA RefundGroups ==
  ASSUME BaseInv, NotOver, NEW order \in Orderings(Paying), NEW tx,
         tx.rows = BorneRows, tx.fresh = LogsOfRefunds(order), DOMAIN tx.fresh = DOMAIN order
  PROVE  Groups(tx)
<1>1. /\ DOMAIN order = 1 .. Cardinality(Paying)
      /\ \A i \in DOMAIN order : order[i] \in Paying
      /\ \A i, j \in DOMAIN order : order[i] = order[j] => i = j
      /\ \A l \in Paying : \E i \in DOMAIN order : order[i] = l
  BY PayingOrder DEF BaseInv
<1>2. ASSUME NEW i \in DOMAIN order
      PROVE  /\ LogAt(tx, i).user = order[i].user /\ LogAt(tx, i).cost = order[i].cost
             /\ LogAt(tx, i).type = "REFUND_API_FEE" /\ LogAt(tx, i).count = Share(order[i])
             /\ LogAt(tx, i).ids = IdsOf(RefundsLike(order[i]))
  <2>1. order[i] \in Paying /\ Typed /\ RowsOk
    BY <1>1 DEF BaseInv
  <2>2. LogsOfRefunds(order)[i].log.user = order[i].user
    BY <2>1, RefundLog
  <2>3. LogsOfRefunds(order)[i].log.cost = order[i].cost
    BY <2>1, RefundLog
  <2>4. LogsOfRefunds(order)[i].log.type = "REFUND_API_FEE"
    BY <2>1, RefundLog
  <2>5. LogsOfRefunds(order)[i].log.count = Share(order[i])
    BY <2>1, RefundLog
  <2>6. LogsOfRefunds(order)[i].log.ids = IdsOf(RefundsLike(order[i]))
    BY <2>1, RefundLog
  <2> QED
    BY <2>2, <2>3, <2>4, <2>5, <2>6 DEF LogAt
<1>3. ASSUME NEW i \in DOMAIN order
      PROVE  /\ order[i] \in logs /\ order[i] \in PaysOf(order[i].user, order[i].cost)
             /\ Share(order[i]) > 0 /\ Borne(order[i])
             /\ RefundsLike(order[i]) # {} /\ RefundsLike(order[i]) \subseteq BorneRows
  <2>1. order[i] \in Bearing /\ Share(order[i]) > 0
    BY <1>1 DEF Paying
  <2> QED
    BY <2>1, BearingFacts DEF BaseInv
<1>4. UniqueIds(tx.rows) /\ tx.rows \subseteq caches
  <2>1. BorneRows \subseteq caches
    BY PayingFinite DEF BaseInv
  <2> QED
    BY <2>1 DEF BaseInv, RowsOk, UniqueIds
(* The refund of an id tells the payments that bear it. *)
<1>5. ASSUME NEW i \in DOMAIN order, NEW j \in DOMAIN order, NEW n,
             n \in LogAt(tx, i).ids, n \in LogAt(tx, j).ids
      PROVE  order[i].user = order[j].user /\ order[i].cost = order[j].cost
  <2>1. PICK q \in RefundsLike(order[i]) : q.id = n
    BY <1>2, <1>5 DEF IdsOf
  <2>2. PICK r \in RefundsLike(order[j]) : r.id = n
    BY <1>2, <1>5 DEF IdsOf
  <2>3. q \in tx.rows /\ r \in tx.rows
    BY <1>3
  <2>4. q = r
    BY <1>4, <2>1, <2>2, <2>3 DEF UniqueIds
  <2> QED
    BY <2>1, <2>2, <2>4, LikeFacts
<1>6. \A i, j \in DOMAIN order : order[i].user = order[j].user /\ order[i].cost = order[j].cost
        => LogAt(tx, i).ids = LogAt(tx, j).ids
  BY <1>2, LikeEachOther
<1>7. TxMerges(tx)
  <2>1. ASSUME NEW i \in DOMAIN order, NEW n \in LogAt(tx, i).ids
        PROVE  \E r \in tx.rows : r.id = n /\ r.user = LogAt(tx, i).user /\ r.type = LogAt(tx, i).type
                                  /\ r.cost = LogAt(tx, i).cost
    <3>1. PICK q \in RefundsLike(order[i]) : q.id = n
      BY <1>2, <2>1 DEF IdsOf
    <3>2. q \in tx.rows
      BY <1>3
    <3> QED
      BY <1>2, <3>1, <3>2, LikeFacts
  <2> QED
    BY <2>1 DEF TxMerges, Merges
<1>8. TxCovers(tx)
  <2>1. ASSUME NEW r \in BorneRows PROVE \E i \in DOMAIN order : r.id \in LogAt(tx, i).ids
    <3>1. PICK p \in Paying : p.user = r.user /\ p.cost = r.cost
      BY SomePays
    <3>2. PICK i \in DOMAIN order : order[i] = p
      BY <1>1
    <3>3. r \in RefundsLike(p)
      BY <3>1 DEF RefundsLike, BorneRows
    <3> QED
      BY <1>2, <3>2, <3>3 DEF IdsOf
  <2> QED
    BY <2>1 DEF TxCovers
<1>9. TxApart(tx)
  <2>1. ASSUME NEW i \in DOMAIN order, NEW j \in DOMAIN order, LogAt(tx, i).ids \cap LogAt(tx, j).ids # {}
        PROVE  Split(LogAt(tx, i), LogAt(tx, j))
    BY <1>2, <1>5, <1>6, <2>1 DEF Split
  <2> QED
    BY <2>1 DEF TxApart
<1>10. TxCounts(tx)
  <2>1. SUFFICES ASSUME NEW i \in DOMAIN order PROVE CountAlike(tx, i) = CountIn(RowsAt(tx, i))
    BY DEF TxCounts
  <2>2. PICK l : l = order[i]
    OBVIOUS
  <2>3. l \in logs /\ Borne(l) /\ RefundsLike(l) # {} /\ RefundsLike(l) \subseteq BorneRows
    BY <1>3, <2>2
  <2> DEFINE some == {p \in PaysOf(l.user, l.cost) : Share(p) > 0}
             A == Alike(tx, i)
             g == [j \in A |-> order[j]]
             f == [j \in A |-> LogAt(tx, j).count]
             h == [p \in some |-> Share(p)]
  <2>4. Shares(some) = CountIn(RefundsLike(l)) /\ \A p \in PaysOf(l.user, l.cost) : Share(p) \in Nat
    BY <2>3, SharesOfAll DEF BaseInv, IdsInv
  <2>5. RowsAt(tx, i) = RefundsLike(l)
    <3>1. ASSUME NEW q \in RefundsLike(l) PROVE q \in RowsAt(tx, i)
      BY <1>2, <2>2, <2>3, <3>1 DEF RowsAt, IdsOf
    <3>2. ASSUME NEW q \in RowsAt(tx, i) PROVE q \in RefundsLike(l)
      <4>1. q \in tx.rows /\ q.id \in IdsOf(RefundsLike(l))
        BY <1>2, <2>2 DEF RowsAt
      <4>2. PICK r \in RefundsLike(l) : r.id = q.id
        BY <4>1 DEF IdsOf
      <4>3. r \in tx.rows
        BY <2>3
      <4> QED
        BY <1>4, <4>1, <4>2, <4>3 DEF UniqueIds
    <3> QED
      BY <3>1, <3>2
  <2>6. \A j \in A : j \in DOMAIN order /\ LogAt(tx, j).ids = LogAt(tx, i).ids
    BY DEF Alike
  <2>7. \A j \in A : order[j] \in some
    <3> TAKE j \in A
    <3>1. j \in DOMAIN order /\ LogAt(tx, j).ids = LogAt(tx, i).ids
      BY <2>6
    <3>2. \E n : n \in LogAt(tx, i).ids
      BY <1>2, <1>3 DEF IdsOf
    <3>3. order[i].user = order[j].user /\ order[i].cost = order[j].cost
      BY <1>5, <3>1, <3>2
    <3> HIDE DEF A
    <3> QED
      BY <1>3, <2>2, <3>1, <3>3
  <2>8. \A p \in some : \E j \in A : order[j] = p
    <3> TAKE p \in some
    <3>1. p.user = l.user /\ p.cost = l.cost /\ Share(p) > 0 /\ p \in PaysOf(l.user, l.cost)
      BY DEF PaysOf, LogsOf
    <3>2. \E r \in BorneRows : r.user = l.user /\ r.cost = l.cost
      BY <2>3, LikeFacts
    <3>3. p \in Paying
      BY <3>1, <3>2 DEF Paying, Bearing
    <3>4. PICK j \in DOMAIN order : order[j] = p
      BY <1>1, <3>3
    <3>5. LogAt(tx, j).ids = LogAt(tx, i).ids
      BY <1>6, <2>2, <3>1, <3>4
    <3> QED
      BY <3>4, <3>5 DEF Alike
  <2>9. Pairs(g, A, some)
    <3>1. \A j, k \in A : g[j] = g[k] => j = k
      BY <1>1, <2>6
    <3> HIDE DEF A, some
    <3> QED
      BY <2>7, <2>8, <3>1 DEF Pairs
  <2>10. \A j \in A : f[j] \in Int /\ h[g[j]] = f[j]
    <3> TAKE j \in A
    <3>1. f[j] = Share(order[j]) /\ order[j] \in some
      BY <1>2, <2>6, <2>7
    <3>2. Share(order[j]) \in Nat
      BY <2>4, <3>1
    <3> HIDE DEF A, some, f
    <3> QED
      BY <3>1, <3>2
  <2>11. IsFiniteSet(A)
    <3>1. Cardinality(Paying) \in Nat
      BY PayingOrder DEF BaseInv
    <3>2. IsFiniteSet(DOMAIN order)
      BY <1>1, <3>1, FS_Interval
    <3>3. A \in SUBSET DOMAIN order
      BY <2>6
    <3> HIDE DEF A
    <3> QED
      BY <3>2, <3>3, FS_Subset
  <2>12. CountAlike(tx, i) = SumFunctionOnSet(f, A) /\ Shares(some) = SumFunctionOnSet(h, some)
    BY DEF CountAlike, Shares
  <2> HIDE DEF A, some, f, g, h
  <2>13. SumFunctionOnSet(h, some) = SumFunctionOnSet(f, A)
    BY <2>9, <2>10, <2>11, SumBijection
  <2> QED
    BY <2>4, <2>5, <2>12, <2>13
<1> QED
  BY <1>4, <1>7, <1>8, <1>9, <1>10 DEF Groups

LEMMA RefundsReadGroups ==
  ASSUME BaseInv, NotOver, RefundsRead
  PROVE  Groups(merge)'
<1>1. CASE merge' = NoTx
  <2>1. Clean(merge')
    BY <1>1, CleanClosed
  <2> DEFINE tx == merge'
  <2> HIDE DEF tx
  <2>2. Clean(tx) => Groups(tx)
    BY CleanGroups
  <2>3. Groups(tx)
    BY <2>1, <2>2 DEF tx
  <2> QED
    BY <2>3 DEF tx, Groups, TxMerges, TxCovers, TxApart, TxCounts, UniqueIds, LogAt, Alike, CountAlike, RowsAt
<1>2. ASSUME NEW order \in Orderings(Paying), merge'.rows = BorneRows,
             merge'.fresh = LogsOfRefunds(order), DOMAIN merge'.fresh = DOMAIN order
      PROVE  Groups(merge)'
  <2> DEFINE tx == merge'
  <2>1. tx.rows = BorneRows /\ tx.fresh = LogsOfRefunds(order) /\ DOMAIN tx.fresh = DOMAIN order
    BY <1>2
  <2> HIDE DEF tx
  <2>2. Groups(tx)
    BY <2>1, RefundGroups
  <2> QED
    BY <2>2 DEF tx, Groups, TxMerges, TxCovers, TxApart, TxCounts, UniqueIds, LogAt, Alike, CountAlike, RowsAt
<1> QED
  BY <1>1, <1>2, RefundsReadFields DEF BaseInv

LEMMA UpdateMerged ==
  ASSUME BaseInv, MergedInv, UpdateCreated
  PROVE  MergedInv'
<1>1. logs' = {Dated(l) : l \in logs} /\ UNCHANGED caches
  BY UpdateFacts
<1>2. \A l \in logs : Kin(l, Dated(l)) /\ Dated(l) \in logs'
  BY <1>1, DatedFacts
<1>3. \A m \in logs' : \E l \in logs : m = Dated(l) /\ Kin(l, m)
  BY <1>1, <1>2
<1>4. UniqueIds(logs')
  BY <1>3 DEF UniqueIds, BaseInv, IdsInv, LogsOk, Kin
<1>5. MergedLogs'
  <2>1. SUFFICES ASSUME NEW m \in logs', NEW n \in m.ids
                 PROVE  \E s \in {r \in caches' : r.merged} :
                          s.id = n /\ s.user = m.user /\ s.type = m.type /\ s.cost = m.cost
    BY DEF MergedLogs, Merges
  <2>2. PICK l \in logs : Kin(l, m)
    BY <1>3
  <2> QED
    BY <1>1, <2>2 DEF MergedInv, MergedLogs, Merges, Kin
<1>6. MergedRows'
  BY <1>1, <1>2 DEF MergedInv, MergedRows, Kin
<1>7. LogsApart'
  <2>1. SUFFICES ASSUME NEW l \in logs', NEW m \in logs', l.ids \cap m.ids # {}
                 PROVE  l = m \/ Split(l, m)
    BY DEF LogsApart, Split
  <2>2. PICK j \in logs : Kin(j, l)
    BY <1>3
  <2>3. PICK k \in logs : Kin(k, m)
    BY <1>3
  <2>4. j = k \/ Split(j, k)
    BY <2>1, <2>2, <2>3 DEF MergedInv, LogsApart, Kin
  <2> QED
    BY <1>4, <2>2, <2>3, <2>4 DEF Split, Kin, UniqueIds
<1>8. ASSUME NEW m \in logs', m.type = "REFUND_API_FEE"
      PROVE  CountIn(LogsAlike(m)') = CountIn(RowsOf(m)')
  <2>1. PICK l \in logs : Kin(l, m)
    BY <1>3
  <2> DEFINE S == {k \in logs : k.ids = l.ids}
             R == {k \in logs' : k.ids = m.ids}
  <2>2. m.ids = l.ids /\ l.type = "REFUND_API_FEE"
    BY <1>8, <2>1 DEF Kin
  <2>3. \A y \in R : \E x \in S : Kin(x, y)
    BY <1>3, <2>2 DEF Kin
  <2>4. \A x \in S : \E y \in R : Kin(x, y)
    BY <1>2, <2>2 DEF Kin
  <2>5. IsFiniteSet(S) /\ \A x \in S : x.count \in Int
    <3>1. S \in SUBSET logs
      OBVIOUS
    <3>2. \A x \in S : x \in FiatLog
      BY DEF BaseInv, Typed
    <3> QED
      BY <3>1, <3>2, FS_Subset DEF BaseInv, Typed, FiatLog
  <2>6. UniqueIds(S) /\ UniqueIds(R)
    BY <1>4 DEF BaseInv, IdsInv, LogsOk, UniqueIds
  <2>7. LogsAlike(m)' = R /\ RowsOf(m)' = RowsOf(l) /\ LogsAlike(l) = S
    BY <1>1, <2>2 DEF LogsAlike, RowsOf
  <2> HIDE DEF S, R
  <2>8. IdsOf(S) = IdsOf(R)
    BY <2>3, <2>4 DEF IdsOf, Kin
  <2>9. \A x \in S, y \in R : x.id = y.id => x.count = y.count
    BY <2>3, <2>6 DEF Kin, UniqueIds
  <2>10. CountIn(R) = CountIn(S)
    BY <2>5, <2>6, <2>8, <2>9, CountById
  <2>11. CountIn(LogsAlike(l)) = CountIn(RowsOf(l))
    BY <2>2 DEF MergedInv, LogCounts
  <2> QED
    BY <2>7, <2>10, <2>11
<1>9. LogCounts'
  BY <1>8 DEF LogCounts, CountIn, LogsAlike, RowsOf
<1> QED
  BY <1>5, <1>6, <1>7, <1>9 DEF MergedInv

LEMMA MInvInit ==
  ASSUME Init
  PROVE  MInv
<1>1. Clean(NoTx)
  BY NoTxFields DEF Clean, OpenTx
<1>2. Groups(post) /\ Groups(merge)
  BY <1>1, CleanGroups DEF Init
<1>3. PICK id \in [Payers -> Nat] :
           /\ \A u, v \in Payers : id[u] = id[v] => u = v
           /\ caches = {FirstRow(u, id[u]) : u \in Payers}
           /\ logs = {FirstLog(u, id[u]) : u \in Payers}
  BY FirstRows
<1>4. MergedLogs
  <2>1. SUFFICES ASSUME NEW u \in Payers, NEW n \in FirstLog(u, id[u]).ids
                 PROVE  \E r \in {s \in caches : s.merged} :
                          /\ r.id = n /\ r.user = FirstLog(u, id[u]).user
                          /\ r.type = FirstLog(u, id[u]).type /\ r.cost = FirstLog(u, id[u]).cost
    BY <1>3 DEF MergedLogs, Merges
  <2>2. n = id[u] /\ FirstRow(u, id[u]) \in caches
    BY <1>3, <2>1 DEF FirstLog
  <2> QED
    BY <2>2 DEF FirstRow, FirstLog
<1>5. MergedRows
  <2>1. SUFFICES ASSUME NEW u \in Payers PROVE \E l \in logs : FirstRow(u, id[u]).id \in l.ids
    BY <1>3 DEF MergedRows
  <2>2. FirstLog(u, id[u]) \in logs
    BY <1>3
  <2> QED
    BY <2>2 DEF FirstRow, FirstLog
<1>6. LogsApart
  <2>1. SUFFICES ASSUME NEW u \in Payers, NEW v \in Payers,
                        FirstLog(u, id[u]).ids \cap FirstLog(v, id[v]).ids # {}
                 PROVE  u = v
    BY <1>3 DEF LogsApart
  <2>2. FirstLog(u, id[u]).ids = {id[u]} /\ FirstLog(v, id[v]).ids = {id[v]}
    BY DEF FirstLog
  <2> QED
    BY <1>3, <2>1, <2>2
<1>7. LogCounts
  BY <1>3 DEF LogCounts, FirstLog
<1> QED
  BY <1>2, <1>4, <1>5, <1>6, <1>7 DEF MInv, MergedInv

LEMMA MInvStep ==
  ASSUME BaseInv, AliveInv, MInv, [Next]_vars
  PROVE  MInv'
<1> USE DEF MInv
<1> DEFINE p1 == post'
           m1 == merge'
<1>a. (Groups(p1) => Groups(post)') /\ (Groups(m1) => Groups(merge)')
  BY DEF Groups, TxMerges, TxCovers, TxApart, TxCounts, UniqueIds, LogAt, Alike, CountAlike, RowsAt
<1> HIDE DEF p1, m1
<1>b. \A tx \in {p1, m1} : Clean(tx) => Groups(tx)
  BY CleanGroups
<1>c. \A old \in {post, merge}, new \in {p1, m1} :
        new.rows = old.rows /\ new.fresh = old.fresh /\ Groups(old) => Groups(new)
  BY KeptGroups
<1>d. UNCHANGED post => Groups(post)'
  BY <1>a, <1>c DEF p1
<1>e. UNCHANGED merge => Groups(merge)'
  BY <1>a, <1>c DEF m1
<1>1. CASE Quiet
  <2>1. Groups(post)'
    BY <1>1, <1>a, <1>b, <1>c DEF Quiet, Keeps, p1
  <2>2. Groups(merge)'
    BY <1>1, <1>a, <1>b, <1>c DEF Quiet, Keeps, m1
  <2> QED
    BY <1>1, <2>1, <2>2, MergedSame DEF Quiet
<1>2. ASSUME NEW p \in Postings, PostApi(p) PROVE MInv'
  BY <1>2, <1>d, <1>e, MergedApi DEF PostApi
<1>3. ASSUME NEW p \in Postings, PostBegin(p) PROVE MInv'
  <2>1. UNCHANGED <<caches, logs, merge>>
    BY <1>3 DEF PostBegin, tables
  <2> QED
    BY <1>3, <1>e, <2>1, PostBeginGroups, MergedSame
<1>4. CASE PostCommit
  <2>1. /\ post.pc = "inserted" /\ WriteLogs(post) /\ UNCHANGED <<merge, day>>
        /\ post' = [post EXCEPT !.pc = "logged"] \/ post' = NoTx
    BY <1>4, PostCommits DEF BaseInv
  <2>2. Ready(post, {"BUY_GAS", "BUY_STORAGE"})
    BY <2>1, ReadyPost
  <2>3. MergedInv'
    BY <2>2, CommitMerged DEF BaseInv, IdsInv
  <2>4. Groups(post)'
    <3>1. CASE post' = NoTx
      BY <1>a, <1>b, <3>1, CleanClosed DEF p1
    <3>2. CASE post' = [post EXCEPT !.pc = "logged"]
      <4>1. post'.fresh = post.fresh /\ post'.rows = post.rows
        BY <3>2 DEF BaseInv, Typed, TxTyped, Tx
      <4> QED
        BY <1>a, <1>c, <4>1 DEF p1
    <3> QED
      BY <2>1, <3>1, <3>2
  <2> QED
    BY <1>e, <2>1, <2>3, <2>4
<1>5. CASE MergeCommit
  <2>1. /\ merge.pc = "inserted" /\ WriteLogs(merge) /\ UNCHANGED <<post, day>>
        /\ merge' = NoTx \/ \E n \in Nat : merge' = Ended(n)
    BY <1>5, MergeCommits DEF BaseInv
  <2>2. Ready(merge, {"PAY_API_FEE"})
    BY <2>1, ReadyMerge
  <2>3. MergedInv'
    BY <2>2, CommitMerged DEF BaseInv, IdsInv
  <2>4. Groups(merge)'
    BY <1>a, <1>b, <2>1, CleanClosed DEF m1
  <2> QED
    BY <1>d, <2>1, <2>3, <2>4
<1>6. ASSUME NEW u \in User, MergeRead(u) PROVE MInv'
  <2>1. UNCHANGED <<caches, logs, post>>
    BY <1>6 DEF MergeRead, tables
  <2> QED
    BY <1>6, <1>d, <2>1, MergeReadGroups, MergedSame
<1>7. CASE RefundsRead
  <2>1. UNCHANGED <<caches, logs, post>>
    BY <1>7 DEF RefundsRead, tables
  <2>2. Groups(merge)'
    BY <1>7, RefundsReadGroups DEF AliveInv
  <2> QED
    BY <1>d, <2>1, <2>2, MergedSame
<1>8. CASE UpdateCreated
  <2>1. UNCHANGED <<post, merge>>
    BY <1>8, UpdateFacts
  <2> QED
    BY <1>8, <1>d, <1>e, <2>1, UpdateMerged
<1> QED
  BY <1>1, <1>2, <1>3, <1>4, <1>5, <1>6, <1>7, <1>8, StepCases

(* fiat_log_cache.go:192-206: no payment, in the table or about to be saved, shows more
   calls refunded than were paid. *)
THEOREM NeverOver == Spec => []AliveInv
<1>1. Init => AliveInv
  BY AliveInit
<1>2. BaseInv /\ AliveInv /\ [Next]_vars => AliveInv'
  BY AliveStep
<1> QED
  BY <1>1, <1>2, BaseInvariant, PTL DEF Spec

(* fiat_log_cache.go:39-61 and 299-382: whatever fails and is begun anew, for any
   users, postings and pages: a row is marked as merged exactly if it is in the logs,
   in one log of its user, type and cost type; the parts of a refund make up the
   counts of its rows. *)
THEOREM RowsMergedOnce == Spec => []MergedOnce
<1>1. Init => MInv
  BY MInvInit
<1>2. BaseInv /\ AliveInv /\ MInv /\ [Next]_vars => MInv'
  BY MInvStep
<1>3. BaseInv /\ MInv => MergedOnce
  BY MInvMergedOnce DEF BaseInv, IdsInv, MInv
<1> QED
  BY <1>1, <1>2, <1>3, BaseInvariant, NeverOver, PTL DEF Spec
-----------------------------------------------------------------------------
(* Refunds: the refunds a log lists are in the logs; those of a payment make up what
   it shows as refunded; a refund of API fees is listed by one log, a payment of its
   user and cost type.  A transaction that saves payments adds to each what its own
   refund says. *)
RefundsOf(l) == {m \in logs : m.id \in l.refunds}
Listed == \A l \in logs : l.refunds \subseteq IdsOf(logs)
Counted == \A l \in logs : l.type = "PAY_API_FEE" => l.refunded = CountIn(RefundsOf(l))
PaidBackBy(l, m) == m.id \in l.refunds /\ l.user = m.user /\ l.cost = m.cost
ListedOnce ==
  \A m \in logs : m.type = "REFUND_API_FEE" =>
    /\ \E l \in logs : PaidBackBy(l, m)
    /\ \A k, l \in logs : m.id \in k.refunds /\ m.id \in l.refunds => k = l
RefundInv == Listed /\ Counted /\ ListedOnce

FreshRefunds(tx) ==
  \A i \in DOMAIN tx.fresh : LogAt(tx, i).type = "REFUND_API_FEE" =>
    \E q \in tx.pays : /\ tx.fresh[i].refundOf = {q.id}
                       /\ q.user = LogAt(tx, i).user /\ q.cost = LogAt(tx, i).cost
RefundsApart(tx) ==
  \A i, j \in DOMAIN tx.fresh : tx.fresh[i].refundOf \cap tx.fresh[j].refundOf # {} => i = j
Kept(tx, q, l) == q.refunded = l.refunded /\ \A i \in DOMAIN tx.fresh : q.id \notin tx.fresh[i].refundOf
Added(tx, q, l) ==
  \E i \in DOMAIN tx.fresh : q.id \in tx.fresh[i].refundOf /\ q.refunded = l.refunded + LogAt(tx, i).count
PaysAdded(tx) ==
  \A q \in tx.pays, l \in logs : q.type = "PAY_API_FEE" /\ l.id = q.id => Kept(tx, q, l) \/ Added(tx, q, l)
TxRefunds(tx) == FreshRefunds(tx) /\ RefundsApart(tx) /\ PaysAdded(tx)
RInv == RefundInv /\ (OpenTx(merge) => TxRefunds(merge))

LEMMA RInvMatched ==
  ASSUME RefundInv, NotOver
  PROVE  RefundsMatched
<1>1. ASSUME NEW l \in logs, l.type = "PAY_API_FEE"
      PROVE  l.refunded = CountIn({m \in logs : m.id \in l.refunds}) /\ l.refunded <= l.count
  BY <1>1 DEF RefundInv, Counted, RefundsOf, NotOver
<1>2. ASSUME NEW m \in logs, m.type = "REFUND_API_FEE"
      PROVE  Cardinality({l \in logs : m.id \in l.refunds /\ l.user = m.user /\ l.cost = m.cost}) = 1
  <2>1. PICK k \in logs : PaidBackBy(k, m)
    BY <1>2 DEF RefundInv, ListedOnce
  <2>2. {l \in logs : m.id \in l.refunds /\ l.user = m.user /\ l.cost = m.cost} = {k}
    BY <1>2, <2>1 DEF RefundInv, ListedOnce, PaidBackBy
  <2> QED
    BY <2>2, FS_Singleton
<1> QED
  BY <1>1, <1>2 DEF RefundsMatched

LEMMA PostRefunds ==
  ASSUME BaseInv, post.pc = "inserted"
  PROVE  TxRefunds(post)
<1>1. Len(post.fresh) = 1 /\ LogAt(post, 1).type \in Copied
  BY DEF BaseInv, OpenInv, PostRow, OpenTx
<1>2. DOMAIN post.fresh = {1}
  <2>1. DOMAIN post.fresh = 1 .. Len(post.fresh)
    BY TxFields DEF BaseInv, Typed
  <2> QED
    BY <1>1, <2>1
<1>3. \A q \in post.pays : q.type # "PAY_API_FEE"
  BY DEF BaseInv, OpenInv, PostPays, PaysOk, OpenTx
<1> QED
  BY <1>1, <1>2, <1>3 DEF TxRefunds, FreshRefunds, RefundsApart, PaysAdded, Copied

(* The logs after a commit: each is new, or was there and its refunds are as they were
   or got new ones. *)
LEMMA RefundsAfter ==
  ASSUME Typed, LogsOk, NEW tx, NEW types, Ready(tx, types), Blank(tx), Listed, NEW m \in logs'
  PROVE  \/ \E i \in DOMAIN tx.fresh : /\ m = InsertedAt(tx, i) /\ m.refunds = {} /\ m.refunded = 0
                                       /\ m.id \notin IdsOf(logs)
         \/ m \in logs /\ m.id \notin IdsOf(tx.pays)
         \/ \E q \in tx.pays, l \in logs :
              /\ m = SavedOf(tx, q) /\ Kin(l, m) /\ l.id = q.id /\ m.refunded = q.refunded
              /\ q.type = m.type /\ q.user = m.user /\ q.cost = m.cost
              /\ m.refunds = l.refunds \cup NewRefunds(tx, q)
<1> USE DEF Ready
<1>1. CASE \E i \in DOMAIN tx.fresh : m = InsertedAt(tx, i)
  <2>1. PICK i \in DOMAIN tx.fresh : m = InsertedAt(tx, i)
    BY <1>1
  <2>2. m.refunded = LogAt(tx, i).refunded
    BY <2>1, InsertedType DEF Typed
  <2>3. m.refunds = LogAt(tx, i).refunds
    BY <2>1, InsertedType DEF Typed
  <2>4. m.id = tx.first + i
    BY <2>1, InsertedType DEF Typed
  <2>5. m.id \notin IdsOf(logs)
    BY <2>4 DEF Drawn, IdsOf
  <2> QED
    BY <2>1, <2>2, <2>3, <2>5 DEF Blank
<1>2. CASE \E q \in tx.pays : m = SavedOf(tx, q)
  <2>1. PICK q \in tx.pays : m = SavedOf(tx, q)
    BY <1>2
  <2>2. Kin(q, m) /\ m.refunded = q.refunded /\ m.refunds = q.refunds \cup NewRefunds(tx, q)
    BY <2>1, SavedType
  <2>3. PICK l \in logs : Kin(l, q) /\ l.refunds = q.refunds
    BY DEF PaysOk, OpenTx
  <2>4. /\ Kin(l, m) /\ l.id = q.id /\ q.type = m.type /\ q.user = m.user /\ q.cost = m.cost
        /\ m.refunds = l.refunds \cup NewRefunds(tx, q)
    BY <2>2, <2>3 DEF Kin
  <2> QED
    BY <2>1, <2>2, <2>4
<1> QED
  BY <1>1, <1>2, CommitLogs

LEMMA NewRefundsFacts ==
  ASSUME Typed, LogsOk, NEW tx, NEW types, Ready(tx, types), NEW q
  PROVE  /\ \A n \in NewRefunds(tx, q) : n \notin IdsOf(logs) /\ n \in IdsOf(logs')
         /\ \A i \in DOMAIN tx.fresh :
              tx.first + i \in NewRefunds(tx, q) <=> q.id \in tx.fresh[i].refundOf
<1>1. /\ tx.first \in Nat /\ \A i \in DOMAIN tx.fresh : i \in Nat
      /\ \A i \in DOMAIN tx.fresh : InsertedAt(tx, i) \in logs' /\ InsertedAt(tx, i).id = tx.first + i
  BY CommitOrigins
<1>2. \A n \in NewRefunds(tx, q) : \E i \in DOMAIN tx.fresh : n = tx.first + i /\ q.id \in tx.fresh[i].refundOf
  BY DEF NewRefunds
<1>3. ASSUME NEW n \in NewRefunds(tx, q) PROVE n \notin IdsOf(logs) /\ n \in IdsOf(logs')
  <2>1. PICK i \in DOMAIN tx.fresh : n = tx.first + i
    BY <1>2
  <2>2. n \notin IdsOf(logs)
    BY <2>1 DEF Ready, Drawn, IdsOf
  <2>3. n \in IdsOf(logs')
    BY <1>1, <2>1 DEF IdsOf
  <2> QED
    BY <2>2, <2>3
<1>4. ASSUME NEW i \in DOMAIN tx.fresh
      PROVE  tx.first + i \in NewRefunds(tx, q) <=> q.id \in tx.fresh[i].refundOf
  <2>1. ASSUME tx.first + i \in NewRefunds(tx, q) PROVE q.id \in tx.fresh[i].refundOf
    <3>1. PICK j \in DOMAIN tx.fresh : tx.first + i = tx.first + j /\ q.id \in tx.fresh[j].refundOf
      BY <1>2, <2>1
    <3>2. i = j
      BY <1>1, <3>1
    <3> QED
      BY <3>1, <3>2
  <2>2. q.id \in tx.fresh[i].refundOf => tx.first + i \in NewRefunds(tx, q)
    BY DEF NewRefunds
  <2> QED
    BY <2>1, <2>2
<1> QED
  BY <1>3, <1>4

LEMMA CommitListed ==
  ASSUME Typed, LogsOk, NEW tx, NEW types, Ready(tx, types), Blank(tx), Listed
  PROVE  Listed' /\ IdsOf(logs) \subseteq IdsOf(logs')
<1>1. IdsOf(logs) \subseteq IdsOf(logs')
  <2>1. \A l \in logs : \E m \in logs' : Kin(l, m)
    BY CommitOrigins
  <2> QED
    BY <2>1 DEF IdsOf, Kin
<1>2. ASSUME NEW m \in logs' PROVE m.refunds \subseteq IdsOf(logs')
  <2>1. CASE m.refunds = {}
    BY <2>1
  <2>2. CASE m \in logs
    BY <1>1, <2>2 DEF Listed
  <2>3. CASE \E q \in tx.pays, l \in logs : m.refunds = l.refunds \cup NewRefunds(tx, q)
    <3>1. PICK q \in tx.pays, l \in logs : m.refunds = l.refunds \cup NewRefunds(tx, q)
      BY <2>3
    <3>2. \A n \in NewRefunds(tx, q) : n \in IdsOf(logs')
      BY NewRefundsFacts
    <3> QED
      BY <1>1, <3>1, <3>2 DEF Listed
  <2> QED
    BY <2>1, <2>2, <2>3, RefundsAfter
<1>3. Listed'
  BY <1>2 DEF Listed, IdsOf
<1> QED
  BY <1>1, <1>3

(* Logs by their ids, before and after. *)
LEMMA CountsStay ==
  ASSUME Typed, LogsOk, NEW tx, NEW types, Ready(tx, types), NEW ids, ids \subseteq IdsOf(logs)
  PROVE  LET S == {k \in logs : k.id \in ids}
             R == {k \in logs' : k.id \in ids}
         IN IsFiniteSet(R) /\ CountIn(R) = CountIn(S) /\ IsFiniteSet(S)
<1> DEFINE S == {k \in logs : k.id \in ids}
           R == {k \in logs' : k.id \in ids}
<1>1. UniqueIds(logs') /\ \A l \in logs : \E m \in logs' : Kin(l, m)
  BY CommitOrigins
<1>2. \A x \in S : \E y \in R : Kin(x, y)
  BY <1>1 DEF Kin
<1>3. \A y \in R : \E x \in S : Kin(x, y)
  <2> TAKE y \in R
  <2>1. PICK x \in logs : x.id = y.id
    BY DEF IdsOf
  <2>2. PICK z \in logs' : Kin(x, z)
    BY <1>1
  <2>3. z = y
    <3>1. y \in logs' /\ z \in logs' /\ z.id = y.id
      BY <2>1, <2>2 DEF Kin
    <3> HIDE DEF R, S
    <3> QED
      BY <1>1, <3>1 DEF UniqueIds
  <2> QED
    BY <2>1, <2>2, <2>3
<1>4. IsFiniteSet(S) /\ \A x \in S : x.count \in Int
  <2>1. S \in SUBSET logs
    OBVIOUS
  <2>2. \A x \in S : x \in FiatLog
    BY DEF Typed
  <2> QED
    BY <2>1, <2>2, FS_Subset DEF Typed, FiatLog
<1>5. UniqueIds(S) /\ UniqueIds(R)
  BY <1>1 DEF LogsOk, UniqueIds
<1> HIDE DEF S, R
<1>6. IdsOf(S) = IdsOf(R)
  BY <1>2, <1>3 DEF IdsOf, Kin
<1>7. \A x \in S, y \in R : x.id = y.id => x.count = y.count
  BY <1>3, <1>5 DEF Kin, UniqueIds
<1>8. IsFiniteSet(R) /\ CountIn(R) = CountIn(S)
  BY <1>4, <1>5, <1>6, <1>7, CountById
<1> QED
  BY <1>4, <1>8 DEF S, R

LEMMA CommitCounted ==
  ASSUME Typed, LogsOk, NEW tx, NEW types, Ready(tx, types), Blank(tx), TxRefunds(tx),
         Listed, Counted
  PROVE  Counted'
<1>1. SUFFICES ASSUME NEW m \in logs', m.type = "PAY_API_FEE"
               PROVE  m.refunded = CountIn({k \in logs' : k.id \in m.refunds})
  BY DEF Counted, RefundsOf, CountIn
<1>2. CASE m.refunds = {} /\ m.refunded = 0
  <2>1. {k \in logs' : k.id \in m.refunds} = {}
    BY <1>2
  <2> QED
    BY <1>2, <2>1, CountNone
<1>3. ASSUME m.refunds \subseteq IdsOf(logs), NEW l \in logs, l.type = "PAY_API_FEE",
             m.refunds = l.refunds, m.refunded = l.refunded
      PROVE  m.refunded = CountIn({k \in logs' : k.id \in m.refunds})
  <2>1. PICK ids : ids = m.refunds
    OBVIOUS
  <2>2. CountIn({k \in logs' : k.id \in ids}) = CountIn({k \in logs : k.id \in ids})
    BY <1>3, <2>1, CountsStay
  <2>3. l.refunded = CountIn({k \in logs : k.id \in ids})
    BY <1>3, <2>1 DEF Counted, RefundsOf
  <2> QED
    BY <1>3, <2>1, <2>2, <2>3
<1>4. CASE m \in logs
  BY <1>1, <1>3, <1>4 DEF Listed
<1>5. ASSUME NEW q \in tx.pays, NEW l \in logs, Kin(l, m), l.id = q.id, m.refunded = q.refunded,
             q.type = m.type, m.refunds = l.refunds \cup NewRefunds(tx, q)
      PROVE  m.refunded = CountIn({k \in logs' : k.id \in m.refunds})
  <2>1. l.type = "PAY_API_FEE"
    BY <1>1, <1>5 DEF Kin
  <2>2. Kept(tx, q, l) \/ Added(tx, q, l)
    BY <1>1, <1>5 DEF TxRefunds, PaysAdded
  <2>3. CASE Kept(tx, q, l)
    <3>1. NewRefunds(tx, q) = {}
      BY <2>3 DEF Kept, NewRefunds
    <3>2. m.refunds = l.refunds /\ m.refunded = l.refunded
      BY <1>5, <2>3, <3>1 DEF Kept
    <3> QED
      BY <1>3, <2>1, <3>2 DEF Listed
  <2>4. CASE Added(tx, q, l)
    <3>1. PICK i \in DOMAIN tx.fresh :
             q.id \in tx.fresh[i].refundOf /\ q.refunded = l.refunded + LogAt(tx, i).count
      BY <2>4 DEF Added
    <3>2. NewRefunds(tx, q) = {tx.first + i}
      <4>1. \A j \in DOMAIN tx.fresh : q.id \in tx.fresh[j].refundOf => j = i
        BY <3>1 DEF TxRefunds, RefundsApart
      <4> QED
        BY <3>1, <4>1 DEF NewRefunds
    <3> DEFINE new == InsertedAt(tx, i)
               R == {k \in logs' : k.id \in l.refunds}
    <3>3. /\ new \in logs' /\ new.id = tx.first + i /\ new.count = LogAt(tx, i).count
          /\ UniqueIds(logs') /\ logs' \subseteq FiatLog
      BY CommitOrigins
    <3>4. new.id \notin IdsOf(logs)
      <4>1. \A n \in NewRefunds(tx, q) : n \notin IdsOf(logs)
        BY NewRefundsFacts
      <4> QED
        BY <3>2, <3>3, <4>1
    <3>5. l.refunds \subseteq IdsOf(logs)
      BY DEF Listed
    <3>6. {k \in logs' : k.id \in m.refunds} = R \cup {new}
      BY <1>5, <3>2, <3>3 DEF UniqueIds
    <3>7. R \cap {new} = {}
      BY <3>4, <3>5
    <3>8. IsFiniteSet(R) /\ CountIn(R) = l.refunded
      <4>1. PICK ids : ids = l.refunds
        OBVIOUS
      <4>2. /\ IsFiniteSet({k \in logs' : k.id \in ids})
            /\ CountIn({k \in logs' : k.id \in ids}) = CountIn({k \in logs : k.id \in ids})
        BY <3>5, <4>1, CountsStay
      <4>3. l.refunded = CountIn({k \in logs : k.id \in ids})
        BY <2>1, <4>1 DEF Counted, RefundsOf
      <4> QED
        BY <4>1, <4>2, <4>3
    <3>9. new.count \in Int /\ \A k \in R \cup {new} : k.count \in Int
      BY <3>3 DEF FiatLog
    <3> HIDE DEF R, new
    <3>10. CountIn(R \cup {new}) = CountIn(R) + CountIn({new})
      <4>1. IsFiniteSet({new})
        BY FS_Singleton
      <4> QED
        BY <3>7, <3>8, <3>9, <4>1, CountUnion
    <3>11. CountIn({new}) = new.count
      BY <3>9, CountOne
    <3> QED
      BY <1>5, <3>1, <3>3, <3>6, <3>8, <3>10, <3>11
  <2> QED
    BY <2>2, <2>3, <2>4
<1> QED
  BY <1>2, <1>4, <1>5, RefundsAfter

LEMMA CommitListedOnce ==
  ASSUME Typed, LogsOk, NEW tx, NEW types, Ready(tx, types), Blank(tx), TxRefunds(tx),
         Listed, ListedOnce
  PROVE  ListedOnce'
<1>1. SUFFICES ASSUME NEW m \in logs', m.type = "REFUND_API_FEE"
               PROVE  /\ \E l \in logs' : PaidBackBy(l, m)
                      /\ \A k, l \in logs' : m.id \in k.refunds /\ m.id \in l.refunds => k = l
  BY DEF ListedOnce, PaidBackBy
<1>2. UniqueIds(logs') /\ \A q \in tx.pays : SavedOf(tx, q) \in logs'
  BY CommitLogs DEF Ready
<1>3. CASE \E i \in DOMAIN tx.fresh : m = InsertedAt(tx, i)
  <2>1. PICK i \in DOMAIN tx.fresh : m = InsertedAt(tx, i)
    BY <1>3
  <2>2. /\ m.id = tx.first + i /\ m.type = LogAt(tx, i).type /\ m.user = LogAt(tx, i).user
        /\ m.cost = LogAt(tx, i).cost
    BY <2>1, CommitOrigins
  <2>3. PICK q \in tx.pays : /\ tx.fresh[i].refundOf = {q.id}
                             /\ q.user = LogAt(tx, i).user /\ q.cost = LogAt(tx, i).cost
    BY <1>1, <2>2 DEF TxRefunds, FreshRefunds
  <2>4. m.id \in NewRefunds(tx, q)
    BY <2>2, <2>3, NewRefundsFacts
  <2>5. m.id \notin IdsOf(logs)
    BY <2>4, NewRefundsFacts
  <2>6. PaidBackBy(SavedOf(tx, q), m)
    <3>1. Kin(q, SavedOf(tx, q)) /\ SavedOf(tx, q).refunds = q.refunds \cup NewRefunds(tx, q)
      BY SavedType DEF Ready
    <3> QED
      BY <2>2, <2>3, <2>4, <3>1 DEF PaidBackBy, Kin
  <2>7. ASSUME NEW l \in logs', m.id \in l.refunds PROVE l.id = q.id
    <3>1. CASE l.refunds = {} \/ l \in logs
      BY <2>5, <2>7, <3>1 DEF Listed
    <3>2. ASSUME NEW p \in tx.pays, NEW k \in logs, Kin(k, l), k.id = p.id,
                 l.refunds = k.refunds \cup NewRefunds(tx, p)
          PROVE  l.id = q.id
      <4>1. m.id \in NewRefunds(tx, p)
        BY <2>5, <2>7, <3>2 DEF Listed
      <4>2. p.id \in tx.fresh[i].refundOf
        BY <2>2, <4>1, NewRefundsFacts
      <4> QED
        BY <2>3, <3>2, <4>2 DEF Kin
    <3> QED
      BY <3>1, <3>2, RefundsAfter
  <2> QED
    BY <1>2, <2>6, <2>7 DEF UniqueIds
<1>4. CASE \E l \in logs : Kin(l, m)
  <2>1. PICK n \in logs : Kin(n, m)
    BY <1>4
  <2>2. m.id \in IdsOf(logs) /\ n.type = "REFUND_API_FEE" /\ n.id = m.id
    BY <1>1, <2>1 DEF IdsOf, Kin
  <2>3. PICK k \in logs : PaidBackBy(k, n)
    BY <2>2 DEF ListedOnce
  <2>4. \A l \in logs : m.id \in l.refunds => l = k
    BY <2>2, <2>3 DEF ListedOnce, PaidBackBy
  <2>5. \A q \in tx.pays : m.id \notin NewRefunds(tx, q)
    BY <2>2, NewRefundsFacts
  <2>6. ASSUME NEW l \in logs', m.id \in l.refunds PROVE l.id = k.id
    <3>1. CASE l.refunds = {} \/ l \in logs
      BY <2>4, <2>6, <3>1
    <3>2. ASSUME NEW p \in tx.pays, NEW j \in logs, Kin(j, l),
                 l.refunds = j.refunds \cup NewRefunds(tx, p)
          PROVE  l.id = k.id
      <4>1. m.id \in j.refunds
        BY <2>5, <2>6, <3>2
      <4> QED
        BY <2>4, <3>2, <4>1 DEF Kin
    <3> QED
      BY <3>1, <3>2, RefundsAfter
  <2>7. \E l \in logs' : PaidBackBy(l, m)
    <3>1. PICK l \in logs' : Kin(k, l)
      BY CommitOrigins
    <3>2. m.id \in k.refunds /\ k.user = m.user /\ k.cost = m.cost
      BY <2>1, <2>3 DEF PaidBackBy, Kin
    <3>3. k.refunds \subseteq l.refunds
      <4>1. CASE l \in logs
        <5>1. l = k
          BY <3>1, <4>1 DEF LogsOk, UniqueIds, Kin
        <5> QED
          BY <5>1
      <4>2. CASE l.id \notin IdsOf(logs)
        BY <3>1, <4>2 DEF IdsOf, Kin
      <4>3. ASSUME NEW p \in tx.pays, NEW j \in logs, Kin(j, l),
                   l.refunds = j.refunds \cup NewRefunds(tx, p)
            PROVE  k.refunds \subseteq l.refunds
        <5>1. j = k
          BY <3>1, <4>3 DEF LogsOk, UniqueIds, Kin
        <5> QED
          BY <4>3, <5>1
      <4> QED
        BY <4>1, <4>2, <4>3, RefundsAfter
    <3> QED
      BY <3>1, <3>2, <3>3 DEF PaidBackBy, Kin
  <2> QED
    BY <1>2, <2>6, <2>7 DEF UniqueIds
<1> QED
  BY <1>3, <1>4, CommitOrigins

LEMMA RefundsReadRefunds ==
  ASSUME BaseInv, AliveInv, NEW order \in Orderings(Paying), NEW tx,
         tx.pays = {Shared(l) : l \in Bearing},
         tx.fresh = LogsOfRefunds(order), DOMAIN tx.fresh = DOMAIN order
  PROVE  TxRefunds(tx)
<1>1. /\ \A i \in DOMAIN order : order[i] \in Paying
      /\ \A i, j \in DOMAIN order : order[i] = order[j] => i = j
      /\ \A l \in Paying : \E i \in DOMAIN order : order[i] = l
  BY PayingOrder DEF BaseInv
<1>2. ASSUME NEW i \in DOMAIN order
      PROVE  /\ LogAt(tx, i).user = order[i].user /\ LogAt(tx, i).cost = order[i].cost
             /\ LogAt(tx, i).count = Share(order[i]) /\ tx.fresh[i].refundOf = {order[i].id}
  <2>1. order[i] \in Paying /\ Typed /\ RowsOk
    BY <1>1 DEF BaseInv
  <2>2. LogsOfRefunds(order)[i].log.user = order[i].user
    BY <2>1, RefundLog
  <2>3. LogsOfRefunds(order)[i].log.cost = order[i].cost
    BY <2>1, RefundLog
  <2>4. LogsOfRefunds(order)[i].refundOf = {order[i].id}
    BY <2>1, RefundLog
  <2>5. LogsOfRefunds(order)[i].log.count = Share(order[i])
    BY <2>1, RefundLog
  <2> QED
    BY <2>2, <2>3, <2>4, <2>5 DEF LogAt
<1>3. ASSUME NEW l \in Bearing
      PROVE  /\ l \in logs /\ l.type = "PAY_API_FEE" /\ Share(l) \in Nat
             /\ Shared(l).id = l.id /\ Shared(l).user = l.user /\ Shared(l).cost = l.cost
             /\ Shared(l).refunded = l.refunded + Share(l)
  <2>1. l \in logs /\ l.type = "PAY_API_FEE" /\ Borne(l) /\ l \in PaysOf(l.user, l.cost)
    BY BearingFacts DEF BaseInv
  <2>2. \A p \in PaysOf(l.user, l.cost) : Share(p) \in Nat
    BY <2>1, SharesOfAll DEF BaseInv, IdsInv, AliveInv
  <2>3. l \in FiatLog
    BY <2>1 DEF BaseInv, Typed
  <2>4. /\ Shared(l).id = l.id /\ Shared(l).user = l.user /\ Shared(l).cost = l.cost
        /\ Shared(l).refunded = l.refunded + Share(l)
    BY <2>3 DEF Shared, FiatLog
  <2> QED
    BY <2>1, <2>2, <2>4
<1>4. Paying \subseteq Bearing
  BY DEF Paying
<1>5. UniqueIds(logs)
  BY DEF BaseInv, IdsInv, LogsOk
<1>6. FreshRefunds(tx)
  <2>1. SUFFICES ASSUME NEW i \in DOMAIN order
                 PROVE  \E q \in tx.pays : /\ tx.fresh[i].refundOf = {q.id}
                                           /\ q.user = LogAt(tx, i).user /\ q.cost = LogAt(tx, i).cost
    BY DEF FreshRefunds
  <2>2. order[i] \in Bearing
    BY <1>1, <1>4
  <2>3. Shared(order[i]) \in tx.pays
    BY <2>2
  <2> QED
    BY <1>2, <1>3, <2>2, <2>3
<1>7. RefundsApart(tx)
  <2>1. SUFFICES ASSUME NEW i \in DOMAIN order, NEW j \in DOMAIN order, order[i].id = order[j].id
                 PROVE  i = j
    BY <1>2 DEF RefundsApart
  <2>2. order[i] \in logs /\ order[j] \in logs
    BY <1>1, <1>3, <1>4
  <2> QED
    BY <1>1, <1>5, <2>1, <2>2 DEF UniqueIds
<1>8. PaysAdded(tx)
  <2>1. SUFFICES ASSUME NEW q \in tx.pays, NEW l \in logs, l.id = q.id
                 PROVE  Kept(tx, q, l) \/ Added(tx, q, l)
    BY DEF PaysAdded
  <2>2. PICK p \in Bearing : q = Shared(p)
    OBVIOUS
  <2>3. p = l
    BY <1>3, <1>5, <2>1, <2>2 DEF UniqueIds
  <2>4. q.id = l.id /\ q.refunded = l.refunded + Share(l) /\ Share(l) \in Nat
    BY <1>3, <2>2, <2>3
  <2>5. CASE l \in Paying
    <3>1. PICK i \in DOMAIN order : order[i] = l
      BY <1>1, <2>5
    <3> QED
      BY <1>2, <2>4, <3>1 DEF Added
  <2>6. CASE l \notin Paying
    <3>1. Share(l) = 0
      BY <2>2, <2>3, <2>4, <2>6 DEF Paying
    <3>2. l.refunded \in Int
      BY DEF BaseInv, Typed, FiatLog
    <3>3. \A i \in DOMAIN order : order[i].id # l.id
      <4>1. \A i \in DOMAIN order : order[i] \in logs /\ order[i] # l
        BY <1>1, <1>3, <1>4, <2>6
      <4> QED
        BY <1>5, <4>1 DEF UniqueIds
    <3> QED
      BY <1>2, <2>4, <3>1, <3>2, <3>3 DEF Kept
  <2> QED
    BY <2>5, <2>6
<1> QED
  BY <1>6, <1>7, <1>8 DEF TxRefunds

LEMMA MergeReadRefunds ==
  ASSUME BaseInv, NEW u \in User, MergeRead(u)
  PROVE  TxRefunds(merge)'
<1>1. PICK rows, order :
           /\ rows \in SUBSET caches
           /\ Grouped(u, TypeDue, rows, order)
           /\ merge'.pc = "read" /\ merge'.rows = rows
           /\ merge'.fresh = LogsOfGroups(u, rows, order) /\ merge'.pays = merge.pays
           /\ merge.pc = "next" /\ DOMAIN merge'.fresh = DOMAIN order
           /\ UNCHANGED <<caches, logs, lastLogId, balance, balanceOnFiatlog, day, post, faults, astray>>
  BY MergeReadFields DEF BaseInv
<1>2. PICK t \in MergeableTypes : t = TypeDue
  BY TypeDueType DEF MergeRead
<1>3. Grouped(u, t, rows, order) /\ rows \in SUBSET caches
  BY <1>1, <1>2
<1>4. \A i \in DOMAIN order : /\ LogsOfGroups(u, rows, order)[i].log.type = t
                              /\ LogsOfGroups(u, rows, order)[i].refundOf = {}
  <2> TAKE i \in DOMAIN order
  <2>1. /\ LogsOfGroups(u, rows, order)[i].log.ids = IdsOf(GroupAt(rows, order, i))
        /\ LogsOfGroups(u, rows, order)[i].log.user = u
        /\ LogsOfGroups(u, rows, order)[i].log.type = t
        /\ LogsOfGroups(u, rows, order)[i].log.cost = order[i]
    BY <1>3, GroupOf DEF BaseInv
  <2>2. LogsOfGroups(u, rows, order)[i].refundOf = {}
    BY DEF LogsOfGroups, LogOfGroup, Fresh
  <2> QED
    BY <2>1, <2>2
<1>5. merge'.pays = {}
  BY <1>1 DEF BaseInv, OpenInv, NextClean
<1>6. t # "REFUND_API_FEE"
  BY <1>2 DEF MergeableTypes
<1> QED
  BY <1>1, <1>4, <1>5, <1>6 DEF TxRefunds, FreshRefunds, RefundsApart, PaysAdded, LogAt

LEMMA CommitRefunds ==
  ASSUME Typed, LogsOk, NEW tx, NEW types, Ready(tx, types), Blank(tx), TxRefunds(tx), RefundInv
  PROVE  RefundInv'
BY CommitListed, CommitCounted, CommitListedOnce DEF RefundInv

LEMMA UpdateRefunds ==
  ASSUME BaseInv, RefundInv, UpdateCreated
  PROVE  RefundInv'
<1>1. logs' = {Dated(l) : l \in logs}
  BY UpdateFacts
<1>2. \A l \in logs : /\ Kin(l, Dated(l)) /\ Dated(l) \in logs'
                      /\ Dated(l).refunds = l.refunds /\ Dated(l).refunded = l.refunded
  BY <1>1, DatedFacts
<1>3. \A m \in logs' : \E l \in logs : Kin(l, m) /\ m.refunds = l.refunds /\ m.refunded = l.refunded
  BY <1>1, <1>2
<1>4. UniqueIds(logs') /\ UniqueIds(logs)
  <2>1. UniqueIds(logs)
    BY DEF BaseInv, IdsInv, LogsOk
  <2>2. \A l, m \in logs : Dated(l).id = Dated(m).id => l = m
    BY <1>2, <2>1 DEF UniqueIds, Kin
  <2>3. UniqueIds(logs')
    BY <1>1, <2>2 DEF UniqueIds
  <2> QED
    BY <2>1, <2>3
<1>5. IdsOf(logs') = IdsOf(logs)
  BY <1>2, <1>3 DEF IdsOf, Kin
<1>6. Listed'
  <2>1. \A m \in logs' : m.refunds \subseteq IdsOf(logs')
    BY <1>3, <1>5 DEF RefundInv, Listed
  <2> QED
    BY <2>1 DEF Listed, IdsOf
<1>7. Counted'
  <2>1. SUFFICES ASSUME NEW m \in logs', m.type = "PAY_API_FEE"
                 PROVE  m.refunded = CountIn({k \in logs' : k.id \in m.refunds})
    BY DEF Counted, RefundsOf, CountIn
  <2>2. PICK l \in logs : Kin(l, m) /\ m.refunds = l.refunds /\ m.refunded = l.refunded
    BY <1>3
  <2> DEFINE S == {k \in logs : k.id \in l.refunds}
             R == {k \in logs' : k.id \in m.refunds}
  <2>3. \A y \in R : \E x \in S : Kin(x, y)
    BY <1>3, <2>2 DEF Kin
  <2>4. \A x \in S : \E y \in R : Kin(x, y)
    BY <1>2, <2>2 DEF Kin
  <2>5. IsFiniteSet(S) /\ \A x \in S : x.count \in Int
    <3>1. S \in SUBSET logs
      OBVIOUS
    <3>2. \A x \in S : x \in FiatLog
      BY DEF BaseInv, Typed
    <3> QED
      BY <3>1, <3>2, FS_Subset DEF BaseInv, Typed, FiatLog
  <2>6. UniqueIds(S) /\ UniqueIds(R)
    BY <1>4 DEF UniqueIds
  <2>7. l.refunded = CountIn(S)
    BY <2>1, <2>2 DEF RefundInv, Counted, RefundsOf, Kin
  <2> HIDE DEF S
  <2>8. IdsOf(S) = IdsOf(R)
    <3> HIDE DEF R
    <3> QED
      BY <2>3, <2>4 DEF IdsOf, Kin
  <2>9. \A x \in S, y \in R : x.id = y.id => x.count = y.count
    <3> HIDE DEF R
    <3> QED
      BY <2>3, <2>6 DEF Kin, UniqueIds
  <2>10. CountIn(R) = CountIn(S)
    <3> HIDE DEF R
    <3> QED
      BY <2>5, <2>6, <2>8, <2>9, CountById
  <2> QED
    BY <2>2, <2>7, <2>10
<1>8. ListedOnce'
  <2>1. SUFFICES ASSUME NEW m \in logs', m.type = "REFUND_API_FEE"
                 PROVE  /\ \E l \in logs' : PaidBackBy(l, m)
                        /\ \A k, l \in logs' : m.id \in k.refunds /\ m.id \in l.refunds => k = l
    BY DEF ListedOnce, PaidBackBy
  <2>2. PICK n \in logs : Kin(n, m)
    BY <1>3
  <2>3. n.type = "REFUND_API_FEE" /\ n.id = m.id
    BY <2>1, <2>2 DEF Kin
  <2>4. PICK k \in logs : PaidBackBy(k, n)
    BY <2>3 DEF RefundInv, ListedOnce
  <2>5. \A l \in logs : m.id \in l.refunds => l = k
    BY <2>3, <2>4 DEF RefundInv, ListedOnce, PaidBackBy
  <2>6. PaidBackBy(Dated(k), m)
    BY <1>2, <2>2, <2>4 DEF PaidBackBy, Kin
  <2>7. \A l \in logs' : m.id \in l.refunds => l.id = k.id
    BY <1>3, <2>5 DEF Kin
  <2> QED
    BY <1>2, <1>4, <2>6, <2>7 DEF UniqueIds
<1> QED
  BY <1>6, <1>7, <1>8 DEF RefundInv

LEMMA RInvInit ==
  ASSUME Init
  PROVE  RInv
<1>1. ~OpenTx(merge)
  BY NoTxFields DEF Init, OpenTx
<1>2. \A l \in logs : l.type = "DEPOSIT" /\ l.refunds = {}
  BY FirstRows DEF FirstLog
<1> QED
  BY <1>1, <1>2 DEF RInv, RefundInv, Listed, Counted, ListedOnce

LEMMA RefundsSame ==
  ASSUME RefundInv, UNCHANGED logs
  PROVE  RefundInv'
BY DEF RefundInv, Listed, Counted, ListedOnce, RefundsOf, PaidBackBy, CountIn, IdsOf

LEMMA MergeRefundsSame ==
  ASSUME OpenTx(merge) => TxRefunds(merge), UNCHANGED <<logs, merge>>
  PROVE  (OpenTx(merge) => TxRefunds(merge))'
BY DEF OpenTx, TxRefunds, FreshRefunds, RefundsApart, PaysAdded, Kept, Added, LogAt

LEMMA RInvStep ==
  ASSUME BaseInv, AliveInv, RInv, [Next]_vars
  PROVE  RInv'
<1> USE DEF RInv
<1>1. CASE Quiet
  <2>1. CASE Keeps(merge, merge')
    BY <1>1, <2>1, RefundsSame DEF Quiet, Keeps, OpenTx, TxRefunds, FreshRefunds, RefundsApart,
         PaysAdded, Kept, Added, LogAt
  <2>2. CASE Clean(merge')
    <3>1. ~OpenTx(merge')
      BY <2>2 DEF Clean
    <3> QED
      BY <1>1, <3>1, RefundsSame DEF Quiet, OpenTx
  <2> QED
    BY <1>1, <2>1, <2>2 DEF Quiet
<1>2. ASSUME NEW p \in Postings, PostApi(p) PROVE RInv'
  BY <1>2, RefundsSame, MergeRefundsSame DEF PostApi
<1>3. ASSUME NEW p \in Postings, PostBegin(p) PROVE RInv'
  BY <1>3, RefundsSame, MergeRefundsSame DEF PostBegin, tables
<1>4. CASE PostCommit
  <2>1. post.pc = "inserted" /\ WriteLogs(post) /\ UNCHANGED <<merge, day>>
    BY <1>4, PostCommits DEF BaseInv
  <2>2. Ready(post, {"BUY_GAS", "BUY_STORAGE"})
    BY <2>1, ReadyPost
  <2>3. RefundInv'
    <3>1. TxRefunds(post)
      BY <2>1, PostRefunds
    <3> QED
      BY <2>2, <3>1, CommitRefunds DEF BaseInv, IdsInv, AliveInv
  <2>4. ASSUME OpenTx(merge) PROVE PaysAdded(merge)'
    <3>1. UniqueIds(logs')
      BY <2>2, CommitOrigins DEF BaseInv, IdsInv
    <3>2. \A q \in merge.pays, l \in logs : l.id = q.id => l \in logs'
      <4>1. {"BUY_GAS", "BUY_STORAGE"} \cap {"PAY_API_FEE"} = {}
        OBVIOUS
      <4>2. Typed /\ LogsOk /\ TxTyped(post) /\ Drawn(post) /\ Drawn(merge)
            /\ PaysOk(post, {"BUY_GAS", "BUY_STORAGE"}) /\ PaysOk(merge, {"PAY_API_FEE"})
        BY DEF BaseInv, IdsInv, OpenInv, PostPays, MergePays, Typed
      <4>3. merge.pc = "inserted" =>
              \A i \in DOMAIN post.fresh, j \in DOMAIN merge.fresh : post.first + i # merge.first + j
        BY <2>1 DEF BaseInv, IdsInv, Apart
      <4>4. OpenTx(merge) => \A q \in merge.pays, l \in logs : l.id = q.id => l \in logs'
        BY <2>1, <4>1, <4>2, <4>3, CommitOther
      <4> QED
        BY <2>4, <4>4
    <3>3. \A q \in merge.pays : \E l \in logs : l.id = q.id
      BY <2>4 DEF BaseInv, OpenInv, MergePays, PaysOk, Kin
    <3>4. \A q \in merge.pays, m \in logs' : m.id = q.id => m \in logs
      BY <3>1, <3>2, <3>3 DEF UniqueIds
    <3>5. \A q \in merge.pays, m \in logs' :
            q.type = "PAY_API_FEE" /\ m.id = q.id => Kept(merge, q, m) \/ Added(merge, q, m)
      BY <2>4, <3>4 DEF TxRefunds, PaysAdded
    <3> QED
      BY <2>1, <3>5 DEF PaysAdded, Kept, Added, LogAt
  <2>5. (OpenTx(merge) => TxRefunds(merge))'
    BY <2>1, <2>4 DEF OpenTx, TxRefunds, FreshRefunds, RefundsApart, LogAt
  <2> QED
    BY <2>3, <2>5
<1>5. CASE MergeCommit
  <2>1. /\ merge.pc = "inserted" /\ WriteLogs(merge) /\ UNCHANGED <<post, day>>
        /\ merge' = NoTx \/ \E n \in Nat : merge' = Ended(n)
    BY <1>5, MergeCommits DEF BaseInv
  <2>2. Ready(merge, {"PAY_API_FEE"})
    BY <2>1, ReadyMerge
  <2>3. RefundInv'
    <3>1. TxRefunds(merge)
      BY <2>1 DEF OpenTx
    <3> QED
      BY <2>2, <3>1, CommitRefunds DEF BaseInv, IdsInv, AliveInv
  <2>4. ~OpenTx(merge')
    BY <2>1, CleanClosed DEF Clean
  <2> QED
    BY <2>3, <2>4 DEF OpenTx
<1>6. ASSUME NEW u \in User, MergeRead(u) PROVE RInv'
  <2>1. UNCHANGED logs
    BY <1>6 DEF MergeRead, tables
  <2> QED
    BY <1>6, <2>1, MergeReadRefunds, RefundsSame
<1>7. CASE RefundsRead
  <2>1. UNCHANGED logs
    BY <1>7 DEF RefundsRead, tables
  <2>2. CASE merge' = NoTx
    <3>1. ~OpenTx(merge')
      BY <2>2, CleanClosed DEF Clean
    <3> QED
      BY <2>1, <3>1, RefundsSame DEF OpenTx
  <2>3. ASSUME NEW order \in Orderings(Paying), merge'.pays = {Shared(l) : l \in Bearing},
               merge'.fresh = LogsOfRefunds(order), DOMAIN merge'.fresh = DOMAIN order
        PROVE  TxRefunds(merge)'
    <3> DEFINE tx == merge'
    <3>1. tx.pays = {Shared(l) : l \in Bearing} /\ tx.fresh = LogsOfRefunds(order)
          /\ DOMAIN tx.fresh = DOMAIN order
      BY <2>3
    <3> HIDE DEF tx
    <3>2. TxRefunds(tx)
      BY <3>1, RefundsReadRefunds
    <3> QED
      BY <2>1, <3>2 DEF tx, TxRefunds, FreshRefunds, RefundsApart, PaysAdded, Kept, Added, LogAt
  <2>4. merge' = NoTx \/ TxRefunds(merge)'
    BY <1>7, <2>3, RefundsReadFields DEF BaseInv
  <2> QED
    BY <2>1, <2>2, <2>4, RefundsSame
<1>8. CASE UpdateCreated
  <2>1. UNCHANGED merge /\ logs' = {Dated(l) : l \in logs}
    BY <1>8, UpdateFacts
  <2>2. \A m \in logs' : \E l \in logs : m.id = l.id /\ m.refunded = l.refunded
    BY <2>1, DatedFacts DEF Kin
  <2>3. ASSUME OpenTx(merge) PROVE PaysAdded(merge)'
    <3>1. \A q \in merge.pays, m \in logs' :
            q.type = "PAY_API_FEE" /\ m.id = q.id => Kept(merge, q, m) \/ Added(merge, q, m)
      BY <2>2, <2>3 DEF TxRefunds, PaysAdded, Kept, Added
    <3> QED
      BY <2>1, <3>1 DEF PaysAdded, Kept, Added, LogAt
  <2>4. (OpenTx(merge) => TxRefunds(merge))'
    BY <2>1, <2>3 DEF OpenTx, TxRefunds, FreshRefunds, RefundsApart, LogAt
  <2> QED
    BY <1>8, <2>4, UpdateRefunds
<1> QED
  BY <1>1, <1>2, <1>3, <1>4, <1>5, <1>6, <1>7, <1>8, StepCases

(* fiat_log_meta.go:65: a payment shows as refunded what the refunds it lists say,
   never more than was paid, and each refund of API fees is listed by one payment, of
   its user and cost type. *)
THEOREM RefundsAlwaysMatched == Spec => []RefundsMatched
<1>1. Init => RInv
  BY RInvInit
<1>2. BaseInv /\ AliveInv /\ RInv /\ [Next]_vars => RInv'
  BY RInvStep
<1>3. AliveInv /\ RInv => RefundsMatched
  BY RInvMatched DEF AliveInv, RInv
<1> QED
  BY <1>1, <1>2, <1>3, BaseInvariant, NeverOver, PTL DEF Spec
-----------------------------------------------------------------------------
(* Running balances.  While nothing has led a user astray, balance_on_fiatlog is the
   balance of the last log, and a transaction is going to write a last log whose
   balance is that of the last log it has read and the amounts of its rows. *)
LastIn(L) == {l \in L : \A m \in L : NotAfter(m, l)}
BaseOf(L) == IF L = {} THEN 0 ELSE (CHOOSE l \in LastIn(L) : TRUE).balance
RefundLast(L) == \E l \in LastIn(L) : l.type = "REFUND_API_FEE"
LogSet(L) == IsFiniteSet(L) /\ L \subseteq FiatLog /\ UniqueIds(L)
UserRows(tx, u) == {r \in tx.rows : r.user = u}
IndicesOf(tx, u) == {i \in DOMAIN tx.fresh : LogAt(tx, i).user = u}
LastFresh(tx, u) == LogAt(tx, Max(IndicesOf(tx, u)))
Of(L, u) == {l \in L : l.user = u}

LEMMA LastOne ==
  ASSUME NEW L, LogSet(L), L # {}
  PROVE  \E l \in L : LastIn(L) = {l} /\ BaseOf(L) = l.balance /\ l \in FiatLog
                      /\ \A m \in L : NotAfter(m, l)
<1>1. \A l \in L : l \in FiatLog /\ l.at \in Nat /\ l.id \in Nat
  BY DEF LogSet, FiatLog
<1>2. PICK l \in L : \A m \in L : NotAfter(m, l)
  BY <1>1, LastExists DEF LogSet
<1>3. LastIn(L) = {l}
  <2>1. ASSUME NEW k \in L, \A m \in L : NotAfter(m, k) PROVE k = l
    <3>1. k.id = l.id
      BY <1>1, <1>2, <2>1 DEF NotAfter
    <3> QED
      BY <3>1 DEF LogSet, UniqueIds
  <2> QED
    BY <1>2, <2>1 DEF LastIn
<1>4. BaseOf(L) = l.balance
  BY <1>3 DEF BaseOf
<1> QED
  BY <1>1, <1>2, <1>3, <1>4

(* The same logs but for what a later transaction may save. *)
LEMMA LastKin ==
  ASSUME NEW L, NEW M, LogSet(L), LogSet(M),
         \A l \in L : \E m \in M : Kin(l, m) /\ l.at = m.at,
         \A m \in M : \E l \in L : Kin(l, m) /\ l.at = m.at
  PROVE  /\ BaseOf(M) = BaseOf(L) /\ IdsOf(LastIn(M)) = IdsOf(LastIn(L)) /\ (L = {} <=> M = {})
         /\ RefundLast(M) <=> RefundLast(L)
<1>1. CASE L = {}
  BY <1>1 DEF BaseOf, LastIn, IdsOf, RefundLast
<1>2. CASE L # {}
  <2>1. M # {}
    BY <1>2
  <2>2. PICK l \in L : LastIn(L) = {l} /\ BaseOf(L) = l.balance /\ \A k \in L : NotAfter(k, l)
    BY <1>2, LastOne
  <2>3. PICK m \in M : LastIn(M) = {m} /\ BaseOf(M) = m.balance /\ \A k \in M : NotAfter(k, m)
    BY <2>1, LastOne
  <2>4. PICK n \in M : Kin(l, n) /\ l.at = n.at
    OBVIOUS
  <2>5. \A k \in M : NotAfter(k, n)
    <3> TAKE k \in M
    <3>1. PICK j \in L : Kin(j, k) /\ j.at = k.at
      OBVIOUS
    <3> QED
      BY <2>2, <2>4, <3>1 DEF NotAfter, Kin
  <2>6. n = m
    BY <2>3, <2>5 DEF LastIn
  <2>7. IdsOf(LastIn(M)) = IdsOf(LastIn(L))
    BY <2>2, <2>3, <2>4, <2>6 DEF IdsOf, Kin
  <2>8. RefundLast(M) <=> RefundLast(L)
    BY <2>2, <2>3, <2>4, <2>6 DEF RefundLast, Kin
  <2> QED
    BY <1>2, <2>1, <2>2, <2>3, <2>4, <2>6, <2>7, <2>8 DEF Kin
<1> QED
  BY <1>1, <1>2

(* The tool dates logs, and the last one of a user stays the last. *)
LEMMA LastDated ==
  ASSUME NEW L, NEW M, LogSet(L), LogSet(M),
         \A l \in L : \E m \in M : Kin(l, m), \A m \in M : \E l \in L : Kin(l, m),
         IdsOf(LastIn(M)) = IdsOf(LastIn(L))
  PROVE  /\ BaseOf(M) = BaseOf(L) /\ (L = {} <=> M = {})
         /\ RefundLast(M) <=> RefundLast(L)
<1>1. CASE L = {}
  BY <1>1 DEF BaseOf, LastIn, RefundLast
<1>2. CASE L # {}
  <2>1. M # {}
    BY <1>2
  <2>2. PICK l \in L : LastIn(L) = {l} /\ BaseOf(L) = l.balance
    BY <1>2, LastOne
  <2>3. PICK m \in M : LastIn(M) = {m} /\ BaseOf(M) = m.balance
    BY <2>1, LastOne
  <2>4. m.id = l.id
    BY <2>2, <2>3 DEF IdsOf
  <2>5. PICK n \in L : Kin(n, m)
    OBVIOUS
  <2>6. n = l
    BY <2>4, <2>5 DEF LogSet, UniqueIds, Kin
  <2>7. RefundLast(M) <=> RefundLast(L)
    BY <2>2, <2>3, <2>5, <2>6 DEF RefundLast, Kin
  <2> QED
    BY <1>2, <2>1, <2>2, <2>3, <2>5, <2>6, <2>7 DEF Kin
<1> QED
  BY <1>1, <1>2

(* What comes after the last log becomes the last one. *)
LEMMA LastNew ==
  ASSUME NEW M, LogSet(M), NEW new \in M, \A m \in M : NotAfter(m, new)
  PROVE  BaseOf(M) = new.balance /\ LastIn(M) = {new}
<1>1. new \in LastIn(M)
  BY DEF LastIn
<1>2. PICK l \in M : LastIn(M) = {l} /\ BaseOf(M) = l.balance
  BY LastOne
<1>3. l = new
  BY <1>1, <1>2
<1> QED
  BY <1>2, <1>3

LEMMA BaseType ==
  ASSUME NEW L, LogSet(L)
  PROVE  BaseOf(L) \in Int
<1>1. CASE L = {}
  BY <1>1 DEF BaseOf
<1>2. CASE L # {}
  BY <1>2, LastOne DEF FiatLog
<1> QED
  BY <1>1, <1>2

LEMMA LogsOfSet ==
  ASSUME Typed, LogsOk, NEW u
  PROVE  /\ LogSet(LogsOf(u)) /\ LastOf(u) = LastIn(LogsOf(u)) /\ LogsOf(u) = Of(logs, u)
         /\ LogsOf(u) # {} => LastBalance(u) = BaseOf(LogsOf(u))
         /\ LogBalance(u) = BaseOf(LogsOf(u)) /\ BaseOf(LogsOf(u)) \in Int
<1>1. LogsOf(u) \in SUBSET logs
  BY DEF LogsOf
<1>2. IsFiniteSet(LogsOf(u)) /\ LogsOf(u) \subseteq FiatLog
  BY <1>1, FS_Subset DEF Typed
<1>3. UniqueIds(LogsOf(u))
  BY <1>1 DEF LogsOk, UniqueIds
<1>4. LastOf(u) = LastIn(LogsOf(u))
  BY DEF LastOf, LastIn, NotAfter
<1>5. LogsOf(u) # {} => LastBalance(u) = BaseOf(LogsOf(u))
  BY <1>4 DEF LastBalance, BaseOf
<1>6. LogBalance(u) = BaseOf(LogsOf(u))
  BY <1>5 DEF LogBalance, BaseOf
<1>7. BaseOf(LogsOf(u)) \in Int
  BY <1>2, <1>3, BaseType DEF LogSet
<1> QED
  BY <1>2, <1>3, <1>4, <1>5, <1>6, <1>7 DEF LogSet, LogsOf, Of

-----------------------------------------------------------------------------
(* What a transaction has read and is going to write, of logs L and of the history A. *)
SeenLast(tx, L, u) == IdsOf(LastIn(Of(L, u))) \subseteq tx.seen
Balances(tx, L, u) == LastFresh(tx, u).balance = BaseOf(Of(L, u)) + AmountIn(UserRows(tx, u))
OfUsers(tx) ==
  /\ \A r \in tx.rows : r.user \in tx.users
  /\ \A i \in DOMAIN tx.fresh : LogAt(tx, i).user \in tx.users
  /\ \A u \in tx.users : IndicesOf(tx, u) # {}
SeenOk(tx, L) ==
  /\ tx.seen \subseteq IdsOf(L)
  /\ tx.pc = "inserted" => \A s \in tx.seen : s <= tx.first
BalancesOk(tx, L, A) ==
  \A u \in tx.users : u \notin tx.early /\ A[u] = {} /\ SeenLast(tx, L, u) => Balances(tx, L, u)
Prepared(tx, L, A) == OpenTx(tx) => OfUsers(tx) /\ SeenOk(tx, L) /\ BalancesOk(tx, L, A)

(* Of a user whom nothing has led astray, the balance of the last log and what waits for
   the merge give the balance; balance_on_fiatlog is that of the last log, if that is no
   refund of API fees. *)
Stored(u) == IF post.pc = "logged" /\ u \in post.users THEN post.todo ELSE 0
OnLogs(u) ==
  /\ BaseOf(LogsOf(u)) + AmountIn(Unmerged(u)) = balance[u] + Stored(u)
  /\ balanceOnFiatlog[u] = BaseOf(LogsOf(u)) \/ RefundLast(LogsOf(u))
TodoOk == OpenTx(post) => post.todo = AmountIn(post.rows)
LoggedOk == post.pc = "logged" => \A u \in post.users : LogsOf(u) # {}
AllOnLogs == \A u \in User : astray[u] = {} => OnLogs(u)
PostPrepared == Prepared(post, logs, astray)
MergePrepared == Prepared(merge, logs, astray)
SInv == PostPrepared /\ MergePrepared /\ TodoOk /\ LoggedOk /\ AllOnLogs

LEMMA SInvSynced ==
  ASSUME BaseInv, SInv
  PROVE  LogSynced
<1> SUFFICES ASSUME NEW u \in User, astray[u] = {} PROVE RunningBalanceRight(u) /\ ColumnRight(u)
  BY DEF LogSynced
<1>1. OnLogs(u) /\ LogBalance(u) = BaseOf(LogsOf(u)) /\ LastOf(u) = LastIn(LogsOf(u))
  BY LogsOfSet DEF BaseInv, IdsInv, SInv, AllOnLogs
<1> QED
  BY <1>1 DEF OnLogs, Stored, RefundLast, RunningBalanceRight, ColumnRight

(* What the balance of a user without a log is. *)
LEMMA ReadBalance ==
  ASSUME Typed, LogsOk, LoggedOk, AllOnLogs, NEW u \in User, astray[u] = {}, u \notin UsersEarly({u})
  PROVE  LastBalance(u) = BaseOf(LogsOf(u))
<1>1. CASE LogsOf(u) # {}
  BY <1>1, LogsOfSet
<1>2. CASE LogsOf(u) = {}
  <2>1. AmountIn(Unmerged(u)) = 0
    BY <1>2 DEF UsersEarly
  <2>2. Stored(u) = 0
    BY <1>2 DEF LoggedOk, Stored
  <2>3. BaseOf(LogsOf(u)) = 0
    BY <1>2 DEF BaseOf
  <2>4. balance[u] \in Int
    BY DEF Typed
  <2>5. balance[u] = 0
    BY <2>1, <2>2, <2>3, <2>4 DEF AllOnLogs, OnLogs
  <2> QED
    BY <1>2, <2>3, <2>5 DEF LastBalance
<1> QED
  BY <1>1, <1>2
-----------------------------------------------------------------------------
(* What is prepared stays so, while logs come whose users it has not, or which it has
   not seen. *)
LEMMA PreparedStays ==
  ASSUME NEW old, NEW new, NEW L, NEW M, NEW A, NEW B, Prepared(old, L, A),
         new.rows = old.rows, new.users = old.users, new.fresh = old.fresh,
         new.seen = old.seen, new.early = old.early, OpenTx(new) => OpenTx(old),
         new.pc = "inserted" =>
           \/ old.pc = "inserted" /\ new.first = old.first
           \/ \A s \in IdsOf(L) : s <= new.first,
         IdsOf(L) \subseteq IdsOf(M),
         \A u \in new.users : B[u] = {} /\ SeenLast(new, M, u) =>
           A[u] = {} /\ BaseOf(Of(M, u)) = BaseOf(Of(L, u))
           /\ IdsOf(LastIn(Of(M, u))) = IdsOf(LastIn(Of(L, u)))
  PROVE  Prepared(new, M, B)
<1> SUFFICES ASSUME OpenTx(new)
             PROVE  OfUsers(new) /\ SeenOk(new, M) /\ BalancesOk(new, M, B)
  BY DEF Prepared
<1>1. OfUsers(old) /\ SeenOk(old, L) /\ BalancesOk(old, L, A)
  BY DEF Prepared
<1>2. OfUsers(new)
  BY <1>1 DEF OfUsers, IndicesOf, LogAt
<1>3. SeenOk(new, M)
  BY <1>1 DEF SeenOk
<1>4. BalancesOk(new, M, B)
  <2> SUFFICES ASSUME NEW u \in new.users, u \notin new.early, B[u] = {}, SeenLast(new, M, u)
               PROVE  Balances(new, M, u)
    BY DEF BalancesOk
  <2>1. A[u] = {} /\ BaseOf(Of(M, u)) = BaseOf(Of(L, u))
        /\ IdsOf(LastIn(Of(M, u))) = IdsOf(LastIn(Of(L, u)))
    OBVIOUS
  <2>2. SeenLast(old, L, u)
    BY <2>1 DEF SeenLast
  <2>3. Balances(old, L, u)
    BY <1>1, <2>1, <2>2 DEF BalancesOk
  <2>4. LastFresh(new, u) = LastFresh(old, u) /\ UserRows(new, u) = UserRows(old, u)
    BY DEF LastFresh, IndicesOf, LogAt, UserRows
  <2> QED
    BY <2>1, <2>3, <2>4 DEF Balances
<1> QED
  BY <1>2, <1>3, <1>4

LEMMA PreparedClosed ==
  ASSUME NEW tx, ~OpenTx(tx), NEW L, NEW A
  PROVE  Prepared(tx, L, A)
BY DEF Prepared
-----------------------------------------------------------------------------
(* A commit, for the last logs: those of other users stay ... *)
LEMMA CommitSets ==
  ASSUME Typed, LogsOk, NEW tx, NEW types, Ready(tx, types), NEW u
  PROVE  /\ LogSet(Of(logs, u)) /\ LogSet(Of(logs', u))
         /\ IdsOf(logs) \subseteq IdsOf(logs')
<1>1. logs' \subseteq FiatLog /\ IsFiniteSet(logs') /\ UniqueIds(logs')
      /\ \A l \in logs : \E m \in logs' : Kin(l, m)
  BY CommitOrigins
<1>2. Of(logs', u) \in SUBSET (logs')
  BY DEF Of
<1>3. IsFiniteSet(Of(logs', u))
  BY <1>1, <1>2, FS_Subset
<1>4. LogSet(Of(logs', u))
  BY <1>1, <1>2, <1>3 DEF LogSet, UniqueIds
<1>5. IdsOf(logs) \subseteq IdsOf(logs')
  BY <1>1 DEF IdsOf, Kin
<1> QED
  BY <1>4, <1>5, LogsOfSet

LEMMA CommitOthers ==
  ASSUME Typed, LogsOk, NEW tx, NEW types, Ready(tx, types), OfUsers(tx), NEW u, u \notin tx.users
  PROVE  /\ BaseOf(Of(logs', u)) = BaseOf(Of(logs, u))
         /\ IdsOf(LastIn(Of(logs', u))) = IdsOf(LastIn(Of(logs, u)))
         /\ Of(logs, u) = {} <=> Of(logs', u) = {}
         /\ RefundLast(Of(logs', u)) <=> RefundLast(Of(logs, u))
         /\ u \in User => balanceOnFiatlog'[u] = balanceOnFiatlog[u]
<1>1. LogSet(Of(logs, u)) /\ LogSet(Of(logs', u))
  BY CommitSets
<1>2. /\ \A m \in logs' : m \notin Inserted(tx) => \E l \in logs : Kin(l, m) /\ l.at = m.at
      /\ \A l \in logs : \E m \in logs' : Kin(l, m) /\ l.at = m.at
  BY CommitLogs DEF Ready
<1>3. \A m \in Inserted(tx) : m.user \in tx.users
  <2>1. /\ \A m \in Inserted(tx) : \E i \in DOMAIN tx.fresh : m = InsertedAt(tx, i)
        /\ \A i \in DOMAIN tx.fresh : InsertedAt(tx, i).user = LogAt(tx, i).user
    BY CommitOrigins
  <2> QED
    BY <2>1 DEF OfUsers
<1>4. \A m \in Of(logs', u) : \E l \in Of(logs, u) : Kin(l, m) /\ l.at = m.at
  BY <1>2, <1>3 DEF Of, Kin
<1>5. \A l \in Of(logs, u) : \E m \in Of(logs', u) : Kin(l, m) /\ l.at = m.at
  BY <1>2 DEF Of, Kin
<1>6. /\ BaseOf(Of(logs', u)) = BaseOf(Of(logs, u))
      /\ IdsOf(LastIn(Of(logs', u))) = IdsOf(LastIn(Of(logs, u)))
      /\ Of(logs, u) = {} <=> Of(logs', u) = {}
      /\ RefundLast(Of(logs', u)) <=> RefundLast(Of(logs, u))
  BY <1>1, <1>4, <1>5, LastKin
<1>7. u \in User => balanceOnFiatlog'[u] = balanceOnFiatlog[u]
  <2>1. {i \in DOMAIN tx.fresh : tx.fresh[i].log.user = u} = {}
    BY DEF OfUsers, LogAt
  <2>2. balanceOnFiatlog' = OnFiatlogAfter(tx)
    BY DEF Ready, WriteLogs
  <2> QED
    BY <2>1, <2>2 DEF OnFiatlogAfter, OnFiatlogOf
<1> QED
  BY <1>6, <1>7

(* ... and a user whose last log it has read has its own as the last one. *)
LEMMA CommitLast ==
  ASSUME Typed, LogsOk, NEW tx, NEW types, Ready(tx, types), OfUsers(tx), SeenOk(tx, logs),
         NEW u \in tx.users, SeenLast(tx, logs, u)
  PROVE  /\ BaseOf(Of(logs', u)) = LastFresh(tx, u).balance
         /\ balanceOnFiatlog'[u] = LastFresh(tx, u).balance \/ RefundLast(Of(logs', u))
         /\ \E m \in Of(logs', u) : LastIn(Of(logs', u)) = {m} /\ m.id \notin IdsOf(logs)
<1> DEFINE mine == IndicesOf(tx, u)
           k == Max(mine)
           new == InsertedAt(tx, k)
<1>1. TxTyped(tx) /\ u \in User /\ tx.pc = "inserted" /\ Drawn(tx)
  BY TxFields DEF Ready
<1>2. /\ tx.first \in Nat /\ DOMAIN tx.fresh \subseteq Nat /\ IsFiniteSet(DOMAIN tx.fresh)
      /\ DOMAIN tx.fresh = 1 .. Len(tx.fresh)
  BY <1>1, TxFields, CommitOrigins
<1>3. mine \in SUBSET (DOMAIN tx.fresh) /\ mine # {}
  BY DEF IndicesOf, OfUsers
<1>4. k \in mine /\ \A x \in mine : x <= k
  <2>1. IsFiniteSet(mine) /\ \A x \in mine : x \in Nat
    BY <1>2, <1>3, FS_Subset
  <2> HIDE DEF mine
  <2> QED
    BY <1>3, <2>1, Greatest
<1>5. k \in DOMAIN tx.fresh /\ k \in Nat /\ k > 0 /\ LogAt(tx, k).user = u
  BY <1>2, <1>3, <1>4 DEF IndicesOf
<1> HIDE DEF k, mine
<1>6. /\ new \in FiatLog /\ new.id = tx.first + k /\ new.at = day /\ new.user = u
      /\ new.balance = LogAt(tx, k).balance /\ new.type = LogAt(tx, k).type
  BY <1>1, <1>5, InsertedType DEF Typed
<1>7. new \in Of(logs', u) /\ \A l \in logs : l.id # new.id
  <2>1. InsertedAt(tx, k) \in logs'
    BY <1>5, CommitOrigins
  <2> QED
    BY <1>1, <1>5, <1>6, <2>1 DEF Of, Drawn
<1> HIDE DEF new
<1>8. \A m \in Of(logs', u) : NotAfter(m, new)
  <2> SUFFICES ASSUME NEW m \in logs', m.user = u PROVE NotAfter(m, new)
    BY DEF Of
  <2>1. CASE m \in Inserted(tx)
    <3>1. PICK i \in DOMAIN tx.fresh : m = InsertedAt(tx, i)
      BY <2>1, CommitOrigins
    <3>2. m.id = tx.first + i /\ m.at = day /\ LogAt(tx, i).user = u
      BY <1>1, <3>1, InsertedType DEF Typed
    <3>3. i <= k /\ i \in Nat
      BY <1>2, <1>4, <3>2 DEF mine, IndicesOf
    <3> QED
      BY <1>2, <1>5, <1>6, <3>2, <3>3 DEF NotAfter
  <2>2. CASE m \notin Inserted(tx)
    <3>1. PICK l \in logs : Kin(l, m) /\ l.at = m.at
      BY <2>2, CommitLogs DEF Ready
    <3>2. LogSet(Of(logs, u)) /\ l \in Of(logs, u)
      BY <3>1, CommitSets DEF Of, Kin
    <3>3. PICK last \in Of(logs, u) : LastIn(Of(logs, u)) = {last} /\ NotAfter(l, last)
      <4>1. Of(logs, u) # {}
        BY <3>2
      <4> QED
        BY <3>2, <4>1, LastOne
    <3>4. last.id <= tx.first
      <4>1. last.id \in tx.seen
        BY <3>3 DEF SeenLast, IdsOf
      <4> QED
        BY <1>1, <4>1 DEF SeenOk
    <3>5. /\ last \in logs /\ last.at <= day /\ last.at \in Nat /\ last.id \in Nat
          /\ l.at \in Nat /\ l.id \in Nat /\ day \in Nat
      BY <3>3 DEF Of, LogsOk, Typed, FiatLog
    <3>6. m.at < day \/ (m.at = day /\ m.id <= tx.first)
      BY <1>2, <3>1, <3>3, <3>4, <3>5 DEF NotAfter, Kin
    <3>7. m.id \in Nat
      BY <3>1, <3>5 DEF Kin
    <3> QED
      BY <1>2, <1>5, <1>6, <3>6, <3>7 DEF NotAfter
  <2> QED
    BY <2>1, <2>2
<1>9. LogSet(Of(logs', u))
  BY CommitSets
<1>10. BaseOf(Of(logs', u)) = new.balance /\ LastIn(Of(logs', u)) = {new}
  BY <1>7, <1>8, <1>9, LastNew
<1>11. new.balance = LastFresh(tx, u).balance
  BY <1>6 DEF LastFresh, k, mine
<1>12. balanceOnFiatlog'[u] = LastFresh(tx, u).balance \/ RefundLast(Of(logs', u))
  <2> DEFINE raw == {i \in DOMAIN tx.fresh : tx.fresh[i].log.user = u}
             last == tx.fresh[Max(raw)].log
             again == {l \in tx.pays : last.type = "REFUND_API_FEE" /\ l.user = u /\ l.cost = last.cost}
             oldest == CHOOSE l \in again : \A m \in again : l.id <= m.id
  <2>1. balanceOnFiatlog'[u] = OnFiatlogOf(tx, u)
    BY <1>1 DEF Ready, WriteLogs, OnFiatlogAfter
  <2>2. raw = IndicesOf(tx, u)
    BY DEF IndicesOf, LogAt
  <2>3. OnFiatlogOf(tx, u) = IF raw = {} THEN balanceOnFiatlog[u]
                             ELSE IF again = {} THEN last.balance ELSE oldest.balance
    BY DEF OnFiatlogOf
  <2> HIDE DEF again, oldest
  <2>4. raw # {} /\ last = LogAt(tx, k)
    <3> HIDE DEF raw
    <3> QED
      BY <1>3, <2>2 DEF mine, k, LogAt
  <2>5. CASE again = {}
    BY <1>6, <1>11, <2>1, <2>3, <2>4, <2>5
  <2>6. CASE again # {}
    <3>1. last.type = "REFUND_API_FEE"
      BY <2>6 DEF again
    <3> HIDE DEF last
    <3> QED
      BY <1>6, <1>10, <2>4, <3>1 DEF RefundLast
  <2> QED
    BY <2>5, <2>6
<1>13. new.id \notin IdsOf(logs)
  BY <1>7 DEF IdsOf
<1> QED
  BY <1>7, <1>10, <1>11, <1>12, <1>13

LEMMA CommitAstray ==
  ASSUME Typed, LogsOk, NEW tx, WriteLogs(tx), NEW u \in User, astray'[u] = {}
  PROVE  /\ astray[u] = {} /\ u \notin tx.early
         /\ u \in tx.users => SeenLast(tx, logs, u)
<1>1. astray'[u] =
        astray[u] \cup (IF u \in tx.users /\ IdsOf(LastOf(u)) \ tx.seen # {} THEN {"raced"} ELSE {})
                  \cup (IF u \in tx.early THEN {"early"} ELSE {})
  BY DEF WriteLogs
<1>2. LastOf(u) = LastIn(Of(logs, u))
  BY LogsOfSet
<1> QED
  BY <1>1, <1>2 DEF SeenLast

LEMMA CommitPrepared ==
  ASSUME Typed, LogsOk, NEW tx, NEW types, Ready(tx, types), OfUsers(tx), SeenOk(tx, logs),
         NEW o, TxTyped(o), Prepared(o, logs, astray)
  PROVE  Prepared(o, logs', astray')
<1>1. CASE ~OpenTx(o)
  BY <1>1, PreparedClosed
<1>2. CASE OpenTx(o)
  <2>1. IdsOf(logs) \subseteq IdsOf(logs')
    BY CommitSets
  <2>2. o.seen \subseteq IdsOf(logs)
    BY <1>2 DEF Prepared, SeenOk
  <2>3. ASSUME NEW u \in o.users, astray'[u] = {}, SeenLast(o, logs', u)
        PROVE  /\ astray[u] = {} /\ BaseOf(Of(logs', u)) = BaseOf(Of(logs, u))
               /\ IdsOf(LastIn(Of(logs', u))) = IdsOf(LastIn(Of(logs, u)))
    <3>1. u \in User
      BY TxFields
    <3>2. astray[u] = {} /\ (u \in tx.users => SeenLast(tx, logs, u))
      BY <2>3, <3>1, CommitAstray DEF Ready
    <3>3. CASE u \in tx.users
      <4>1. PICK m \in Of(logs', u) : LastIn(Of(logs', u)) = {m} /\ m.id \notin IdsOf(logs)
        BY <3>2, <3>3, CommitLast
      <4>2. m.id \in o.seen
        BY <2>3, <4>1 DEF SeenLast, IdsOf
      <4> QED
        BY <2>2, <4>1, <4>2
    <3>4. CASE u \notin tx.users
      BY <3>2, <3>4, CommitOthers
    <3> QED
      BY <3>3, <3>4
  <2> QED
    BY <1>2, <2>1, <2>3, PreparedStays
<1> QED
  BY <1>1, <1>2

(* The rows of a user that wait for the merge: a posting leaves them ... *)
LEMMA PostLeaves ==
  ASSUME BaseInv, WriteLogs(post), post.pc = "inserted", day' = day, NEW u
  PROVE  Unmerged(u)' = Unmerged(u)
<1>1. PICK row \in post.rows : caches' = caches \cup {row} /\ row.merged = TRUE
  BY PostRows
<1> QED
  BY <1>1 DEF Unmerged

(* ... and a merge takes its rows from them. *)
LEMMA MergeTakes ==
  ASSUME BaseInv, WriteLogs(merge), merge.pc = "inserted", day' = day, NEW u
  PROVE  AmountIn(Unmerged(u)) = AmountIn(Unmerged(u)') + AmountIn(UserRows(merge, u))
<1>1. /\ merge.rows \subseteq {r \in caches : ~r.merged}
      /\ \A r \in caches' : \/ r \in caches /\ r.id \notin IdsOf(merge.rows)
                            \/ \E q \in merge.rows : r = MergedRow(q)
      /\ \A r \in caches : r.id \notin IdsOf(merge.rows) => r \in caches'
  BY MergeMarks
<1>2. caches \subseteq CacheRow /\ IsFiniteSet(caches) /\ UniqueIds(caches)
  BY DEF BaseInv, Typed, RowsOk
<1>3. \A q \in merge.rows : MergedRow(q).merged = TRUE
  BY <1>1, <1>2 DEF MergedRow, CacheRow
<1> DEFINE rest == Unmerged(u)'
           mine == UserRows(merge, u)
<1>4. \A r \in rest : r \in caches /\ r.id \notin IdsOf(merge.rows) /\ r.user = u /\ ~r.merged
  BY <1>1, <1>3 DEF Unmerged
<1>5. \A r \in mine : r \in merge.rows /\ r \in caches /\ ~r.merged /\ r.user = u
  BY <1>1 DEF UserRows
<1>6. Unmerged(u) = rest \cup mine
  <2>1. ASSUME NEW r \in Unmerged(u), r \notin mine PROVE r \in rest
    <3>1. r \in caches /\ ~r.merged /\ r.user = u /\ r \notin merge.rows
      BY <2>1 DEF Unmerged, UserRows
    <3>2. r.id \notin IdsOf(merge.rows)
      BY <1>1, <1>2, <3>1 DEF IdsOf, UniqueIds
    <3> QED
      BY <1>1, <3>1, <3>2 DEF Unmerged
  <2> QED
    BY <1>4, <1>5, <2>1 DEF Unmerged
<1>7. rest \cap mine = {}
  BY <1>4, <1>5 DEF IdsOf
<1>8. rest \in SUBSET caches /\ mine \in SUBSET caches
  BY <1>4, <1>5
<1>9. IsFiniteSet(rest) /\ IsFiniteSet(mine) /\ \A r \in rest \cup mine : r.amount \in Int
  BY <1>2, <1>8, FS_Subset DEF CacheRow
<1> HIDE DEF rest, mine
<1>10. AmountIn(rest \cup mine) = AmountIn(rest) + AmountIn(mine)
  BY <1>7, <1>9, AmountUnion
<1> QED
  BY <1>6, <1>10 DEF rest, mine

LEMMA UnmergedSum ==
  ASSUME Typed, NEW u
  PROVE  IsFiniteSet(Unmerged(u)) /\ AmountIn(Unmerged(u)) \in Int
<1>1. Unmerged(u) \in SUBSET caches
  BY DEF Unmerged
<1> QED
  BY <1>1, RowSums DEF Typed
-----------------------------------------------------------------------------
LEMMA PreparedSame ==
  ASSUME NEW tx, NEW L, NEW A, NEW B, Prepared(tx, L, A), \A u \in tx.users : B[u] = {} => A[u] = {}
  PROVE  Prepared(tx, L, B)
BY DEF Prepared, BalancesOk

LEMMA OnLogsSame ==
  ASSUME AllOnLogs, UNCHANGED <<caches, logs, balance, balanceOnFiatlog>>,
         \A u \in User : astray'[u] = {} => astray[u] = {} /\ Stored(u)' = Stored(u)
  PROVE  AllOnLogs'
<1> SUFFICES ASSUME NEW u \in User, astray'[u] = {} PROVE OnLogs(u)'
  BY DEF AllOnLogs
<1>1. OnLogs(u) /\ Stored(u)' = Stored(u)
  BY DEF AllOnLogs
<1>2. LogsOf(u)' = LogsOf(u) /\ Unmerged(u)' = Unmerged(u)
  BY DEF LogsOf, Unmerged
<1> QED
  BY <1>1, <1>2 DEF OnLogs

LEMMA StoredNone ==
  ASSUME NEW u
  PROVE  /\ post.pc # "logged" => Stored(u) = 0
         /\ post'.pc # "logged" => Stored(u)' = 0
BY DEF Stored

(* A row that waits is in the balance at once. *)
LEMMA PostApiSync ==
  ASSUME BaseInv, SInv, NEW p \in Postings, PostApi(p)
  PROVE  SInv'
<1> DEFINE row == NewCache(p, FALSE)
<1>1. /\ caches' = caches \cup {row} /\ balance' = [balance EXCEPT ![p.user] = @ + p.amount]
      /\ UNCHANGED <<logs, balanceOnFiatlog, post, merge, astray>>
  BY DEF PostApi
<1>2. row \in CacheRow /\ row.user = p.user /\ row.amount = p.amount /\ row.merged = FALSE
      /\ row.id = Cardinality(caches) + 1
  BY NewCacheType DEF BaseInv
<1> HIDE DEF row
<1>3. row \notin caches
  <2>1. IdsOf(caches) = 1 .. Cardinality(caches) /\ Cardinality(caches) \in Nat
    BY FS_CardinalityType DEF BaseInv, Typed, RowsOk
  <2>2. \A r \in caches : r.id \in 1 .. Cardinality(caches)
    BY <2>1 DEF IdsOf
  <2>3. row \in caches => Cardinality(caches) + 1 \in 1 .. Cardinality(caches)
    BY <1>2, <2>2
  <2> QED
    BY <2>1, <2>3
<1>4. PostPrepared' /\ MergePrepared' /\ TodoOk' /\ LoggedOk'
  BY <1>1 DEF SInv, PostPrepared, MergePrepared, TodoOk, LoggedOk, LogsOf
<1>5. ASSUME NEW u \in User, astray'[u] = {} PROVE OnLogs(u)'
  <2>1. OnLogs(u) /\ Stored(u)' = Stored(u) /\ LogsOf(u)' = LogsOf(u)
    BY <1>1, <1>5 DEF SInv, AllOnLogs, Stored, LogsOf
  <2>2. IsFiniteSet(Unmerged(u)) /\ AmountIn(Unmerged(u)) \in Int /\ Stored(u) \in Int
        /\ balance \in [User -> Int] /\ BaseOf(LogsOf(u)) \in Int
    <3>1. Typed /\ LogsOk
      BY DEF BaseInv, IdsInv
    <3>2. post.todo \in Int
      BY <3>1, TxFields DEF Typed
    <3> QED
      BY <3>1, <3>2, UnmergedSum, LogsOfSet DEF Typed, Stored
  <2>3. CASE u # p.user
    <3>1. Unmerged(u)' = Unmerged(u) /\ balance'[u] = balance[u]
      BY <1>1, <1>2, <2>2, <2>3 DEF Unmerged
    <3> QED
      BY <1>1, <2>1, <3>1 DEF OnLogs
  <2>4. CASE u = p.user
    <3>1. Unmerged(u)' = Unmerged(u) \cup {row} /\ balance'[u] = balance[u] + p.amount
      BY <1>1, <1>2, <2>2, <2>4 DEF Unmerged
    <3>2. p.amount \in Int /\ \A r \in Unmerged(u) \cup {row} : r.amount \in Int
      BY <1>2 DEF BaseInv, Typed, Unmerged, CacheRow
    <3>3. Unmerged(u) \cap {row} = {} /\ IsFiniteSet({row}) /\ AmountIn({row}) = p.amount
      BY <1>2, <1>3, <3>2, FS_Singleton, AmountOne DEF Unmerged
    <3>4. AmountIn(Unmerged(u)') = AmountIn(Unmerged(u)) + p.amount
      BY <2>2, <3>1, <3>2, <3>3, AmountUnion
    <3>5. /\ BaseOf(LogsOf(u)) + AmountIn(Unmerged(u)) = balance[u] + Stored(u)
          /\ balanceOnFiatlog[u] = BaseOf(LogsOf(u)) \/ RefundLast(LogsOf(u))
      BY <2>1 DEF OnLogs
    <3>6. BaseOf(LogsOf(u)) + AmountIn(Unmerged(u)') = balance'[u] + Stored(u)'
      BY <1>1, <2>1, <2>2, <3>1, <3>2, <3>4, <3>5
    <3> QED
      BY <1>1, <2>1, <3>5, <3>6 DEF OnLogs
  <2> QED
    BY <2>3, <2>4
<1> QED
  BY <1>4, <1>5 DEF SInv, AllOnLogs

(* A posting has read the last log of its user. *)
LEMMA SeenIds ==
  ASSUME NEW u
  PROVE  IdsOf(LastOf(u)) \subseteq IdsOf(logs)
BY DEF IdsOf, LastOf, LogsOf

LEMMA PostBeginSync ==
  ASSUME BaseInv, SInv, NEW p \in Postings, PostBegin(p)
  PROVE  SInv'
<1> DEFINE tx == post'
           u == p.user
           row == NewCache(p, TRUE)
<1>1. UNCHANGED <<caches, logs, balance, balanceOnFiatlog, merge, astray>> /\ post.pc = "idle"
  BY DEF PostBegin, tables
<1>2. /\ tx.pc = "read" /\ tx.users = {u} /\ tx.seen = IdsOf(LastOf(u)) /\ tx.rows = {row}
      /\ tx.early = UsersEarly({u}) /\ tx.todo = p.amount /\ DOMAIN tx.fresh = {1}
  BY PostBegins DEF BaseInv
<1>3. LogAt(tx, 1).user = u /\ LogAt(tx, 1).balance = LastBalance(u) + p.amount
  BY PostFresh
<1>4. row \in CacheRow /\ row.user = u /\ row.amount = p.amount /\ p.amount \in Int /\ u \in User
  BY NewCacheType DEF BaseInv, CacheRow
<1> HIDE DEF tx, u, row
<1>5. IndicesOf(tx, u) = {1} /\ UserRows(tx, u) = tx.rows
  BY <1>2, <1>3, <1>4 DEF IndicesOf, UserRows
<1>6. OfUsers(tx)
  BY <1>2, <1>3, <1>4, <1>5 DEF OfUsers
<1>7. SeenOk(tx, logs)
  BY <1>2, SeenIds DEF SeenOk
<1>8. AmountIn(tx.rows) = p.amount
  BY <1>2, <1>4, AmountOne
<1>9. LastFresh(tx, u) = LogAt(tx, 1)
  <2>1. IsFiniteSet({1})
    BY FS_Singleton
  <2>2. Max({1}) = 1
    <3>1. {1} # {} /\ \A x \in {1} : x \in Nat
      OBVIOUS
    <3>2. Max({1}) \in {1}
      BY <2>1, <3>1, Greatest
    <3> QED
      BY <3>2
  <2> QED
    BY <1>5, <2>2 DEF LastFresh
<1>10. BalancesOk(tx, logs, astray)
  <2> SUFFICES ASSUME u \notin tx.early, astray[u] = {} PROVE Balances(tx, logs, u)
    BY <1>2 DEF BalancesOk
  <2>1. LastBalance(u) = BaseOf(LogsOf(u))
    BY <1>2, <1>4, ReadBalance DEF BaseInv, IdsInv, SInv
  <2>2. LogsOf(u) = Of(logs, u)
    BY DEF LogsOf, Of
  <2> QED
    BY <1>3, <1>5, <1>8, <1>9, <2>1, <2>2 DEF Balances
<1>11. Prepared(tx, logs, astray)
  BY <1>6, <1>7, <1>10 DEF Prepared
<1>12. PostPrepared'
  BY <1>1, <1>11 DEF PostPrepared, tx
<1>13. MergePrepared'
  BY <1>1 DEF SInv, MergePrepared
<1>14. TodoOk' /\ LoggedOk'
  BY <1>2, <1>8 DEF TodoOk, LoggedOk, tx
<1>15. AllOnLogs'
  <2>1. post'.pc # "logged" /\ post.pc # "logged"
    BY <1>1, <1>2 DEF tx
  <2> QED
    BY <1>1, <2>1, OnLogsSame, StoredNone DEF SInv
<1> QED
  BY <1>12, <1>13, <1>14, <1>15 DEF SInv
-----------------------------------------------------------------------------
(* The INSERT draws ids behind those of the logs it has read. *)
LEMMA DrawnPrepared ==
  ASSUME BaseInv, NEW tx, TxTyped(tx), tx.pc = "read", Prepared(tx, logs, astray)
  PROVE  Prepared(DrawIds(tx), logs, astray)
<1> DEFINE new == DrawIds(tx)
<1>1. lastLogId \in Nat /\ \A s \in IdsOf(logs) : s <= lastLogId
  BY DEF BaseInv, Typed, IdsInv, LogsOk, IdsOf
<1>2. /\ new.pc = "inserted" /\ new.first = lastLogId /\ new.users = tx.users
      /\ new.seen = tx.seen /\ new.fresh = tx.fresh /\ new.rows = tx.rows /\ new.early = tx.early
  BY <1>1, DrawnIds
<1>3. OpenTx(tx)
  BY DEF OpenTx
<1> HIDE DEF new
<1>4. Prepared(new, logs, astray)
  BY <1>1, <1>2, <1>3, PreparedStays
<1> QED
  BY <1>4 DEF new

LEMMA PostInsertSync ==
  ASSUME BaseInv, SInv, PostInsert
  PROVE  SInv'
<1>1. /\ post.pc = "read" /\ post' = DrawIds(post)
      /\ UNCHANGED <<caches, logs, balance, balanceOnFiatlog, merge, astray>>
  BY DEF PostInsert
<1>2. TxTyped(post) /\ lastLogId \in Nat
  BY DEF BaseInv, Typed
<1>3. post'.pc = "inserted" /\ post'.rows = post.rows /\ post'.todo = post.todo
  BY <1>1, <1>2, DrawnIds
<1>4. Prepared(DrawIds(post), logs, astray)
  BY <1>1, <1>2, DrawnPrepared DEF SInv, PostPrepared
<1>5. PostPrepared' /\ MergePrepared'
  BY <1>1, <1>4 DEF SInv, PostPrepared, MergePrepared
<1>6. TodoOk' /\ LoggedOk'
  BY <1>1, <1>3 DEF SInv, TodoOk, LoggedOk, OpenTx
<1>7. AllOnLogs'
  BY <1>1, <1>3, OnLogsSame, StoredNone DEF SInv
<1> QED
  BY <1>5, <1>6, <1>7 DEF SInv

LEMMA SyncKept ==
  ASSUME SInv, UNCHANGED <<caches, logs, balance, balanceOnFiatlog, post, astray>>
  PROVE  PostPrepared' /\ TodoOk' /\ LoggedOk' /\ AllOnLogs'
<1>1. PostPrepared' /\ TodoOk' /\ LoggedOk'
  BY DEF SInv, PostPrepared, TodoOk, LoggedOk, LogsOf
<1>2. AllOnLogs'
  BY OnLogsSame DEF SInv, Stored
<1> QED
  BY <1>1, <1>2

LEMMA MergeInsertSync ==
  ASSUME BaseInv, SInv, MergeInsert
  PROVE  SInv'
<1>1. /\ merge.pc = "read" /\ merge' = DrawIds(merge)
      /\ UNCHANGED <<caches, logs, balance, balanceOnFiatlog, post, astray>>
  BY DEF MergeInsert
<1>2. TxTyped(merge)
  BY DEF BaseInv, Typed
<1>3. Prepared(DrawIds(merge), logs, astray)
  BY <1>1, <1>2, DrawnPrepared DEF SInv, MergePrepared
<1>4. MergePrepared'
  BY <1>1, <1>3 DEF MergePrepared
<1> QED
  BY <1>1, <1>4, SyncKept DEF SInv

LEMMA ClosedMergePrepared ==
  ASSUME merge' = NoTx \/ \E n \in Nat : merge' = Ended(n)
  PROVE  MergePrepared'
<1>1. ~OpenTx(merge')
  BY CleanClosed DEF Clean
<1> QED
  BY <1>1, PreparedClosed DEF MergePrepared, Prepared

(* PostCommit: with the log, or after it in a statement of its own, comes the balance. *)
LEMMA PostCommitSync ==
  ASSUME BaseInv, SInv, PostCommit
  PROVE  SInv'
<1>1. /\ post.pc = "inserted" /\ WriteLogs(post) /\ UNCHANGED <<day, merge>>
  BY PostCommits DEF BaseInv
<1>2. PICK row \in post.rows : post.rows = {row} /\ post.users = {row.user} /\ row.user \in User
  <2>1. OpenTx(post)
    BY <1>1 DEF OpenTx
  <2>2. PostRow /\ post.rows \subseteq CacheRow
    BY TxFields DEF BaseInv, OpenInv, Typed
  <2> QED
    BY <2>1, <2>2 DEF PostRow, CacheRow
<1> DEFINE v == row.user
           types == {"BUY_GAS", "BUY_STORAGE"}
<1>3. /\ balance \in [User -> Int]
      /\ \/ post' = [post EXCEPT !.pc = "logged"] /\ balance' = balance
         \/ post' = NoTx /\ balance' = [balance EXCEPT ![v] = @ + post.todo]
  BY <1>2, PostCommits DEF BaseInv, Typed
<1>4. Ready(post, types) /\ Typed /\ LogsOk /\ OpenTx(post)
  BY <1>1, ReadyPost DEF BaseInv, IdsInv, OpenTx
<1>5. OfUsers(post) /\ SeenOk(post, logs) /\ BalancesOk(post, logs, astray)
  BY <1>4 DEF SInv, PostPrepared, Prepared
<1>6. post.todo = AmountIn(UserRows(post, v)) /\ post.todo \in Int
  <2>1. UserRows(post, v) = post.rows
    BY <1>2 DEF UserRows
  <2>2. post.todo \in Int
    BY <1>4, TxFields DEF Typed
  <2> QED
    BY <1>4, <2>1, <2>2 DEF SInv, TodoOk
<1>7. post'.pc \in {"idle", "logged"}
      /\ (post'.pc = "logged" => post'.users = post.users /\ post'.todo = post.todo /\ balance' = balance)
      /\ (post'.pc = "idle" => balance' = [balance EXCEPT ![v] = @ + post.todo])
  <2>1. post \in Tx
    BY <1>4 DEF Typed, TxTyped
  <2>2. NoTx.pc = "idle"
    BY DEF NoTx
  <2>3. CASE post' = [post EXCEPT !.pc = "logged"] /\ balance' = balance
    BY <2>1, <2>3 DEF Tx
  <2>4. CASE post' = NoTx /\ balance' = [balance EXCEPT ![v] = @ + post.todo]
    BY <2>2, <2>4
  <2> QED
    BY <1>3, <2>3, <2>4
<1>8. PostPrepared' /\ TodoOk'
  BY <1>7 DEF PostPrepared, Prepared, TodoOk, OpenTx
<1>9. MergePrepared'
  <2>1. Prepared(merge, logs', astray')
    BY <1>4, <1>5, CommitPrepared DEF SInv, MergePrepared, Typed
  <2> QED
    BY <1>1, <2>1 DEF MergePrepared
<1>10. LoggedOk'
  <2> SUFFICES ASSUME NEW w \in post.users PROVE LogsOf(w)' # {}
    BY <1>7 DEF LoggedOk
  <2>1. PICK i \in DOMAIN post.fresh : LogAt(post, i).user = w
    BY <1>5 DEF OfUsers, IndicesOf
  <2>2. InsertedAt(post, i) \in logs' /\ InsertedAt(post, i).user = w
    BY <1>4, <2>1, CommitOrigins
  <2> QED
    BY <2>2 DEF LogsOf
<1>11. ASSUME NEW u \in User, astray'[u] = {} PROVE OnLogs(u)'
  <2>1. astray[u] = {} /\ u \notin post.early /\ (u \in post.users => SeenLast(post, logs, u))
    BY <1>1, <1>4, <1>11, CommitAstray
  <2>2. /\ BaseOf(LogsOf(u)) + AmountIn(Unmerged(u)) = balance[u] + Stored(u)
        /\ balanceOnFiatlog[u] = BaseOf(LogsOf(u)) \/ RefundLast(LogsOf(u))
    BY <2>1 DEF SInv, AllOnLogs, OnLogs
  <2>3. LogsOf(u) = Of(logs, u) /\ LogsOf(u)' = Of(logs', u) /\ Unmerged(u)' = Unmerged(u)
        /\ Stored(u) = 0
    BY <1>1, PostLeaves, StoredNone DEF LogsOf, Of
  <2>4. AmountIn(Unmerged(u)) \in Int /\ balance[u] \in Int /\ BaseOf(LogsOf(u)) \in Int
    BY <1>4, UnmergedSum, LogsOfSet DEF Typed
  <2>5. CASE u # v
    <3>1. u \notin post.users
      BY <1>2, <2>5
    <3>2. /\ BaseOf(Of(logs', u)) = BaseOf(Of(logs, u)) /\ balanceOnFiatlog'[u] = balanceOnFiatlog[u]
          /\ RefundLast(Of(logs', u)) <=> RefundLast(Of(logs, u))
      BY <1>4, <1>5, <3>1, CommitOthers
    <3>3. balance'[u] = balance[u] /\ Stored(u)' = 0
      BY <1>3, <1>7, <2>5, <3>1 DEF Stored
    <3> QED
      BY <2>2, <2>3, <3>2, <3>3 DEF OnLogs
  <2>6. CASE u = v
    <3>1. u \in post.users
      BY <1>2, <2>6
    <3>2. /\ BaseOf(Of(logs', u)) = LastFresh(post, u).balance
          /\ balanceOnFiatlog'[u] = LastFresh(post, u).balance \/ RefundLast(Of(logs', u))
      BY <1>4, <1>5, <2>1, <3>1, CommitLast
    <3>3. LastFresh(post, u).balance = BaseOf(LogsOf(u)) + post.todo
      BY <1>5, <1>6, <2>1, <2>2, <2>3, <2>6, <3>1 DEF BalancesOk, Balances
    <3>4. balance'[u] + Stored(u)' = balance[u] + post.todo
      BY <1>2, <1>3, <1>6, <1>7, <2>4, <2>6 DEF Stored
    <3>5. BaseOf(LogsOf(u)') + AmountIn(Unmerged(u)') = balance'[u] + Stored(u)'
      BY <1>6, <2>2, <2>3, <2>4, <3>2, <3>3, <3>4
    <3> QED
      BY <2>3, <3>2, <3>5 DEF OnLogs
  <2> QED
    BY <2>5, <2>6
<1> QED
  BY <1>8, <1>9, <1>10, <1>11 DEF SInv, AllOnLogs
-----------------------------------------------------------------------------
(* MergeCommit: rows that waited are in the logs. *)
LEMMA MergeCommitSync ==
  ASSUME BaseInv, SInv, MergeCommit
  PROVE  SInv'
<1>1. /\ merge.pc = "inserted" /\ WriteLogs(merge) /\ UNCHANGED <<balance, day, post>>
      /\ merge' = NoTx \/ \E n \in Nat : merge' = Ended(n)
  BY MergeCommits DEF BaseInv
<1> DEFINE types == {"PAY_API_FEE"}
<1>2. Ready(merge, types) /\ Typed /\ LogsOk /\ OpenTx(merge)
  BY <1>1, ReadyMerge DEF BaseInv, IdsInv, OpenTx
<1>3. OfUsers(merge) /\ SeenOk(merge, logs) /\ BalancesOk(merge, logs, astray)
  BY <1>2 DEF SInv, MergePrepared, Prepared
<1>4. MergePrepared'
  BY <1>1, ClosedMergePrepared
<1>5. PostPrepared'
  <2>1. Prepared(post, logs', astray')
    BY <1>2, <1>3, CommitPrepared DEF SInv, PostPrepared, Typed
  <2> QED
    BY <1>1, <2>1 DEF PostPrepared
<1>6. TodoOk'
  BY <1>1 DEF SInv, TodoOk
<1>7. LoggedOk'
  <2> SUFFICES ASSUME post.pc = "logged", NEW u \in post.users PROVE LogsOf(u)' # {}
    BY <1>1 DEF LoggedOk
  <2>1. PICK l \in logs : l.user = u
    BY DEF SInv, LoggedOk, LogsOf
  <2>2. PICK m \in logs' : Kin(l, m)
    BY <1>2, CommitOrigins
  <2> QED
    BY <2>1, <2>2 DEF LogsOf, Kin
<1>8. ASSUME NEW u \in User, astray'[u] = {} PROVE OnLogs(u)'
  <2>1. astray[u] = {} /\ u \notin merge.early /\ (u \in merge.users => SeenLast(merge, logs, u))
    BY <1>1, <1>2, <1>8, CommitAstray
  <2>2. /\ BaseOf(LogsOf(u)) + AmountIn(Unmerged(u)) = balance[u] + Stored(u)
        /\ balanceOnFiatlog[u] = BaseOf(LogsOf(u)) \/ RefundLast(LogsOf(u))
    BY <2>1 DEF SInv, AllOnLogs, OnLogs
  <2>3. LogsOf(u) = Of(logs, u) /\ LogsOf(u)' = Of(logs', u) /\ Stored(u)' = Stored(u)
    BY <1>1 DEF LogsOf, Of, Stored
  <2>4. AmountIn(Unmerged(u)) = AmountIn(Unmerged(u)') + AmountIn(UserRows(merge, u))
    BY <1>1, MergeTakes
  <2>5. AmountIn(Unmerged(u)') \in Int /\ AmountIn(UserRows(merge, u)) \in Int
        /\ BaseOf(LogsOf(u)) \in Int /\ balance[u] \in Int
    <3>1. IsFiniteSet(caches') /\ caches' \subseteq CacheRow
      BY <1>1, MergeMarks
    <3>2. Unmerged(u)' \in SUBSET (caches') /\ UserRows(merge, u) \in SUBSET merge.rows
      BY DEF Unmerged, UserRows
    <3>3. IsFiniteSet(merge.rows) /\ merge.rows \subseteq CacheRow
      BY <1>2, CommitOrigins
    <3>4. AmountIn(Unmerged(u)') \in Int
      <4> DEFINE all == caches'
                 some == Unmerged(u)'
      <4> HIDE DEF all, some
      <4>1. some \in SUBSET all /\ IsFiniteSet(all) /\ all \subseteq CacheRow
        BY <3>1, <3>2 DEF all, some
      <4>2. AmountIn(some) \in Int
        BY <4>1, RowSums
      <4> QED
        BY <4>2 DEF some
    <3>5. AmountIn(UserRows(merge, u)) \in Int
      BY <3>2, <3>3, RowSums
    <3> QED
      BY <1>2, <3>4, <3>5, LogsOfSet DEF Typed
  <2>6. CASE u \notin merge.users
    <3>1. /\ BaseOf(Of(logs', u)) = BaseOf(Of(logs, u)) /\ balanceOnFiatlog'[u] = balanceOnFiatlog[u]
          /\ RefundLast(Of(logs', u)) <=> RefundLast(Of(logs, u))
      BY <1>2, <1>3, <2>6, CommitOthers
    <3>2. UserRows(merge, u) = {}
      BY <1>3, <2>6 DEF UserRows, OfUsers
    <3>3. AmountIn(Unmerged(u)') = AmountIn(Unmerged(u))
      BY <2>4, <2>5, <3>2, AmountNone
    <3> QED
      BY <1>1, <2>2, <2>3, <3>1, <3>3 DEF OnLogs
  <2>7. CASE u \in merge.users
    <3>1. /\ BaseOf(Of(logs', u)) = LastFresh(merge, u).balance
          /\ balanceOnFiatlog'[u] = LastFresh(merge, u).balance \/ RefundLast(Of(logs', u))
      BY <1>2, <1>3, <2>1, <2>7, CommitLast
    <3>2. LastFresh(merge, u).balance = BaseOf(LogsOf(u)) + AmountIn(UserRows(merge, u))
      BY <1>3, <2>1, <2>2, <2>3, <2>7 DEF BalancesOk, Balances
    <3>3. BaseOf(LogsOf(u)') + AmountIn(Unmerged(u)') = balance[u] + Stored(u)
      BY <2>2, <2>3, <2>4, <2>5, <3>1, <3>2
    <3> QED
      BY <1>1, <2>3, <3>1, <3>3 DEF OnLogs
  <2> QED
    BY <2>6, <2>7
<1> QED
  BY <1>4, <1>5, <1>6, <1>7, <1>8 DEF SInv, AllOnLogs

(* RefundSponsor stores the balance. *)
LEMMA PostBalanceSync ==
  ASSUME BaseInv, SInv, PostBalance
  PROVE  SInv'
<1>1. /\ post.pc = "logged" /\ post' = NoTx
      /\ balance' = [u \in User |-> balance[u] + IF u \in post.users THEN post.todo ELSE 0]
      /\ UNCHANGED <<caches, logs, balanceOnFiatlog, merge, astray>>
  BY DEF PostBalance
<1>2. post'.pc = "idle"
  BY <1>1 DEF NoTx
<1>3. PostPrepared' /\ TodoOk' /\ LoggedOk'
  BY <1>2 DEF PostPrepared, Prepared, TodoOk, LoggedOk, OpenTx
<1>4. MergePrepared'
  BY <1>1 DEF SInv, MergePrepared
<1>5. ASSUME NEW u \in User, astray'[u] = {} PROVE OnLogs(u)'
  <2>1. /\ BaseOf(LogsOf(u)) + AmountIn(Unmerged(u)) = balance[u] + Stored(u)
        /\ balanceOnFiatlog[u] = BaseOf(LogsOf(u)) \/ RefundLast(LogsOf(u))
    BY <1>1, <1>5 DEF SInv, AllOnLogs, OnLogs
  <2>2. LogsOf(u)' = LogsOf(u) /\ Unmerged(u)' = Unmerged(u) /\ Stored(u)' = 0
    BY <1>1, <1>2, StoredNone DEF LogsOf, Unmerged
  <2>3. balance'[u] = balance[u] + Stored(u)
    BY <1>1 DEF Stored
  <2>4. balance[u] \in Int /\ Stored(u) \in Int
    <3>1. post.todo \in Int
      BY TxFields DEF BaseInv, Typed
    <3> QED
      BY <3>1 DEF BaseInv, Typed, Stored
  <2>5. balanceOnFiatlog'[u] = balanceOnFiatlog[u]
    BY <1>1
  <2> QED
    BY <2>1, <2>2, <2>3, <2>4, <2>5 DEF OnLogs
<1> QED
  BY <1>3, <1>4, <1>5 DEF SInv, AllOnLogs

LEMMA QuietSync ==
  ASSUME BaseInv, SInv, UNCHANGED vars \/ MergeStart \/ NextDay \/ MergeFails
  PROVE  SInv'
<1>1. CASE UNCHANGED vars
  <2>1. UNCHANGED <<caches, logs, balance, balanceOnFiatlog, post, astray>> /\ UNCHANGED merge
    BY <1>1 DEF vars, tables
  <2>2. MergePrepared'
    BY <2>1 DEF SInv, MergePrepared
  <2> QED
    BY <2>1, <2>2, SyncKept DEF SInv
<1>2. CASE NextDay
  <2>1. UNCHANGED <<caches, logs, balance, balanceOnFiatlog, post, astray>> /\ UNCHANGED merge
    BY <1>2 DEF NextDay, tables
  <2>2. MergePrepared'
    BY <2>1 DEF SInv, MergePrepared
  <2> QED
    BY <2>1, <2>2, SyncKept DEF SInv
<1>3. CASE MergeFails
  <2>1. UNCHANGED <<caches, logs, balance, balanceOnFiatlog, post, astray>> /\ merge' = NoTx
    BY <1>3 DEF MergeFails, tables
  <2> QED
    BY <2>1, ClosedMergePrepared, SyncKept DEF SInv
<1>4. CASE MergeStart
  <2>1. UNCHANGED <<caches, logs, balance, balanceOnFiatlog, post, astray>> /\ merge' = Ended(day)
    BY <1>4 DEF MergeStart, tables, Ended
  <2>2. day \in Nat
    BY DEF BaseInv, Typed
  <2> QED
    BY <2>1, <2>2, ClosedMergePrepared, SyncKept DEF SInv
<1> QED
  BY <1>1, <1>2, <1>3, <1>4

(* At a start, InitUserBalances takes balance_on_fiatlog from the last log. *)
LEMMA CrashSync ==
  ASSUME BaseInv, SInv, Crash
  PROVE  SInv'
<1>1. /\ post' = NoTx /\ merge' = NoTx /\ UNCHANGED <<caches, logs, balance>>
      /\ balanceOnFiatlog' = [u \in User |-> LogBalance(u)]
      /\ astray' = [u \in User |->
           astray[u] \cup IF post.pc = "logged" /\ u \in post.users THEN {"half"} ELSE {}]
  BY DEF Crash
<1>2. post'.pc = "idle"
  BY <1>1 DEF NoTx
<1>3. PostPrepared' /\ TodoOk' /\ LoggedOk'
  BY <1>2 DEF PostPrepared, Prepared, TodoOk, LoggedOk, OpenTx
<1>4. MergePrepared'
  BY <1>1, ClosedMergePrepared
<1>5. ASSUME NEW u \in User, astray'[u] = {} PROVE OnLogs(u)'
  <2>1. astray[u] = {} /\ ~(post.pc = "logged" /\ u \in post.users)
    BY <1>1, <1>5
  <2>2. /\ BaseOf(LogsOf(u)) + AmountIn(Unmerged(u)) = balance[u] + Stored(u)
        /\ balanceOnFiatlog[u] = BaseOf(LogsOf(u)) \/ RefundLast(LogsOf(u))
    BY <2>1 DEF SInv, AllOnLogs, OnLogs
  <2>3. LogsOf(u)' = LogsOf(u) /\ Unmerged(u)' = Unmerged(u) /\ Stored(u)' = 0 /\ Stored(u) = 0
    BY <1>1, <1>2, <2>1, StoredNone DEF LogsOf, Unmerged, Stored
  <2>4. balanceOnFiatlog'[u] = BaseOf(LogsOf(u))
    BY <1>1, LogsOfSet DEF BaseInv, IdsInv
  <2> QED
    BY <1>1, <2>2, <2>3, <2>4 DEF OnLogs
<1> QED
  BY <1>3, <1>4, <1>5 DEF SInv, AllOnLogs
-----------------------------------------------------------------------------
(* Logs that the tool dates back. *)
LEMMA UpdateSync ==
  ASSUME BaseInv, SInv, UpdateCreated
  PROVE  SInv'
<1>1. /\ logs' = {Dated(l) : l \in logs}
      /\ UNCHANGED <<caches, lastLogId, balance, balanceOnFiatlog, day, post, merge>>
      /\ \A u \in User : astray'[u] = {} => astray[u] = {} /\ IdsOf(LastOf(u)') = IdsOf(LastOf(u))
  BY UpdateFacts
<1>2. \A l \in logs : Kin(l, Dated(l))
  BY DatedFacts
<1>3. /\ \A l \in logs : \E m \in logs' : Kin(l, m)
      /\ \A m \in logs' : \E l \in logs : Kin(l, m)
  BY <1>1, <1>2
<1>4. Typed /\ LogsOk
  BY DEF BaseInv, IdsInv
<1>5. logs' \subseteq FiatLog /\ IsFiniteSet(logs') /\ UniqueIds(logs')
  <2>1. BaseInv'
    BY UpdateCreatedBase
  <2> QED
    BY <2>1 DEF BaseInv, Typed, IdsInv, LogsOk
<1>6. ASSUME NEW u
      PROVE  /\ LogSet(Of(logs, u)) /\ LogSet(Of(logs', u))
             /\ \A l \in Of(logs, u) : \E m \in Of(logs', u) : Kin(l, m)
             /\ \A m \in Of(logs', u) : \E l \in Of(logs, u) : Kin(l, m)
             /\ LogsOf(u) = Of(logs, u) /\ LogsOf(u)' = Of(logs', u)
             /\ LastOf(u) = LastIn(Of(logs, u)) /\ LastOf(u)' = LastIn(Of(logs', u))
  <2>1. Of(logs', u) \in SUBSET (logs')
    BY DEF Of
  <2>2. LogSet(Of(logs', u))
    BY <1>5, <2>1, FS_Subset DEF LogSet, UniqueIds
  <2>3. LogsOf(u) = Of(logs, u) /\ LogSet(Of(logs, u)) /\ LastOf(u) = LastIn(Of(logs, u))
    BY <1>4, LogsOfSet
  <2>4. LogsOf(u)' = Of(logs', u)
    BY DEF LogsOf, Of
  <2>5. LastOf(u)' = LastIn(Of(logs', u))
    BY <2>4 DEF LastOf, LastIn, NotAfter
  <2>6. /\ \A l \in Of(logs, u) : \E m \in Of(logs', u) : Kin(l, m)
        /\ \A m \in Of(logs', u) : \E l \in Of(logs, u) : Kin(l, m)
    BY <1>3 DEF Of, Kin
  <2> QED
    BY <2>2, <2>3, <2>4, <2>5, <2>6
<1>7. ASSUME NEW u \in User, astray'[u] = {}
      PROVE  /\ astray[u] = {} /\ BaseOf(Of(logs', u)) = BaseOf(Of(logs, u))
             /\ IdsOf(LastIn(Of(logs', u))) = IdsOf(LastIn(Of(logs, u)))
             /\ RefundLast(Of(logs', u)) <=> RefundLast(Of(logs, u))
  <2>1. astray[u] = {} /\ IdsOf(LastIn(Of(logs', u))) = IdsOf(LastIn(Of(logs, u)))
    BY <1>1, <1>6, <1>7
  <2>2. /\ BaseOf(Of(logs', u)) = BaseOf(Of(logs, u))
        /\ RefundLast(Of(logs', u)) <=> RefundLast(Of(logs, u))
    BY <1>6, <2>1, LastDated
  <2> QED
    BY <2>1, <2>2
<1>8. ASSUME NEW tx, TxTyped(tx), Prepared(tx, logs, astray)
      PROVE  Prepared(tx, logs', astray')
  <2>1. IdsOf(logs) \subseteq IdsOf(logs')
    BY <1>3 DEF IdsOf, Kin
  <2>2. tx.users \subseteq User
    BY <1>8, TxFields
  <2>3. tx.pc = "inserted" => tx.pc = "inserted" /\ tx.first = tx.first
    OBVIOUS
  <2> QED
    BY <1>7, <1>8, <2>1, <2>2, <2>3, PreparedStays
<1>9. PostPrepared' /\ MergePrepared'
  BY <1>1, <1>4, <1>8 DEF SInv, PostPrepared, MergePrepared, Typed
<1>10. TodoOk' /\ LoggedOk'
  <2>1. TodoOk'
    BY <1>1 DEF SInv, TodoOk
  <2>2. \A u : LogsOf(u) # {} => LogsOf(u)' # {}
    BY <1>6
  <2> QED
    BY <1>1, <2>1, <2>2 DEF SInv, LoggedOk
<1>11. ASSUME NEW u \in User, astray'[u] = {} PROVE OnLogs(u)'
  <2>1. /\ astray[u] = {} /\ BaseOf(LogsOf(u)') = BaseOf(LogsOf(u))
        /\ RefundLast(LogsOf(u)') <=> RefundLast(LogsOf(u))
    BY <1>6, <1>7, <1>11
  <2>2. Unmerged(u)' = Unmerged(u) /\ Stored(u)' = Stored(u)
    BY <1>1 DEF Unmerged, Stored
  <2> QED
    BY <1>1, <2>1, <2>2 DEF SInv, AllOnLogs, OnLogs
<1> QED
  BY <1>9, <1>10, <1>11 DEF SInv, AllOnLogs

(* A merge begins: it has read balances, and prepared logs of its rows. *)
LEMMA MergeReadsSync ==
  ASSUME SInv, UNCHANGED <<caches, logs, balance, balanceOnFiatlog, post, astray>>,
         Prepared(merge', logs, astray)
  PROVE  SInv'
<1>1. MergePrepared'
  BY DEF MergePrepared
<1> QED
  BY <1>1, SyncKept DEF SInv

-----------------------------------------------------------------------------
LEMMA GroupBalance ==
  ASSUME NEW u, NEW rows, NEW order, NEW i \in DOMAIN order
  PROVE  LogsOfGroups(u, rows, order)[i].log.balance
           = LastBalance(u) + AmountIn(GroupsUpTo(rows, order, i))
<1>1. PICK row, amount, count, ids :
        LogsOfGroups(u, rows, order)[i]
          = Fresh(row, amount, count, LastBalance(u) + AmountIn(GroupsUpTo(rows, order, i)), ids, {})
  BY DEF LogsOfGroups, LogOfGroup, GroupsUpTo
<1> QED
  BY <1>1 DEF Fresh

(* The last log of a user in a transaction. *)
LEMMA LastIndex ==
  ASSUME NEW tx, NEW u, IsFiniteSet(DOMAIN tx.fresh), DOMAIN tx.fresh \subseteq Nat,
         IndicesOf(tx, u) # {}
  PROVE  \E k \in DOMAIN tx.fresh :
           /\ LastFresh(tx, u) = LogAt(tx, k) /\ LogAt(tx, k).user = u /\ k \in Nat
           /\ \A i \in DOMAIN tx.fresh : LogAt(tx, i).user = u => i <= k
<1> DEFINE mine == IndicesOf(tx, u)
<1>1. mine \in SUBSET (DOMAIN tx.fresh)
  BY DEF IndicesOf
<1>2. IsFiniteSet(mine) /\ mine # {} /\ \A x \in mine : x \in Nat
  BY <1>1, FS_Subset
<1> HIDE DEF mine
<1>3. Max(mine) \in mine /\ \A x \in mine : x <= Max(mine)
  BY <1>2, Greatest
<1>4. LastFresh(tx, u) = LogAt(tx, Max(mine))
  BY DEF LastFresh, mine
<1>5. \A i : i \in mine <=> i \in DOMAIN tx.fresh /\ LogAt(tx, i).user = u
  BY DEF mine, IndicesOf
<1> QED
  BY <1>2, <1>3, <1>4, <1>5

(* The logs of groups add up, the last one to all rows. *)
LEMMA MergeReadSync ==
  ASSUME BaseInv, SInv, NEW u \in User, MergeRead(u)
  PROVE  SInv'
<1>1. PICK rows, order :
           /\ rows \in SUBSET caches
           /\ Grouped(u, TypeDue, rows, order)
           /\ merge'.pc = "read" /\ merge'.users = {u} /\ merge'.seen = IdsOf(LastOf(u))
           /\ merge'.rows = rows /\ merge'.early = UsersEarly({u})
           /\ merge'.fresh = LogsOfGroups(u, rows, order)
           /\ DOMAIN merge'.fresh = DOMAIN order
           /\ UNCHANGED <<caches, logs, lastLogId, balance, balanceOnFiatlog, day, post, faults, astray>>
  BY MergeReadFields DEF BaseInv
<1>2. PICK t \in MergeableTypes : t = TypeDue
  BY TypeDueType DEF MergeRead
<1>3. Grouped(u, t, rows, order) /\ rows \in SUBSET caches
  BY <1>1, <1>2
<1>4. ASSUME NEW i \in DOMAIN order
      PROVE  /\ LogsOfGroups(u, rows, order)[i].log.user = u
             /\ LogsOfGroups(u, rows, order)[i].log.balance
                  = LastBalance(u) + AmountIn(GroupsUpTo(rows, order, i))
  <2>1. LogsOfGroups(u, rows, order)[i].log.user = u
    BY <1>3, GroupOf DEF BaseInv
  <2> QED
    BY <2>1, GroupBalance
<1>5. /\ \A r \in rows : \E i \in DOMAIN order : r \in GroupAt(rows, order, i)
      /\ Cardinality(CostsOf(rows)) \in Nat /\ DOMAIN order = 1 .. Cardinality(CostsOf(rows))
  BY <1>3, GroupFacts DEF BaseInv
<1>6. (\A r \in rows : r.user = u) /\ rows # {}
  BY <1>3 DEF Grouped
<1> DEFINE tx == merge'
<1>7. /\ tx.pc = "read" /\ tx.users = {u} /\ tx.seen = IdsOf(LastOf(u)) /\ tx.rows = rows
      /\ tx.early = UsersEarly({u}) /\ DOMAIN tx.fresh = DOMAIN order
      /\ \A i \in DOMAIN order :
           /\ LogAt(tx, i).user = u
           /\ LogAt(tx, i).balance = LastBalance(u) + AmountIn(GroupsUpTo(rows, order, i))
  BY <1>1, <1>4 DEF LogAt
<1>8. UNCHANGED <<caches, logs, balance, balanceOnFiatlog, post, astray>>
  BY <1>1
<1> HIDE DEF tx
<1>9. OfUsers(tx) /\ IndicesOf(tx, u) # {}
  BY <1>5, <1>6, <1>7 DEF OfUsers, IndicesOf
<1>10. SeenOk(tx, logs)
  BY <1>7, SeenIds DEF SeenOk
<1>11. IsFiniteSet(DOMAIN tx.fresh) /\ DOMAIN tx.fresh \subseteq Nat
  <2> DEFINE n == Cardinality(CostsOf(rows))
  <2>1. n \in Nat /\ DOMAIN tx.fresh = 1 .. n
    BY <1>5, <1>7
  <2> HIDE DEF n
  <2>2. IsFiniteSet(1 .. n) /\ 1 .. n \subseteq Nat
    BY <2>1, FS_Interval
  <2> QED
    BY <2>1, <2>2
<1>12. PICK k \in DOMAIN tx.fresh :
         /\ LastFresh(tx, u) = LogAt(tx, k) /\ LogAt(tx, k).user = u /\ k \in Nat
         /\ \A i \in DOMAIN tx.fresh : LogAt(tx, i).user = u => i <= k
  BY <1>9, <1>11, LastIndex
<1>13. GroupsUpTo(rows, order, k) = rows
  <2>1. ASSUME NEW r \in rows PROVE \E j \in 1 .. k : r.cost = order[j]
    <3>1. PICK i \in DOMAIN order : r.cost = order[i]
      BY <1>5 DEF GroupAt
    <3>2. i <= k /\ i \in 1 .. Cardinality(CostsOf(rows))
      BY <1>5, <1>7, <1>12, <3>1
    <3>3. i \in 1 .. k
      BY <1>5, <1>12, <3>2
    <3> QED
      BY <3>1, <3>3
  <2> QED
    BY <2>1 DEF GroupsUpTo
<1>14. UserRows(tx, u) = rows
  BY <1>6, <1>7 DEF UserRows
<1>15. BalancesOk(tx, logs, astray)
  <2> SUFFICES ASSUME u \notin tx.early, astray[u] = {} PROVE Balances(tx, logs, u)
    BY <1>7 DEF BalancesOk
  <2>1. LastBalance(u) = BaseOf(LogsOf(u))
    BY <1>7, ReadBalance DEF BaseInv, IdsInv, SInv
  <2>2. LogsOf(u) = Of(logs, u)
    BY DEF LogsOf, Of
  <2> QED
    BY <1>7, <1>12, <1>13, <1>14, <2>1, <2>2 DEF Balances
<1>16. Prepared(tx, logs, astray)
  BY <1>9, <1>10, <1>15 DEF Prepared
<1> QED
  BY <1>8, <1>16, MergeReadsSync DEF tx
-----------------------------------------------------------------------------
LEMMA QuotientIs ==
  ASSUME NEW x \in Int, NEW d \in Nat, d > 0, NEW r \in Nat, r < d
  PROVE  (x * d + r) \div d = x
<1> DEFINE q == (x * d + r) \div d
           s == (x * d + r) % d
<1>1. x * d \in Int /\ x * d + r \in Int
  OBVIOUS
<1>2. q \in Int /\ s \in Nat /\ s < d /\ x * d + r = d * q + s
  BY <1>1
<1> HIDE DEF q, s
<1>3. d * (x - q) = s - r
  BY <1>2
<1>4. ~(x - q >= 1)
  <2>1. x - q >= 1 => d * (x - q) >= d
    BY <1>2
  <2> QED
    BY <1>2, <1>3, <2>1
<1>5. ~(x - q <= -1)
  <2>1. x - q <= -1 => d * (x - q) <= -d
    BY <1>2
  <2> QED
    BY <1>2, <1>3, <2>1
<1>6. x = q
  BY <1>2, <1>4, <1>5
<1> QED
  BY <1>6 DEF q

(* What is a multiple is not rounded. *)
LEMMA RoundedWhole ==
  ASSUME NEW x \in Int, NEW n \in Nat, n > 0
  PROVE  Rounded(x * n, n) = x
<1> DEFINE d == 2 * n
<1>1. d \in Nat /\ d > 0 /\ n < d
  OBVIOUS
<1>2. /\ (x * d + n) \div d = x
      /\ ((-x) * d + n) \div d = -x
  <2> HIDE DEF d
  <2> QED
    BY <1>1, QuotientIs
<1>3. 2 * (x * n) = x * d /\ 2 * (-(x * n)) = (-x) * d /\ x * n \in Int
  OBVIOUS
<1>4. CASE x * n >= 0
  BY <1>2, <1>3, <1>4 DEF Rounded
<1>5. CASE ~(x * n >= 0)
  BY <1>2, <1>3, <1>5 DEF Rounded
<1> QED
  BY <1>4, <1>5

(* The payments of a refund up to the last one that bears any of it bear all of it. *)
LEMMA SharesOfLast ==
  ASSUME Typed, LogsOk, NotOver, NEW l \in logs, Borne(l),
         \A p \in PaysOf(l.user, l.cost) : Share(p) > 0 => p.id >= l.id
  PROVE  Shares(NewerOf(l)) = CountIn(RefundsLike(l))
<1> DEFINE pays == PaysOf(l.user, l.cost)
           some == {p \in pays : Share(p) > 0}
           rest == NewerOf(l) \ some
<1>1. Shares(some) = CountIn(RefundsLike(l)) /\ \A p \in pays : Share(p) \in Nat
  BY SharesOfAll
<1>2. NewerOf(l) = some \cup rest /\ some \cap rest = {} /\ some \in SUBSET pays /\ rest \in SUBSET pays
  BY DEF NewerOf
<1>3. \A p \in rest : Share(p) = 0
  BY <1>1, <1>2
<1>4. IsFiniteSet(some) /\ IsFiniteSet(rest)
  BY <1>2, PaysFinite
<1>5. Shares(rest) = 0
  <2> DEFINE f == ShareFn(rest)
  <2>1. \A p \in rest : f[p] = 0
    BY <1>3 DEF ShareFn
  <2> HIDE DEF f, rest
  <2>2. SumFunctionOnSet(f, rest) = 0
    BY <1>4, <2>1, SumZero
  <2> QED
    BY <2>2 DEF f, Shares, ShareFn
<1>6. Shares(some \cup rest) = Shares(some) + Shares(rest)
  <2> DEFINE f == ShareFn(some \cup rest)
  <2>1. \A p \in some \cup rest : f[p] = Share(p) /\ f[p] \in Int
    BY <1>1, <1>2 DEF ShareFn
  <2> HIDE DEF some, rest
  <2>2. \A p \in some \cup rest : Share(p) \in Int
    BY <2>1
  <2>3. Shares(some \cup rest) = SumFunctionOnSet(f, some \cup rest)
    BY DEF Shares, f, ShareFn
  <2>4. SumFunctionOnSet(ShareFn(some), some) = SumFunctionOnSet(f, some)
    BY <1>4, <2>1, SumSame DEF ShareFn
  <2>5. SumFunctionOnSet(ShareFn(rest), rest) = SumFunctionOnSet(f, rest)
    BY <1>4, <2>1, SumSame DEF ShareFn
  <2> HIDE DEF f
  <2>6. SumFunctionOnSet(f, some \cup rest) = SumFunctionOnSet(f, some) + SumFunctionOnSet(f, rest)
    BY <1>2, <1>4, <2>1, SumUnion
  <2> QED
    BY <2>3, <2>4, <2>5, <2>6 DEF Shares, ShareFn
<1>7. Shares(some) \in Int
  BY <1>2, SharesType
<1>8. CountIn(RefundsLike(l)) \in Int
  BY LikeSums
<1> HIDE DEF some, rest
<1> QED
  BY <1>1, <1>2, <1>5, <1>6, <1>7, <1>8
-----------------------------------------------------------------------------
(* Refunds: the last log of a user has the balance after all of the user's refunds. *)
LEMMA RowsOfLast ==
  ASSUME BaseInv, NotOver, NEW order \in Orderings(Paying), NEW k \in DOMAIN order,
         \A i \in DOMAIN order : order[i].user = order[k].user => i <= k,
         NEW tx, tx.rows = BorneRows
  PROVE  /\ UserRows(tx, order[k].user) = RefundsBefore(order, k) \cup RefundsLike(order[k])
         /\ RefundsBefore(order, k) \cap RefundsLike(order[k]) = {}
         /\ RefundsBefore(order, k) \subseteq caches
<1> DEFINE u == order[k].user
           before == RefundsBefore(order, k)
           like == RefundsLike(order[k])
<1>1. /\ DOMAIN order = 1 .. Cardinality(Paying) /\ Cardinality(Paying) \in Nat
      /\ \A i \in DOMAIN order : order[i] \in Paying
      /\ \A l \in Paying : \E i \in DOMAIN order : order[i] = l
  BY PayingOrder DEF BaseInv
<1>2. ASSUME NEW i \in DOMAIN order
      PROVE  Borne(order[i]) /\ RefundsLike(order[i]) \subseteq BorneRows
  <2>1. order[i] \in Bearing
    BY <1>1 DEF Paying
  <2> QED
    BY <2>1, BearingFacts DEF BaseInv
<1>3. ASSUME NEW r \in BorneRows, r.user = u PROVE r \in before \cup like
  <2>1. PICK p \in Paying : p.user = r.user /\ p.cost = r.cost
    BY SomePays
  <2>2. PICK j \in DOMAIN order : order[j] = p
    BY <1>1
  <2>3. j \in 1 .. k
    BY <1>1, <1>3, <2>1, <2>2
  <2>4. r \in RefundsDue
    BY DEF BorneRows
  <2> QED
    BY <1>3, <2>1, <2>2, <2>3, <2>4 DEF RefundsBefore, RefundsLike
<1>4. ASSUME NEW r \in before PROVE r \in BorneRows /\ r.user = u /\ r \notin like
  <2>1. PICK j \in 1 .. k : order[j].user = r.user /\ order[j].cost = r.cost
    BY DEF RefundsBefore
  <2>2. j \in DOMAIN order
    BY <1>1
  <2>3. r \in RefundsLike(order[j]) /\ r.user = u /\ r.cost # order[k].cost
    BY <2>1 DEF RefundsBefore, RefundsLike
  <2> QED
    BY <1>2, <2>2, <2>3 DEF RefundsLike
<1>5. \A r \in like : r \in BorneRows /\ r.user = u
  BY <1>2, LikeFacts
<1>6. UserRows(tx, u) = before \cup like
  BY <1>3, <1>4, <1>5 DEF UserRows
<1>7. before \cap like = {} /\ before \subseteq caches
  <2>1. BorneRows \subseteq caches
    BY PayingFinite DEF BaseInv
  <2> QED
    BY <1>4, <2>1
<1> QED
  BY <1>6, <1>7

LEMMA RefundsPrepared ==
  ASSUME BaseInv, SInv, NotOver, NEW order \in Orderings(Paying), GroupedNewestFirst(order),
         NEW tx, tx.pc = "read", tx.users = BorneUsers, tx.rows = BorneRows,
         tx.seen = UNION {IdsOf(LastOf(v)) : v \in BorneUsers},
         tx.early = UsersEarly(BorneUsers),
         tx.fresh = LogsOfRefunds(order), DOMAIN tx.fresh = DOMAIN order
  PROVE  Prepared(tx, logs, astray)
<1>1. /\ DOMAIN order = 1 .. Cardinality(Paying) /\ Cardinality(Paying) \in Nat
      /\ \A i \in DOMAIN order : order[i] \in Paying
      /\ \A l \in Paying : \E i \in DOMAIN order : order[i] = l
  BY PayingOrder DEF BaseInv
<1>2. ASSUME NEW i \in DOMAIN order
      PROVE  LogAt(tx, i).user = order[i].user /\ LogAt(tx, i).balance = BalanceOfRefund(order, i)
  <2>1. order[i] \in Paying /\ Typed /\ RowsOk
    BY <1>1 DEF BaseInv
  <2>2. LogsOfRefunds(order)[i].log.user = order[i].user
    BY <2>1, RefundLog
  <2>3. LogsOfRefunds(order)[i].log.balance = BalanceOfRefund(order, i)
    BY <2>1, RefundLog
  <2> QED
    BY <2>2, <2>3 DEF LogAt
<1>3. ASSUME NEW l \in Paying
      PROVE  /\ l \in logs /\ Borne(l) /\ RefundsLike(l) # {} /\ RefundsLike(l) \subseteq BorneRows
             /\ CountIn(RefundsLike(l)) > 0
             /\ \A p \in PaysOf(l.user, l.cost) : Share(p) > 0 => p \in Paying
  <2>1. l \in Bearing
    BY DEF Paying
  <2>2. PICK r \in BorneRows : l \in PaysOf(r.user, r.cost)
    BY <2>1 DEF Bearing
  <2>3. PaysOf(l.user, l.cost) = PaysOf(r.user, r.cost)
    BY <2>2 DEF PaysOf, LogsOf
  <2>4. \A p \in PaysOf(l.user, l.cost) : p \in Bearing
    BY <2>3 DEF Bearing
  <2> QED
    BY <2>1, <2>4, BearingFacts DEF BaseInv, Paying
<1>4. \A r \in BorneRows : \E i \in DOMAIN order : order[i].user = r.user
  <2> TAKE r \in BorneRows
  <2>1. PICK p \in Paying : p.user = r.user
    BY SomePays
  <2> QED
    BY <1>1, <2>1
<1>5. OfUsers(tx)
  <2>1. \A r \in tx.rows : r.user \in tx.users
    BY DEF BorneUsers
  <2>2. \A i \in DOMAIN tx.fresh : LogAt(tx, i).user \in tx.users
    <3> TAKE i \in DOMAIN tx.fresh
    <3>1. PICK r \in RefundsLike(order[i]) : r \in BorneRows
      BY <1>1, <1>3
    <3>2. r.user = order[i].user
      BY <3>1, LikeFacts
    <3> QED
      BY <1>2, <3>1, <3>2 DEF BorneUsers
  <2>3. \A v \in tx.users : IndicesOf(tx, v) # {}
    BY <1>2, <1>4 DEF BorneUsers, IndicesOf
  <2> QED
    BY <2>1, <2>2, <2>3 DEF OfUsers
<1>6. SeenOk(tx, logs)
  BY SeenIds DEF SeenOk
<1>7. IsFiniteSet(DOMAIN tx.fresh) /\ DOMAIN tx.fresh \subseteq Nat
  <2> DEFINE n == Cardinality(Paying)
  <2>1. n \in Nat /\ DOMAIN tx.fresh = 1 .. n
    BY <1>1
  <2> HIDE DEF n
  <2>2. IsFiniteSet(1 .. n) /\ 1 .. n \subseteq Nat
    BY <2>1, FS_Interval
  <2> QED
    BY <2>1, <2>2
<1>8. ASSUME NEW u \in tx.users, u \notin tx.early, astray[u] = {} PROVE Balances(tx, logs, u)
  <2>1. PICK k \in DOMAIN order :
          /\ LastFresh(tx, u) = LogAt(tx, k) /\ LogAt(tx, k).user = u /\ k \in Nat
          /\ \A i \in DOMAIN order : LogAt(tx, i).user = u => i <= k
    BY <1>5, <1>7, LastIndex DEF OfUsers
  <2> DEFINE l == order[k]
             n == CountIn(RefundsLike(l))
             before == RefundsBefore(order, k)
             like == RefundsLike(l)
  <2>2. l \in Paying /\ l.user = u /\ \A i \in DOMAIN order : order[i].user = u => i <= k
    BY <1>1, <1>2, <2>1
  <2>3. \A p \in PaysOf(l.user, l.cost) : Share(p) > 0 => p.id >= l.id
    <3> SUFFICES ASSUME NEW p \in PaysOf(l.user, l.cost), Share(p) > 0 PROVE p.id >= l.id
      OBVIOUS
    <3>1. p \in Paying /\ p.user = l.user /\ p.cost = l.cost
      BY <1>3, <2>2 DEF PaysOf, LogsOf
    <3>2. PICK j \in DOMAIN order : order[j] = p
      BY <1>1, <3>1
    <3>3. p.id \in Nat /\ l.id \in Nat /\ j \in Nat /\ j <= k
      <4>1. p \in logs /\ l \in logs
        BY <1>3, <2>2, <3>1
      <4>2. p.id \in Nat /\ l.id \in Nat
        BY <4>1 DEF BaseInv, Typed, FiatLog
      <4>3. j \in Nat /\ j <= k
        BY <1>1, <2>2, <3>1, <3>2
      <4> QED
        BY <4>2, <4>3
    <3>4. CASE j = k
      BY <3>2, <3>3, <3>4
    <3>5. CASE j # k
      <4>1. j < k
        BY <2>1, <3>3, <3>5
      <4>2. PaysOf(order[j].user, order[j].cost) = PaysOf(order[k].user, order[k].cost)
        BY <3>1, <3>2
      <4>3. order[j].id > order[k].id
        BY <4>1, <4>2 DEF GroupedNewestFirst
      <4> QED
        BY <3>2, <3>3, <4>3
    <3> QED
      BY <3>4, <3>5
  <2>4. Shares(NewerOf(l)) = n
    BY <1>3, <2>2, <2>3, SharesOfLast DEF BaseInv, IdsInv
  <2>5. UserRows(tx, u) = before \cup like /\ before \cap like = {} /\ before \subseteq caches
    BY <2>2, RowsOfLast
  <2>6. /\ IsFiniteSet(before) /\ IsFiniteSet(like) /\ AmountIn(before) \in Int /\ AmountIn(like) \in Int
        /\ n \in Nat /\ n > 0 /\ \A r \in before \cup like : r.amount \in Int
    <3>1. Typed /\ like \in SUBSET caches
      BY LikeSums DEF BaseInv
    <3>2. IsFiniteSet(before) /\ AmountIn(before) \in Int
      <4> HIDE DEF before
      <4> QED
        BY <2>5, <3>1, RowSums DEF Typed
    <3>3. IsFiniteSet(like) /\ AmountIn(like) \in Int /\ n \in Nat
      BY <3>1, LikeSums
    <3>4. \A r \in before \cup like : r.amount \in Int
      BY <2>5, <3>1 DEF Typed, CacheRow
    <3> QED
      BY <1>3, <2>2, <3>2, <3>3, <3>4
  <2>7. LastBalance(u) = BaseOf(Of(logs, u)) /\ LastBalance(u) \in Int
    <3>1. u \in User
      BY PayingFinite DEF BaseInv
    <3>2. u \notin UsersEarly({u})
      BY <1>8 DEF UsersEarly
    <3>3. LogsOf(u) = Of(logs, u)
      BY DEF LogsOf, Of
    <3> QED
      BY <1>8, <3>1, <3>2, <3>3, ReadBalance, LastBalanceType DEF BaseInv, IdsInv, SInv
  <2>8. BalanceOfRefund(order, k)
          = Rounded((LastBalance(u) + AmountIn(before)) * n + AmountIn(like) * n, n)
    BY <2>2, <2>4 DEF BalanceOfRefund
  <2> HIDE DEF l, n, before, like
  <2>9. BalanceOfRefund(order, k) = LastBalance(u) + AmountIn(before) + AmountIn(like)
    <3> DEFINE x == LastBalance(u) + AmountIn(before) + AmountIn(like)
    <3>1. x \in Int /\ (LastBalance(u) + AmountIn(before)) * n + AmountIn(like) * n = x * n
      BY <2>6, <2>7
    <3>2. Rounded(x * n, n) = x
      <4> HIDE DEF x
      <4> QED
        BY <2>6, <3>1, RoundedWhole
    <3> QED
      BY <2>8, <3>1, <3>2
  <2>10. AmountIn(UserRows(tx, u)) = AmountIn(before) + AmountIn(like)
    BY <2>5, <2>6, AmountUnion
  <2> QED
    BY <1>2, <2>1, <2>6, <2>7, <2>9, <2>10 DEF Balances
<1>9. BalancesOk(tx, logs, astray)
  BY <1>8 DEF BalancesOk
<1> QED
  BY <1>5, <1>6, <1>9 DEF Prepared

LEMMA RefundsReadSync ==
  ASSUME BaseInv, SInv, NotOver, RefundsRead
  PROVE  SInv'
<1>1. UNCHANGED <<caches, logs, balance, balanceOnFiatlog, post, astray>>
  BY RefundsReadFields DEF BaseInv
<1>2. CASE merge' = NoTx
  BY <1>1, <1>2, ClosedMergePrepared, SyncKept DEF SInv
<1>3. ASSUME NEW order \in Orderings(Paying), GroupedNewestFirst(order),
             merge'.pc = "read", merge'.users = BorneUsers, merge'.rows = BorneRows,
             merge'.seen = UNION {IdsOf(LastOf(v)) : v \in BorneUsers},
             merge'.early = UsersEarly(BorneUsers),
             merge'.fresh = LogsOfRefunds(order), DOMAIN merge'.fresh = DOMAIN order
      PROVE  SInv'
  <2> DEFINE tx == merge'
  <2>1. /\ tx.pc = "read" /\ tx.users = BorneUsers /\ tx.rows = BorneRows
        /\ tx.seen = UNION {IdsOf(LastOf(v)) : v \in BorneUsers}
        /\ tx.early = UsersEarly(BorneUsers)
        /\ tx.fresh = LogsOfRefunds(order) /\ DOMAIN tx.fresh = DOMAIN order
    BY <1>3
  <2> HIDE DEF tx
  <2>2. Prepared(tx, logs, astray)
    BY <1>3, <2>1, RefundsPrepared
  <2> QED
    BY <1>1, <2>2, MergeReadsSync DEF tx
<1> QED
  BY <1>2, <1>3, RefundsReadFields DEF BaseInv
-----------------------------------------------------------------------------
LEMMA SyncInit ==
  ASSUME Init
  PROVE  SInv
<1>1. PICK id \in [Payers -> Nat] :
        /\ caches = {FirstRow(u, id[u]) : u \in Payers}
        /\ logs = {FirstLog(u, id[u]) : u \in Payers}
  BY FirstRows
<1>2. BaseInv
  BY BaseInit
<1>3. /\ post = NoTx /\ merge = NoTx /\ balance = Deposited /\ balanceOnFiatlog = Deposited
      /\ Deposited \in [User -> Nat]
  BY MergeAssumption DEF Init
<1>4. post.pc = "idle" /\ merge.pc = "idle"
  BY <1>3 DEF NoTx
<1>5. PostPrepared /\ MergePrepared /\ TodoOk /\ LoggedOk
  BY <1>4, PreparedClosed DEF PostPrepared, MergePrepared, TodoOk, LoggedOk, OpenTx
<1>6. ASSUME NEW u \in User PROVE OnLogs(u)
  <2>1. Stored(u) = 0
    BY <1>4, StoredNone
  <2>2. \A r \in caches : r.merged = TRUE
    BY <1>1 DEF FirstRow
  <2>3. Unmerged(u) = {}
    BY <2>2 DEF Unmerged
  <2>4. AmountIn(Unmerged(u)) = 0
    BY <2>3, AmountNone
  <2>5. \A l \in logs : l.user \in Payers /\ l.balance = Deposited[l.user]
    BY <1>1 DEF FirstLog
  <2>6. BaseOf(LogsOf(u)) = Deposited[u]
    <3>1. CASE LogsOf(u) = {}
      <4>1. u \notin Payers
        <5>1. u \in Payers => FirstLog(u, id[u]) \in logs /\ FirstLog(u, id[u]).user = u
          BY <1>1 DEF FirstLog
        <5> QED
          BY <3>1, <5>1 DEF LogsOf
      <4>2. Deposited[u] = 0
        BY <1>3, <4>1 DEF Payers
      <4> QED
        BY <3>1, <4>2 DEF BaseOf
    <3>2. CASE LogsOf(u) # {}
      <4>1. LogSet(LogsOf(u))
        BY <1>2, LogsOfSet DEF BaseInv, IdsInv
      <4>2. PICK l \in LogsOf(u) : BaseOf(LogsOf(u)) = l.balance
        BY <3>2, <4>1, LastOne
      <4> QED
        BY <2>5, <4>2 DEF LogsOf
    <3> QED
      BY <3>1, <3>2
  <2> QED
    BY <1>3, <2>1, <2>4, <2>6 DEF OnLogs
<1> QED
  BY <1>5, <1>6 DEF SInv, AllOnLogs

LEMMA SyncStep ==
  ASSUME BaseInv, AliveInv, SInv, [Next]_vars
  PROVE  SInv'
<1>1. CASE UNCHANGED vars
  BY <1>1, QuietSync
<1>2. CASE \E p \in Postings : PostApi(p) \/ PostBegin(p)
  BY <1>2, PostApiSync, PostBeginSync
<1>3. CASE PostSteps
  BY <1>3, PostInsertSync, PostCommitSync, PostBalanceSync DEF PostSteps
<1>4. CASE MergeSteps
  <2>1. NotOver
    BY DEF AliveInv
  <2> QED
    BY <1>4, <2>1, QuietSync, RefundsReadSync, MergeInsertSync, MergeCommitSync, MergeReadSync
       DEF MergeSteps
<1>5. CASE NextDay \/ MergeFails
  BY <1>5, QuietSync
<1>6. CASE Crash
  BY <1>6, CrashSync
<1>7. CASE UpdateCreated
  BY <1>7, UpdateSync
<1> QED
  BY <1>1, <1>2, <1>3, <1>4, <1>5, <1>6, <1>7 DEF Next

(* user_balance.go:16 "与Fiatlog同步的余额", and fiat_log.go:110-131: for every workload and
   page size, whatever crashes and merges begun anew come between, the balance of the last
   log and the rows that still wait give the balance of a user, and balance_on_fiatlog is
   that of the last log unless refunds of API fees are the last logs (fiat_log_cache.go:245);
   but for a user whose running balance one of the reasons that astray names has led astray. *)
THEOREM LogsInSync == Spec => []LogSynced
<1>1. Init => BaseInv /\ AliveInv /\ SInv
  BY BaseInit, AliveInit, SyncInit
<1>2. BaseInv /\ AliveInv /\ SInv /\ [Next]_vars => (BaseInv /\ AliveInv /\ SInv)'
  BY BaseStep, AliveStep, SyncStep
<1>3. BaseInv /\ SInv => LogSynced
  BY SInvSynced
<1> QED
  BY <1>1, <1>2, <1>3, PTL DEF Spec
-----------------------------------------------------------------------------
(* What is merged has its amount: the logs of the same rows have together the amount of
   these rows, exactly if there is one, off by at most half a fen a log if there are
   several; so has what a transaction is going to write. *)
Near(d, n) == -n <= 2 * d /\ 2 * d <= n
PartCount(S) == IF Cardinality(S) <= 1 THEN 0 ELSE Cardinality(S)

AmountAlike(tx, i) == SumFunctionOnSet([j \in Alike(tx, i) |-> LogAt(tx, j).amount], Alike(tx, i))
TxParts(tx) ==
  \A i \in DOMAIN tx.fresh :
    Near(AmountAlike(tx, i) - AmountIn(RowsAt(tx, i)), PartCount(Alike(tx, i)))
LogParts ==
  \A l \in logs : Near(AmountIn(LogsAlike(l)) - AmountIn(RowsOf(l)), PartCount(LogsAlike(l)))
PartsInv == TxParts(post) /\ TxParts(merge) /\ LogParts

LEMMA PartCountIs ==
  ASSUME NEW S, IsFiniteSet(S), S # {}
  PROVE  /\ IsFiniteSet({x \in S : \E y \in S : y # x})
         /\ Cardinality({x \in S : \E y \in S : y # x}) = PartCount(S)
<1> DEFINE P == {x \in S : \E y \in S : y # x}
<1>1. Cardinality(S) \in Nat /\ Cardinality(S) # 0
  BY FS_CardinalityType, FS_EmptySet
<1>2. CASE \E x : S = {x}
  <2>1. P = {}
    BY <1>2
  <2>2. Cardinality(S) = 1
    BY <1>2, FS_Singleton
  <2> QED
    BY <2>1, <2>2, FS_EmptySet DEF PartCount
<1>3. CASE ~\E x : S = {x}
  <2>1. P = S
    BY <1>3
  <2>2. Cardinality(S) # 1
    BY <1>3, FS_Singleton
  <2> QED
    BY <1>1, <2>1, <2>2 DEF PartCount
<1> QED
  BY <1>2, <1>3

(* Sets of logs that have, with a log, the others of its rows. *)
Closed(s) == \A l \in s : LogsAlike(l) \subseteq s
RowsIn(s) == {r \in caches : \E l \in s : r.id \in l.ids}
PartsIn(s) == {l \in s : \E m \in s : m # l /\ m.ids = l.ids}
OffBy(s) == AmountIn(s) - AmountIn(RowsIn(s))

LEMMA LogSums ==
  ASSUME Typed, NEW s \in SUBSET logs
  PROVE  /\ IsFiniteSet(s) /\ s \subseteq FiatLog /\ AmountIn(s) \in Int
         /\ \A l \in s : l.amount \in Int
         /\ IsFiniteSet(PartsIn(s)) /\ Cardinality(PartsIn(s)) \in Nat
<1>1. IsFiniteSet(s) /\ s \subseteq FiatLog
  BY FS_Subset DEF Typed
<1>2. \A l \in s : l.amount \in Int
  BY <1>1 DEF FiatLog
<1>3. AmountIn(s) \in Int
  BY <1>1, <1>2, AmountType
<1>4. IsFiniteSet(PartsIn(s))
  <2>1. PartsIn(s) \in SUBSET s
    BY DEF PartsIn
  <2> QED
    BY <1>1, <2>1, FS_Subset
<1> QED
  BY <1>1, <1>2, <1>3, <1>4, FS_CardinalityType

LEMMA CacheSums ==
  ASSUME Typed, NEW P \in SUBSET caches
  PROVE  IsFiniteSet(P) /\ AmountIn(P) \in Int /\ \A r \in P : r.amount \in Int
<1>1. IsFiniteSet(P) /\ \A r \in P : r \in CacheRow
  BY FS_Subset DEF Typed
<1>2. \A r \in P : r.amount \in Int
  BY <1>1 DEF CacheRow
<1> QED
  BY <1>1, <1>2, AmountType

(* The logs of the same rows as one of them, and the rest. *)
LEMMA WithoutAlike ==
  ASSUME Typed, LogsOk, LogsApart, NEW t \in SUBSET logs, Closed(t), NEW l \in t
  PROVE  /\ Closed(t \ LogsAlike(l))
         /\ AmountIn(t) = AmountIn(LogsAlike(l)) + AmountIn(t \ LogsAlike(l))
         /\ AmountIn(RowsIn(t)) = AmountIn(RowsOf(l)) + AmountIn(RowsIn(t \ LogsAlike(l)))
         /\ Cardinality(PartsIn(t)) = PartCount(LogsAlike(l)) + Cardinality(PartsIn(t \ LogsAlike(l)))
<1> DEFINE C == LogsAlike(l)
           rest == t \ C
<1>1. C \in SUBSET t /\ rest \in SUBSET logs /\ C \in SUBSET logs /\ l \in C
  BY DEF Closed, LogsAlike
<1>2. \A k \in rest, m \in C : k.ids # m.ids
  BY DEF LogsAlike
<1>3. Closed(rest)
  <2>1. SUFFICES ASSUME NEW k \in rest, NEW m \in LogsAlike(k) PROVE m \in rest
    BY DEF Closed
  <2>2. m \in t /\ m.ids = k.ids
    BY <2>1 DEF Closed, LogsAlike
  <2> QED
    BY <1>2, <2>1, <2>2
<1>4. C \cap rest = {} /\ C \cup rest = t
  BY <1>1
<1>5. AmountIn(t) = AmountIn(C) + AmountIn(rest)
  <2>1. IsFiniteSet(C) /\ IsFiniteSet(rest) /\ \A x \in C \cup rest : x.amount \in Int
    <3> HIDE DEF C, rest
    <3> QED
      BY <1>1, <1>4, LogSums
  <2> HIDE DEF C, rest
  <2> QED
    BY <1>4, <2>1, AmountUnion
<1>6. RowsIn(t) = RowsOf(l) \cup RowsIn(rest) /\ RowsOf(l) \cap RowsIn(rest) = {}
  <2>1. \A k \in C : k.ids = l.ids
    BY DEF LogsAlike
  <2>2. \A k \in rest : k.ids \cap l.ids = {}
    <3> TAKE k \in rest
    <3>1. k \in logs /\ l \in logs /\ k.ids # l.ids
      BY <1>1, <1>2
    <3> HIDE DEF C, rest
    <3> QED
      BY <3>1 DEF LogsApart, Split
  <2> HIDE DEF C, rest
  <2> QED
    BY <1>1, <1>4, <2>1, <2>2 DEF RowsIn, RowsOf
<1>7. AmountIn(RowsIn(t)) = AmountIn(RowsOf(l)) + AmountIn(RowsIn(rest))
  <2>1. RowsOf(l) \in SUBSET caches /\ RowsIn(rest) \in SUBSET caches
    BY DEF RowsOf, RowsIn
  <2>2. /\ IsFiniteSet(RowsOf(l)) /\ IsFiniteSet(RowsIn(rest))
        /\ \A x \in RowsOf(l) \cup RowsIn(rest) : x.amount \in Int
    BY <2>1, CacheSums
  <2> HIDE DEF rest
  <2> QED
    BY <1>6, <2>2, AmountUnion
<1>8. PartsIn(C) = {x \in C : \E y \in C : y # x}
  BY DEF PartsIn, LogsAlike
<1>9. PartsIn(t) = PartsIn(C) \cup PartsIn(rest) /\ PartsIn(C) \cap PartsIn(rest) = {}
  <2> HIDE DEF C, rest
  <2> QED
    BY <1>2, <1>4 DEF PartsIn
<1>10. Cardinality(PartsIn(t)) = PartCount(C) + Cardinality(PartsIn(rest))
  <2> HIDE DEF C, rest
  <2>1. IsFiniteSet(C) /\ C # {}
    BY <1>1, LogSums
  <2>2. IsFiniteSet(PartsIn(C)) /\ Cardinality(PartsIn(C)) = PartCount(C)
    BY <1>8, <2>1, PartCountIs
  <2>3. IsFiniteSet(PartsIn(rest)) /\ Cardinality(PartsIn(rest)) \in Nat
    BY <1>1, LogSums
  <2>4. Cardinality(PartsIn(C)) \in Nat
    BY <1>1, LogSums
  <2>5. Cardinality(PartsIn(C) \cap PartsIn(rest)) = 0
    BY <1>9, FS_EmptySet
  <2>6. Cardinality(PartsIn(C) \cup PartsIn(rest))
          = Cardinality(PartsIn(C)) + Cardinality(PartsIn(rest)) - Cardinality(PartsIn(C) \cap PartsIn(rest))
    BY <2>2, <2>3, FS_Union
  <2> QED
    BY <1>9, <2>2, <2>3, <2>4, <2>5, <2>6
<1> QED
  BY <1>3, <1>5, <1>7, <1>10

LEMMA PartsAddUp ==
  ASSUME Typed, LogsOk, LogsApart, LogParts, NEW s \in SUBSET logs, Closed(s)
  PROVE  Near(OffBy(s), Cardinality(PartsIn(s)))
<1> DEFINE T == {t \in SUBSET logs : Closed(t) /\ ~Near(OffBy(t), Cardinality(PartsIn(t)))}
<1>1. SUFFICES ASSUME T # {} PROVE FALSE
  OBVIOUS
<1>2. PICK t \in T : \A r \in T : ~(r \subseteq t /\ r # t)
  <2>1. T \subseteq SUBSET logs
    OBVIOUS
  <2>2. IsFiniteSet(logs)
    BY DEF Typed
  <2> HIDE DEF T
  <2> QED
    BY <1>1, <2>1, <2>2, LeastSubset
<1>3. t \in SUBSET logs /\ Closed(t) /\ ~Near(OffBy(t), Cardinality(PartsIn(t)))
  BY <1>2
<1>4. t # {}
  <2>1. ASSUME t = {} PROVE FALSE
    <3>1. RowsIn(t) = {} /\ PartsIn(t) = {}
      BY <2>1 DEF RowsIn, PartsIn
    <3>2. OffBy(t) = 0 /\ Cardinality(PartsIn(t)) = 0
      BY <2>1, <3>1, AmountNone, FS_EmptySet DEF OffBy
    <3> HIDE DEF T
    <3> QED
      BY <1>3, <3>2 DEF Near
  <2> QED
    BY <2>1
<1>5. PICK l \in t : TRUE
  BY <1>4
<1> DEFINE rest == t \ LogsAlike(l)
<1>6. rest \in SUBSET logs /\ rest # t /\ rest \subseteq t /\ RowsIn(rest) \in SUBSET caches
  BY <1>3, <1>5 DEF LogsAlike, RowsIn
<1>7. /\ Closed(rest)
      /\ AmountIn(t) = AmountIn(LogsAlike(l)) + AmountIn(rest)
      /\ AmountIn(RowsIn(t)) = AmountIn(RowsOf(l)) + AmountIn(RowsIn(rest))
      /\ Cardinality(PartsIn(t)) = PartCount(LogsAlike(l)) + Cardinality(PartsIn(rest))
  BY <1>3, <1>5, WithoutAlike
<1>8. Near(OffBy(rest), Cardinality(PartsIn(rest)))
  BY <1>2, <1>6, <1>7
<1>9. Near(AmountIn(LogsAlike(l)) - AmountIn(RowsOf(l)), PartCount(LogsAlike(l)))
  BY <1>3, <1>5 DEF LogParts
<1>10. /\ AmountIn(LogsAlike(l)) \in Int /\ AmountIn(RowsOf(l)) \in Int /\ PartCount(LogsAlike(l)) \in Nat
       /\ AmountIn(rest) \in Int /\ AmountIn(RowsIn(rest)) \in Int /\ Cardinality(PartsIn(rest)) \in Nat
  <2>1. LogsAlike(l) \in SUBSET logs /\ RowsOf(l) \in SUBSET caches
    BY DEF LogsAlike, RowsOf
  <2>2. Cardinality(LogsAlike(l)) \in Nat
    BY <2>1, LogSums, FS_CardinalityType
  <2> HIDE DEF rest
  <2> QED
    BY <1>6, <2>1, <2>2, LogSums, CacheSums DEF PartCount
<1> HIDE DEF T, rest
<1> QED
  BY <1>3, <1>7, <1>8, <1>9, <1>10 DEF Near, OffBy

LEMMA PartsKept ==
  ASSUME Typed, RowsOk, LogsOk, MergedInv, LogParts
  PROVE  AmountsKept
<1>1. SUFFICES ASSUME NEW u \in User, NEW t \in FiatLogType
      PROVE  LET mine == {l \in LogsOf(u) : l.type = t}
                 off == AmountIn(mine) - AmountIn({r \in caches : r.user = u /\ r.type = t /\ r.merged})
                 parts == Cardinality({l \in mine : \E m \in mine : m # l /\ m.ids = l.ids})
             IN -parts <= 2 * off /\ 2 * off <= parts
  BY DEF AmountsKept
<1> DEFINE mine == {l \in LogsOf(u) : l.type = t}
<1>2. mine \in SUBSET logs /\ \A l \in mine : l.user = u /\ l.type = t
  BY DEF LogsOf
(* A merged row tells the user and type of its logs. *)
<1>3. ASSUME NEW l \in logs, NEW r \in caches, r.id \in l.ids
      PROVE  r.merged /\ l.user = r.user /\ l.type = r.type
  <2>1. PICK q \in {s \in caches : s.merged} : q.id = r.id /\ q.user = l.user /\ q.type = l.type
    BY <1>3 DEF MergedInv, MergedLogs, Merges
  <2>2. q = r
    BY <2>1 DEF RowsOk, UniqueIds
  <2> QED
    BY <2>1, <2>2
<1>4. Closed(mine)
  <2>1. SUFFICES ASSUME NEW l \in mine, NEW m \in logs, m.ids = l.ids PROVE m \in mine
    BY DEF Closed, LogsAlike
  <2>2. l \in logs /\ l.ids # {} /\ l.ids \subseteq IdsOf(caches) /\ l.user = u /\ l.type = t
    BY <1>2 DEF LogsOk
  <2>3. PICK r \in caches : r.id \in l.ids
    BY <2>2 DEF IdsOf
  <2>4. m.user = u /\ m.type = t
    BY <1>3, <2>1, <2>2, <2>3
  <2> QED
    BY <2>4 DEF LogsOf
<1>5. RowsIn(mine) = {r \in caches : r.user = u /\ r.type = t /\ r.merged}
  <2>1. ASSUME NEW r \in RowsIn(mine) PROVE r \in caches /\ r.user = u /\ r.type = t /\ r.merged
    <3>1. PICK l \in mine : r.id \in l.ids /\ r \in caches
      BY DEF RowsIn
    <3> QED
      BY <1>2, <1>3, <3>1
  <2>2. ASSUME NEW r \in caches, r.user = u, r.type = t, r.merged PROVE r \in RowsIn(mine)
    <3>1. PICK l \in logs : r.id \in l.ids
      BY <2>2 DEF MergedInv, MergedRows
    <3>2. l \in mine
      BY <1>3, <2>2, <3>1 DEF LogsOf
    <3> QED
      BY <3>1, <3>2 DEF RowsIn
  <2> HIDE DEF mine
  <2> QED
    BY <2>1, <2>2
<1>6. Near(OffBy(mine), Cardinality(PartsIn(mine)))
  <2> HIDE DEF mine
  <2> QED
    BY <1>2, <1>4, PartsAddUp DEF MergedInv
<1>7. PartsIn(mine) = {l \in mine : \E m \in mine : m # l /\ m.ids = l.ids}
  BY DEF PartsIn
<1> HIDE DEF mine
<1>8. LET off == AmountIn(mine) - AmountIn({r \in caches : r.user = u /\ r.type = t /\ r.merged})
          parts == Cardinality({l \in mine : \E m \in mine : m # l /\ m.ids = l.ids})
      IN -parts <= 2 * off /\ 2 * off <= parts
  BY <1>5, <1>6, <1>7 DEF Near, OffBy
<1> QED
  BY <1>8 DEF mine

(* The same logs, and the same rows, before and after a step. *)
LEMMA LogTwins ==
  ASSUME NEW S, IsFiniteSet(S), S \subseteq FiatLog, UniqueIds(S), NEW R, UniqueIds(R),
         \A y \in R : \E x \in S : Kin(x, y), \A x \in S : \E y \in R : Kin(x, y)
  PROVE  AmountIn(R) = AmountIn(S) /\ PartCount(R) = PartCount(S)
<1>1. IdsOf(S) = IdsOf(R)
  BY DEF IdsOf, Kin
<1>2. \A x \in S, y \in R : x.id = y.id => x.amount = y.amount
  BY DEF Kin, UniqueIds
<1>3. \A x \in S : x.amount \in Int
  BY DEF FiatLog
<1>4. AmountIn(R) = AmountIn(S)
  BY <1>1, <1>2, <1>3, AmountById
<1>5. Cardinality(R) = Cardinality(S)
  <2>1. SameIds(S, R)
    BY <1>1 DEF IdsOf, SameIds
  <2> QED
    BY <2>1, CardinalityById
<1> QED
  BY <1>4, <1>5 DEF PartCount

LEMMA RowTwins ==
  ASSUME NEW P, IsFiniteSet(P), P \subseteq CacheRow, UniqueIds(P), NEW Q, UniqueIds(Q),
         \A y \in Q : \E x \in P : SameRow(x, y), \A x \in P : \E y \in Q : SameRow(x, y)
  PROVE  AmountIn(Q) = AmountIn(P)
<1>1. IdsOf(P) = IdsOf(Q)
  BY DEF IdsOf, SameRow
<1>2. \A x \in P, y \in Q : x.id = y.id => x.amount = y.amount
  BY DEF SameRow, UniqueIds
<1>3. \A x \in P : x.amount \in Int
  BY DEF CacheRow
<1> QED
  BY <1>1, <1>2, <1>3, AmountById

LEMMA CommitOldParts ==
  ASSUME Typed, RowsOk, LogsOk, NEW tx, NEW types, Ready(tx, types), Groups(tx), MergedInv, LogParts,
         NEW l \in logs, NEW m \in logs', Kin(l, m)
  PROVE  Near(AmountIn(LogsAlike(m)') - AmountIn(RowsOf(m)'), PartCount(LogsAlike(m)'))
<1> DEFINE S == {k \in logs : k.ids = l.ids}
           R == {k \in logs' : k.ids = m.ids}
           P == {r \in caches : r.id \in l.ids}
           Q == {r \in caches' : r.id \in m.ids}
<1>1. m.ids = l.ids /\ l.ids # {}
  BY DEF Kin, LogsOk
<1>2. /\ \A k \in logs, i \in DOMAIN tx.fresh : k.ids \cap LogAt(tx, i).ids = {}
      /\ \A k \in logs, q \in tx.rows : q.id \notin k.ids
  BY OldAndNew DEF Groups, MergedInv
<1>3. \A y \in R : \E k \in S : Kin(k, y)
  <2> TAKE y \in R
  <2>1. y \notin Inserted(tx)
    <3>1. SUFFICES ASSUME NEW i \in DOMAIN tx.fresh, y = InsertedAt(tx, i) PROVE FALSE
      BY CommitOrigins
    <3>2. y.ids = LogAt(tx, i).ids
      BY <3>1, CommitOrigins
    <3> QED
      BY <1>1, <1>2, <3>2
  <2>2. PICK k \in logs : Kin(k, y)
    BY <2>1, CommitOrigins
  <2> QED
    BY <1>1, <2>2 DEF Kin
<1>4. \A x \in S : \E y \in R : Kin(x, y)
  <2> TAKE x \in S
  <2>1. PICK y \in logs' : Kin(x, y)
    BY CommitOrigins
  <2> QED
    BY <1>1, <2>1 DEF Kin
<1>5. AmountIn(R) = AmountIn(S) /\ PartCount(R) = PartCount(S)
  <2>1. IsFiniteSet(S) /\ S \subseteq FiatLog
    <3>1. S \in SUBSET logs
      OBVIOUS
    <3> QED
      BY <3>1, FS_Subset DEF Typed
  <2>2. UniqueIds(S) /\ UniqueIds(R)
    <3>1. UniqueIds(logs')
      BY CommitOrigins
    <3> QED
      BY <3>1 DEF LogsOk, UniqueIds
  <2> HIDE DEF S, R
  <2> QED
    BY <1>3, <1>4, <2>1, <2>2, LogTwins
<1>6. \A y \in Q : \E r \in P : SameRow(r, y)
  <2> TAKE y \in Q
  <2>1. CASE OldRow(tx, y)
    BY <1>1, <2>1 DEF OldRow, SameRow
  <2>2. CASE NewRow(tx, y)
    BY <1>1, <1>2, <2>2 DEF NewRow, SameRow
  <2> QED
    BY <2>1, <2>2 DEF Ready, RowsWritten
<1>7. \A x \in P : \E y \in Q : SameRow(x, y)
  <2> TAKE x \in P
  <2>1. PICK y \in caches' : SameRow(x, y)
    BY DEF Ready, RowsWritten
  <2> QED
    BY <1>1, <2>1 DEF SameRow
<1>8. AmountIn(Q) = AmountIn(P)
  <2>1. IsFiniteSet(P) /\ P \subseteq CacheRow
    <3>1. P \in SUBSET caches
      OBVIOUS
    <3> QED
      BY <3>1, FS_Subset DEF Typed
  <2>2. UniqueIds(P) /\ UniqueIds(Q)
    BY DEF RowsOk, Ready, RowsWritten, UniqueIds
  <2> HIDE DEF P, Q
  <2> QED
    BY <1>6, <1>7, <2>1, <2>2, RowTwins
<1>9. Near(AmountIn(S) - AmountIn(P), PartCount(S))
  BY DEF LogParts, LogsAlike, RowsOf
<1>10. LogsAlike(m)' = R /\ RowsOf(m)' = Q
  BY DEF LogsAlike, RowsOf
<1> HIDE DEF P, Q, R, S
<1> QED
  BY <1>5, <1>8, <1>9, <1>10

LEMMA CommitNewParts ==
  ASSUME Typed, RowsOk, LogsOk, NEW tx, NEW types, Ready(tx, types), Groups(tx), MergedInv, TxParts(tx),
         NEW i \in DOMAIN tx.fresh, NEW m \in logs', m = InsertedAt(tx, i)
  PROVE  Near(AmountIn(LogsAlike(m)') - AmountIn(RowsOf(m)'), PartCount(LogsAlike(m)'))
<1> DEFINE A == Alike(tx, i)
           R == {k \in logs' : k.ids = m.ids}
           P == RowsAt(tx, i)
           Q == {r \in caches' : r.id \in m.ids}
           g == [j \in A |-> InsertedAt(tx, j)]
           f == [j \in A |-> LogAt(tx, j).amount]
           h == [k \in R |-> k.amount]
<1>1. m.ids = LogAt(tx, i).ids /\ m.ids # {} /\ m.ids \subseteq IdsOf(tx.rows)
  BY CommitOrigins
<1>2. \A k \in logs : k.ids \cap m.ids = {}
  BY <1>1, OldAndNew DEF Groups, MergedInv
<1>3. \A j \in A : /\ j \in DOMAIN tx.fresh /\ j \in Nat /\ tx.first \in Nat
                   /\ InsertedAt(tx, j) \in logs' /\ InsertedAt(tx, j).id = tx.first + j
                   /\ InsertedAt(tx, j).ids = m.ids
                   /\ InsertedAt(tx, j).amount = LogAt(tx, j).amount
  <2> TAKE j \in A
  <2>1. j \in DOMAIN tx.fresh /\ LogAt(tx, j).ids = LogAt(tx, i).ids
    BY DEF Alike
  <2> HIDE DEF A
  <2> QED
    BY <1>1, <2>1, CommitOrigins
<1>4. \A j \in A : LogAt(tx, j).amount \in Int
  <2> TAKE j \in A
  <2>1. j \in DOMAIN tx.fresh /\ TxTyped(tx)
    BY DEF Alike, Ready
  <2>2. tx.fresh[j] \in FreshLog
    BY <2>1, TxFields
  <2> QED
    BY <2>2 DEF LogAt, FreshLog, FiatLog
<1>5. IsFiniteSet(A)
  <2>1. A \in SUBSET DOMAIN tx.fresh
    BY DEF Alike
  <2>2. IsFiniteSet(DOMAIN tx.fresh)
    BY CommitOrigins
  <2> HIDE DEF A
  <2> QED
    BY <2>1, <2>2, FS_Subset
<1>6. \A k \in R : \E j \in A : k = InsertedAt(tx, j)
  <2> TAKE k \in R
  <2>1. ASSUME NEW l \in logs, Kin(l, k) PROVE FALSE
    BY <1>1, <1>2, <2>1 DEF Kin
  <2>2. k \in Inserted(tx)
    BY <2>1, CommitOrigins
  <2>3. PICK j \in DOMAIN tx.fresh : k = InsertedAt(tx, j)
    BY <2>2, CommitOrigins
  <2>4. k.ids = LogAt(tx, j).ids
    BY <2>3, CommitOrigins
  <2> QED
    BY <1>1, <2>3, <2>4 DEF Alike
<1>7. Pairs(g, A, R)
  <2>1. \A j \in A : InsertedAt(tx, j) \in R
    BY <1>3
  <2>2. \A j, k \in A : InsertedAt(tx, j) = InsertedAt(tx, k) => j = k
    <3> SUFFICES ASSUME NEW j \in A, NEW k \in A, InsertedAt(tx, j) = InsertedAt(tx, k) PROVE j = k
      OBVIOUS
    <3>1. tx.first + j = tx.first + k
      BY <1>3
    <3> QED
      BY <1>3, <3>1
  <2> HIDE DEF A, R
  <2> QED
    BY <1>6, <2>1, <2>2 DEF Pairs
<1>8. \A j \in A : f[j] \in Int /\ h[g[j]] = f[j]
  BY <1>3, <1>4
<1>9. AmountIn(R) = AmountAlike(tx, i)
  <2>1. AmountIn(R) = SumFunctionOnSet(h, R) /\ AmountAlike(tx, i) = SumFunctionOnSet(f, A)
    BY DEF AmountIn, AmountAlike
  <2> HIDE DEF A, R, f, g, h
  <2> QED
    BY <1>5, <1>7, <1>8, <2>1, SumBijection
<1>10. PartCount(R) = PartCount(A)
  <2> HIDE DEF A, R, g
  <2>1. g \in Bijection(A, R)
    BY <1>7 DEF Pairs, Bijection, Injection, Surjection, IsInjective
  <2>2. ExistsBijection(A, R)
    BY <2>1 DEF ExistsBijection
  <2>3. Cardinality(R) = Cardinality(A)
    BY <1>5, <2>2, FS_Bijection
  <2> QED
    BY <2>3 DEF PartCount
<1>11. \A y \in Q : \E q \in P : SameRow(q, y)
  <2> TAKE y \in Q
  <2>1. ASSUME OldRow(tx, y) PROVE FALSE
    <3>1. PICK r \in caches : SameRow(r, y) /\ r.id \notin IdsOf(tx.rows)
      BY <2>1 DEF OldRow
    <3> QED
      BY <1>1, <3>1 DEF SameRow
  <2>2. NewRow(tx, y)
    BY <2>1 DEF Ready, RowsWritten
  <2>3. PICK q \in tx.rows : SameRow(q, y)
    BY <2>2 DEF NewRow
  <2> QED
    BY <1>1, <2>3 DEF RowsAt, SameRow
<1>12. \A q \in P : \E y \in Q : SameRow(q, y)
  <2> TAKE q \in P
  <2>1. q \in tx.rows /\ q.id \in m.ids
    BY <1>1 DEF RowsAt
  <2>2. PICK y \in caches' : SameRow(q, y)
    BY <2>1 DEF Ready, RowsWritten
  <2> QED
    BY <2>1, <2>2 DEF SameRow
<1>13. AmountIn(Q) = AmountIn(P)
  <2>1. IsFiniteSet(P) /\ P \subseteq CacheRow
    <3>1. P \in SUBSET tx.rows
      BY DEF RowsAt
    <3>2. IsFiniteSet(tx.rows) /\ tx.rows \subseteq CacheRow
      BY CommitOrigins
    <3> HIDE DEF P
    <3> QED
      BY <3>1, <3>2, FS_Subset
  <2>2. UniqueIds(P)
    BY DEF RowsAt, Groups, UniqueIds
  <2>3. UniqueIds(Q)
    BY DEF Ready, RowsWritten, UniqueIds
  <2> HIDE DEF P, Q
  <2> QED
    BY <1>11, <1>12, <2>1, <2>2, <2>3, RowTwins
<1>14. Near(AmountAlike(tx, i) - AmountIn(P), PartCount(A))
  BY DEF TxParts
<1>15. LogsAlike(m)' = R /\ RowsOf(m)' = Q
  BY DEF LogsAlike, RowsOf
<1> HIDE DEF A, P, Q, R
<1> QED
  BY <1>9, <1>10, <1>13, <1>14, <1>15

LEMMA CommitParts ==
  ASSUME Typed, RowsOk, LogsOk, NEW tx, NEW types, Ready(tx, types), Groups(tx), MergedInv,
         LogParts, TxParts(tx)
  PROVE  LogParts'
<1>1. ASSUME NEW m \in logs'
      PROVE  Near(AmountIn(LogsAlike(m)') - AmountIn(RowsOf(m)'), PartCount(LogsAlike(m)'))
  <2>1. CASE m \in Inserted(tx)
    <3>1. PICK i \in DOMAIN tx.fresh : m = InsertedAt(tx, i)
      BY <2>1, CommitOrigins
    <3> QED
      BY <3>1, CommitNewParts
  <2>2. CASE \E l \in logs : Kin(l, m)
    BY <2>2, CommitOldParts
  <2> QED
    BY <2>1, <2>2, CommitOrigins
<1> QED
  BY <1>1 DEF LogParts, LogsAlike, RowsOf, AmountIn, PartCount

-----------------------------------------------------------------------------
LEMMA CleanParts ==
  ASSUME NEW tx, Clean(tx)
  PROVE  TxParts(tx)
BY DEF Clean, TxParts

LEMMA KeptParts ==
  ASSUME NEW old, NEW new, new.rows = old.rows, new.fresh = old.fresh, TxParts(old)
  PROVE  TxParts(new)
BY DEF TxParts, LogAt, Alike, AmountAlike, RowsAt

LEMMA PartsSame ==
  ASSUME LogParts, UNCHANGED <<caches, logs>>
  PROVE  LogParts'
BY DEF LogParts, LogsAlike, RowsOf, AmountIn, PartCount

LEMMA PartsApi ==
  ASSUME BaseInv, LogParts, NEW p \in Postings, PostApi(p)
  PROVE  LogParts'
<1> DEFINE row == NewCache(p, FALSE)
<1>1. row.id = Cardinality(caches) + 1
  BY DEF NewCache
<1>2. caches' = caches \cup {row} /\ UNCHANGED logs
  BY DEF PostApi
<1>3. \A r \in caches : r.id # row.id
  <2>1. IdsOf(caches) = 1 .. Cardinality(caches) /\ Cardinality(caches) \in Nat
    BY FS_CardinalityType DEF BaseInv, RowsOk, Typed
  <2>2. \A r \in caches : r.id \in 1 .. Cardinality(caches)
    BY <2>1 DEF IdsOf
  <2> HIDE DEF row
  <2> QED
    BY <1>1, <2>1, <2>2
<1> HIDE DEF row
<1>4. \A l \in logs : row.id \notin l.ids
  BY <1>3 DEF BaseInv, IdsInv, LogsOk, IdsOf
<1>5. \A l \in logs : RowsOf(l)' = RowsOf(l) /\ LogsAlike(l)' = LogsAlike(l)
  BY <1>2, <1>4 DEF RowsOf, LogsAlike
<1> QED
  BY <1>2, <1>5 DEF LogParts, RowsOf, LogsAlike, AmountIn, PartCount

(* One log of its rows has their amount. *)
LEMMA AlonePart ==
  ASSUME NEW tx, NEW i, Alike(tx, i) = {i}, NEW a \in Int, LogAt(tx, i).amount = a,
         AmountIn(RowsAt(tx, i)) = a
  PROVE  Near(AmountAlike(tx, i) - AmountIn(RowsAt(tx, i)), PartCount(Alike(tx, i)))
<1> DEFINE f == [j \in {i} |-> LogAt(tx, j).amount]
<1>1. f[i] = a /\ AmountAlike(tx, i) = SumFunctionOnSet(f, {i})
  BY DEF AmountAlike
<1> HIDE DEF f
<1>2. AmountAlike(tx, i) = a
  BY <1>1, SumSingle
<1>3. PartCount(Alike(tx, i)) = 0
  <2>1. Cardinality({i}) = 1
    BY FS_Singleton
  <2> QED
    BY <2>1 DEF PartCount
<1> QED
  BY <1>2, <1>3 DEF Near

LEMMA PostBeginParts ==
  ASSUME BaseInv, NEW p \in Postings, PostBegin(p)
  PROVE  TxParts(post)'
<1> DEFINE row == NewCache(p, TRUE)
           tx == post'
<1>1. /\ DOMAIN tx.fresh = {1} /\ tx.rows = {row} /\ LogAt(tx, 1).ids = {Cardinality(caches) + 1}
      /\ LogAt(tx, 1).amount = p.amount
  <2> DEFINE l == LogAt(post', 1)
  <2>1. /\ DOMAIN post'.fresh = {1} /\ post'.rows = {row} /\ l.ids = {Cardinality(caches) + 1}
        /\ l.amount = p.amount
    BY PostFresh
  <2> QED
    BY <2>1
<1>2. row.id = Cardinality(caches) + 1 /\ row.amount = p.amount
  BY DEF NewCache
<1>3. p.amount \in Int
  BY MergeAssumption DEF Posting
<1> HIDE DEF tx, row
<1>4. Alike(tx, 1) = {1} /\ RowsAt(tx, 1) = {row}
  BY <1>1, <1>2 DEF Alike, RowsAt
<1>5. AmountIn(RowsAt(tx, 1)) = p.amount
  BY <1>2, <1>3, <1>4, AmountOne
<1>6. Near(AmountAlike(tx, 1) - AmountIn(RowsAt(tx, 1)), PartCount(Alike(tx, 1)))
  BY <1>1, <1>3, <1>4, <1>5, AlonePart
<1>7. TxParts(tx)
  BY <1>1, <1>6 DEF TxParts
<1> QED
  BY <1>7 DEF tx, TxParts, LogAt, Alike, AmountAlike, RowsAt, AmountIn, PartCount

LEMMA MergeReadParts ==
  ASSUME BaseInv, NEW u \in User, MergeRead(u)
  PROVE  TxParts(merge)'
<1>1. PICK rows, order :
           /\ rows \in SUBSET caches
           /\ Grouped(u, TypeDue, rows, order)
           /\ merge'.rows = rows
           /\ merge'.fresh = LogsOfGroups(u, rows, order)
           /\ DOMAIN merge'.fresh = DOMAIN order
  BY MergeReadFields DEF BaseInv
<1>2. PICK t \in MergeableTypes : t = TypeDue
  BY TypeDueType DEF MergeRead
<1>3. Grouped(u, t, rows, order) /\ rows \in SUBSET caches
  BY <1>1, <1>2
<1>4. t # "REFUND_API_FEE"
  BY <1>2 DEF MergeableTypes
<1>5. ASSUME NEW i \in DOMAIN order
      PROVE  /\ LogsOfGroups(u, rows, order)[i].log.ids = IdsOf(GroupAt(rows, order, i))
             /\ LogsOfGroups(u, rows, order)[i].log.type = t
             /\ LogsOfGroups(u, rows, order)[i].log.amount = AmountIn(GroupAt(rows, order, i))
  <2>1. LogsOfGroups(u, rows, order)[i].log.amount = AmountIn(GroupAt(rows, order, i))
    BY <1>3, GroupLog DEF BaseInv
  <2> QED
    BY <1>3, <2>1, GroupOf DEF BaseInv
<1>6. UniqueIds(rows)
  BY <1>3 DEF BaseInv, RowsOk, UniqueIds
<1>7. Groups(merge)'
  BY MergeReadGroups
<1>8. OfRows(merge)'
  BY MergeReadBase DEF BaseInv, OpenInv
<1> DEFINE tx == merge'
<1>9. /\ tx.rows = rows /\ DOMAIN tx.fresh = DOMAIN order
      /\ \A i \in DOMAIN order :
           /\ LogAt(tx, i).ids = IdsOf(GroupAt(rows, order, i)) /\ LogAt(tx, i).ids # {}
           /\ LogAt(tx, i).type = t /\ LogAt(tx, i).amount = AmountIn(GroupAt(rows, order, i))
      /\ TxApart(tx)
  <2>1. \A i \in DOMAIN order : LogAt(tx, i).ids # {}
    BY <1>1, <1>8 DEF OfRows, LogAt
  <2>2. TxApart(tx)
    BY <1>7 DEF Groups, TxApart, LogAt
  <2> QED
    BY <1>1, <1>5, <2>1, <2>2 DEF LogAt
<1> HIDE DEF tx
<1>10. ASSUME NEW i \in DOMAIN tx.fresh
       PROVE  Near(AmountAlike(tx, i) - AmountIn(RowsAt(tx, i)), PartCount(Alike(tx, i)))
  <2>1. Alike(tx, i) = {i}
    BY <1>4, <1>9 DEF TxApart, Split, Alike
  <2>2. RowsAt(tx, i) = GroupAt(rows, order, i)
    <3> DEFINE mine == GroupAt(rows, order, i)
    <3>1. i \in DOMAIN order /\ LogAt(tx, i).ids = IdsOf(mine) /\ tx.rows = rows /\ mine \subseteq rows
      BY <1>9 DEF GroupAt
    <3> HIDE DEF mine
    <3>2. RowsAt(tx, i) = mine
      BY <1>6, <3>1 DEF RowsAt, IdsOf, UniqueIds
    <3> QED
      BY <3>2 DEF mine
  <2>3. GroupAt(rows, order, i) \in SUBSET caches
    BY <1>3 DEF GroupAt
  <2>4. AmountIn(GroupAt(rows, order, i)) \in Int
    BY <2>3, CacheSums DEF BaseInv
  <2> QED
    BY <1>9, <2>1, <2>2, <2>4, AlonePart
<1>11. TxParts(tx)
  BY <1>10 DEF TxParts
<1> QED
  BY <1>11 DEF tx, TxParts, LogAt, Alike, AmountAlike, RowsAt, AmountIn, PartCount

LEMMA UpdateParts ==
  ASSUME BaseInv, LogParts, UpdateCreated
  PROVE  LogParts'
<1>1. logs' = {Dated(l) : l \in logs} /\ UNCHANGED caches
  BY UpdateFacts
<1>2. \A l \in logs : Kin(l, Dated(l)) /\ Dated(l) \in logs'
  BY <1>1, DatedFacts
<1>3. \A m \in logs' : \E l \in logs : m = Dated(l) /\ Kin(l, m)
  BY <1>1, <1>2
<1>4. UniqueIds(logs')
  BY <1>3 DEF UniqueIds, BaseInv, IdsInv, LogsOk, Kin
<1>5. ASSUME NEW m \in logs'
      PROVE  Near(AmountIn(LogsAlike(m)') - AmountIn(RowsOf(m)'), PartCount(LogsAlike(m)'))
  <2>1. PICK l \in logs : Kin(l, m)
    BY <1>3
  <2> DEFINE S == {k \in logs : k.ids = l.ids}
             R == {k \in logs' : k.ids = m.ids}
  <2>2. m.ids = l.ids
    BY <2>1 DEF Kin
  <2>3. \A y \in R : \E x \in S : Kin(x, y)
    BY <1>3, <2>2 DEF Kin
  <2>4. \A x \in S : \E y \in R : Kin(x, y)
    BY <1>2, <2>2 DEF Kin
  <2>5. IsFiniteSet(S) /\ S \subseteq FiatLog
    <3>1. S \in SUBSET logs
      OBVIOUS
    <3> QED
      BY <3>1, FS_Subset DEF BaseInv, Typed
  <2>6. UniqueIds(S) /\ UniqueIds(R)
    BY <1>4 DEF BaseInv, IdsInv, LogsOk, UniqueIds
  <2>7. LogsAlike(m)' = R /\ RowsOf(m)' = RowsOf(l) /\ LogsAlike(l) = S
    BY <1>1, <2>2 DEF LogsAlike, RowsOf
  <2> HIDE DEF S, R
  <2>8. AmountIn(R) = AmountIn(S) /\ PartCount(R) = PartCount(S)
    BY <2>3, <2>4, <2>5, <2>6, LogTwins
  <2>9. Near(AmountIn(LogsAlike(l)) - AmountIn(RowsOf(l)), PartCount(LogsAlike(l)))
    BY DEF LogParts
  <2> QED
    BY <2>7, <2>8, <2>9
<1> QED
  BY <1>5 DEF LogParts, LogsAlike, RowsOf, AmountIn, PartCount

-----------------------------------------------------------------------------
(* Rounding is off by at most half, of one part and of several together. *)
LEMMA NotAboveScaled ==
  ASSUME NEW n \in Nat, n > 0, NEW x \in Int, NEW y \in Int, n * x <= n * y
  PROVE  x <= y
<1>1. ASSUME x >= y + 1 PROVE FALSE
  <2> DEFINE z == x - y - 1
  <2>1. z \in Nat /\ x = y + 1 + z
    BY <1>1
  <2> HIDE DEF z
  <2>2. n * x = n * y + n + n * z /\ n * z \in Nat /\ n * y \in Int
    BY <2>1
  <2> QED
    BY <2>2
<1> QED
  BY <1>1

LEMMA QuotientNear ==
  ASSUME NEW x \in Nat, NEW n \in Nat, n > 0
  PROVE  LET q == (2 * x + n) \div (2 * n)
         IN q \in Int /\ -n <= 2 * (n * q - x) /\ 2 * (n * q - x) <= n
<1> DEFINE y == 2 * x + n
           d == 2 * n
           q == y \div d
           s == y % d
<1>1. y \in Int /\ d \in Nat /\ d > 0
  OBVIOUS
<1>2. q \in Int /\ s \in Nat /\ s < d /\ y = d * q + s
  <2> HIDE DEF y, d
  <2> QED
    BY <1>1
<1> HIDE DEF q, s
<1>3. d * q = 2 * (n * q) /\ n * q \in Int
  BY <1>2
<1>4. 2 * (n * q - x) = n - s
  BY <1>2, <1>3
<1>5. -n <= 2 * (n * q - x) /\ 2 * (n * q - x) <= n
  BY <1>2, <1>3, <1>4
<1> QED
  BY <1>2, <1>5 DEF q

LEMMA RoundedNear ==
  ASSUME NEW x \in Int, NEW n \in Nat, n > 0
  PROVE  /\ Rounded(x, n) \in Int
         /\ -n <= 2 * (n * Rounded(x, n) - x) /\ 2 * (n * Rounded(x, n) - x) <= n
<1>1. CASE x >= 0
  <2> DEFINE q == (2 * x + n) \div (2 * n)
  <2>1. q \in Int /\ -n <= 2 * (n * q - x) /\ 2 * (n * q - x) <= n
    BY <1>1, QuotientNear
  <2>2. Rounded(x, n) = q
    BY <1>1 DEF Rounded
  <2> HIDE DEF q
  <2> QED
    BY <2>1, <2>2
<1>2. CASE ~(x >= 0)
  <2> DEFINE q == (2 * (-x) + n) \div (2 * n)
  <2>1. q \in Int /\ -n <= 2 * (n * q - (-x)) /\ 2 * (n * q - (-x)) <= n
    BY <1>2, QuotientNear
  <2>2. Rounded(x, n) = -q
    BY <1>2 DEF Rounded
  <2> HIDE DEF q
  <2>3. n * (-q) = -(n * q) /\ n * q \in Int
    BY <2>1
  <2> QED
    BY <2>1, <2>2, <2>3
<1> QED
  BY <1>1, <1>2

LEMMA RoundedSum ==
  ASSUME NEW S, IsFiniteSet(S), NEW a \in Int, NEW n \in Nat, n > 0,
         NEW f, \A p \in S : f[p] \in Int, NEW g, \A p \in S : g[p] = Rounded(a * f[p], n)
  PROVE  LET d == n * SumFunctionOnSet(g, S) - a * SumFunctionOnSet(f, S)
         IN Near(d, n * Cardinality(S))
<1> DEFINE Off(s) == n * SumFunctionOnSet(g, s) - a * SumFunctionOnSet(f, s)
           T == {s \in SUBSET S : ~Near(Off(s), n * Cardinality(s))}
<1>1. SUFFICES ASSUME T # {} PROVE FALSE
  OBVIOUS
<1>2. PICK t \in T : \A r \in T : ~(r \subseteq t /\ r # t)
  <2>1. T \subseteq SUBSET S
    OBVIOUS
  <2> HIDE DEF T
  <2> QED
    BY <1>1, <2>1, LeastSubset
<1>3. t \in SUBSET S /\ ~Near(Off(t), n * Cardinality(t)) /\ IsFiniteSet(t)
  BY <1>2, FS_Subset
<1>4. t # {}
  <2>1. ASSUME t = {} PROVE FALSE
    <3>1. SumFunctionOnSet(g, t) = 0 /\ SumFunctionOnSet(f, t) = 0 /\ Cardinality(t) = 0
      BY <2>1, SumEmpty, FS_EmptySet
    <3>2. Off(t) = 0 /\ n * Cardinality(t) = 0
      BY <3>1
    <3> HIDE DEF T, Off
    <3> QED
      BY <1>3, <3>2 DEF Near
  <2> QED
    BY <2>1
<1>5. PICK y \in t : TRUE
  BY <1>4
<1> DEFINE r == t \ {y}
<1>6. r \in SUBSET S /\ r # t /\ r \subseteq t /\ y \in S
  BY <1>3, <1>5
<1>7. Near(Off(r), n * Cardinality(r))
  BY <1>2, <1>6
<1>8. \A p \in S : f[p] \in Int /\ g[p] \in Int
  <2> TAKE p \in S
  <2>1. a * f[p] \in Int
    OBVIOUS
  <2> QED
    BY <2>1, RoundedNear
<1>9. SumFunctionOnSet(g, t) = g[y] + SumFunctionOnSet(g, r) /\ SumFunctionOnSet(g, r) \in Int
  <2>1. IsFiniteSet(r) /\ (\A p \in t : g[p] \in Int) /\ (\A p \in r : g[p] \in Int)
    BY <1>3, <1>6, <1>8, FS_Subset
  <2>2. SumFunctionOnSet(g, r) \in Int
    <3> HIDE DEF r
    <3> QED
      BY <2>1, SumInt
  <2> HIDE DEF T
  <2> QED
    BY <1>3, <1>5, <2>1, <2>2, SumRemove
<1>10. SumFunctionOnSet(f, t) = f[y] + SumFunctionOnSet(f, r) /\ SumFunctionOnSet(f, r) \in Int
  <2>1. IsFiniteSet(r) /\ (\A p \in t : f[p] \in Int) /\ (\A p \in r : f[p] \in Int)
    BY <1>3, <1>6, <1>8, FS_Subset
  <2>2. SumFunctionOnSet(f, r) \in Int
    <3> HIDE DEF r
    <3> QED
      BY <2>1, SumInt
  <2> HIDE DEF T
  <2> QED
    BY <1>3, <1>5, <2>1, <2>2, SumRemove
<1>11. Cardinality(t) = Cardinality(r) + 1 /\ Cardinality(r) \in Nat
  <2>1. IsFiniteSet(r) /\ Cardinality(r) = Cardinality(t) - 1
    BY <1>3, <1>5, FS_RemoveElement
  <2>2. Cardinality(r) \in Nat /\ Cardinality(t) \in Nat
    BY <1>3, <2>1, FS_CardinalityType
  <2> HIDE DEF r, T
  <2> QED
    BY <2>1, <2>2
<1>12. Near(n * g[y] - a * f[y], n)
  <2>1. a * f[y] \in Int /\ g[y] = Rounded(a * f[y], n)
    BY <1>6
  <2> QED
    BY <2>1, RoundedNear DEF Near
<1> DEFINE gr == SumFunctionOnSet(g, r)
           fr == SumFunctionOnSet(f, r)
           c == Cardinality(r)
<1>13. /\ gr \in Int /\ fr \in Int /\ c \in Nat /\ g[y] \in Int /\ f[y] \in Int
       /\ Off(t) = n * (g[y] + gr) - a * (f[y] + fr) /\ Off(r) = n * gr - a * fr
       /\ n * Cardinality(t) = n * (c + 1)
  BY <1>6, <1>8, <1>9, <1>10, <1>11
<1> HIDE DEF gr, fr, c, Off, T, r
<1>14. /\ n * (g[y] + gr) = n * g[y] + n * gr /\ a * (f[y] + fr) = a * f[y] + a * fr
       /\ n * (c + 1) = n * c + n
       /\ n * g[y] \in Int /\ n * gr \in Int /\ a * f[y] \in Int /\ a * fr \in Int /\ n * c \in Int
  BY <1>13
<1>15. Near(n * gr - a * fr, n * c)
  BY <1>7, <1>13 DEF c
<1> DEFINE A == n * g[y]
           B == n * gr
           C == a * f[y]
           D == a * fr
           E == n * c
<1>16. /\ A \in Int /\ B \in Int /\ C \in Int /\ D \in Int /\ E \in Int
       /\ Near(B - D, E) /\ Near(A - C, n)
       /\ Off(t) = (A + B) - (C + D) /\ n * Cardinality(t) = E + n
  BY <1>12, <1>13, <1>14, <1>15
<1> HIDE DEF A, B, C, D, E
<1>17. Near((A + B) - (C + D), E + n)
  BY <1>16 DEF Near
<1> QED
  BY <1>3, <1>16, <1>17

(* The parts of an amount by shares that make up the whole. *)
LEMMA PartsOfWhole ==
  ASSUME NEW S, IsFiniteSet(S), NEW a \in Int, NEW n \in Nat, n > 0,
         NEW f, \A p \in S : f[p] \in Int, SumFunctionOnSet(f, S) = n,
         NEW g, \A p \in S : g[p] = Rounded(a * f[p], n)
  PROVE  Near(SumFunctionOnSet(g, S) - a, PartCount(S))
<1> DEFINE sum == SumFunctionOnSet(g, S)
           c == Cardinality(S)
<1>1. c \in Nat
  BY FS_CardinalityType
<1>2. \A p \in S : g[p] \in Int
  <2> TAKE p \in S
  <2>1. a * f[p] \in Int
    OBVIOUS
  <2> QED
    BY <2>1, RoundedNear
<1>3. sum \in Int
  BY <1>2, SumInt
<1>4. c # 0
  <2>1. ASSUME c = 0 PROVE FALSE
    <3>1. S = {}
      BY <2>1, FS_EmptySet
    <3> QED
      BY <3>1, SumEmpty
  <2> QED
    BY <2>1
<1>5. CASE c = 1
  <2>1. PICK p : S = {p}
    BY <1>5, FS_Singleton
  <2>2. p \in S
    BY <2>1
  <2>3. f[p] = n
    BY <2>1, <2>2, SumSingle
  <2>4. sum = g[p]
    BY <1>2, <2>1, <2>2, SumSingle
  <2>5. g[p] = a
    BY <2>2, <2>3, RoundedWhole
  <2> HIDE DEF sum
  <2>6. PartCount(S) = 0
    BY <1>5 DEF PartCount
  <2>7. Near(sum - a, PartCount(S))
    BY <2>4, <2>5, <2>6 DEF Near
  <2> QED
    BY <2>7 DEF sum
<1>6. CASE c > 1
  <2>1. Near(n * sum - a * n, n * c)
    BY RoundedSum
  <2>2. PartCount(S) = c
    BY <1>1, <1>6 DEF PartCount
  <2> HIDE DEF sum, c
  <2>3. /\ 2 * (n * sum - a * n) = n * (2 * (sum - a)) /\ -(n * c) = n * (-c)
        /\ 2 * (sum - a) \in Int /\ -c \in Int
    BY <1>1, <1>3
  <2>4. n * (-c) <= n * (2 * (sum - a)) /\ n * (2 * (sum - a)) <= n * c
    BY <2>1, <2>3 DEF Near
  <2>5. -c <= 2 * (sum - a) /\ 2 * (sum - a) <= c
    BY <1>1, <2>3, <2>4, NotAboveScaled
  <2>6. Near(sum - a, PartCount(S))
    BY <2>2, <2>5 DEF Near
  <2> QED
    BY <2>6 DEF sum
<1> HIDE DEF c
<1> QED
  BY <1>1, <1>4, <1>5, <1>6

-----------------------------------------------------------------------------
LEMMA SameById ==
  ASSUME NEW W, UniqueIds(W), NEW S \in SUBSET W, NEW R \in SUBSET W, IdsOf(S) = IdsOf(R)
  PROVE  S = R
<1>1. ASSUME NEW P \in SUBSET W, NEW Q \in SUBSET W, IdsOf(P) = IdsOf(Q), NEW x \in P
      PROVE  x \in Q
  <2>1. x.id \in IdsOf(Q)
    BY <1>1 DEF IdsOf
  <2>2. PICK y \in Q : y.id = x.id
    BY <2>1 DEF IdsOf
  <2> QED
    BY <1>1, <2>2 DEF UniqueIds
<1> QED
  BY <1>1

LEMMA RefundParts ==
  ASSUME BaseInv, NotOver, NEW order \in Orderings(Paying), NEW tx,
         tx.rows = BorneRows, tx.fresh = LogsOfRefunds(order), DOMAIN tx.fresh = DOMAIN order
  PROVE  TxParts(tx)
<1>1. Groups(tx)
  BY RefundGroups
<1>2. ASSUME NEW i \in DOMAIN order
      PROVE  /\ LogAt(tx, i).type = "REFUND_API_FEE" /\ LogAt(tx, i).count = Share(order[i])
             /\ LogAt(tx, i).ids = IdsOf(RefundsLike(order[i]))
             /\ LogAt(tx, i).amount
                  = Rounded(AmountIn(RefundsLike(order[i])) * Share(order[i]), CountIn(RefundsLike(order[i])))
             /\ Share(order[i]) \in Int /\ CountIn(RefundsLike(order[i])) > 0
             /\ RefundsLike(order[i]) \subseteq BorneRows
  <2>1. order[i] \in Paying /\ Typed /\ RowsOk
    BY PayingOrder DEF BaseInv
  <2>2. LogsOfRefunds(order)[i].log.type = "REFUND_API_FEE"
    BY <2>1, RefundLog
  <2>3. LogsOfRefunds(order)[i].log.count = Share(order[i])
    BY <2>1, RefundLog
  <2>4. LogsOfRefunds(order)[i].log.ids = IdsOf(RefundsLike(order[i]))
    BY <2>1, RefundLog
  <2>5. LogsOfRefunds(order)[i].log.amount
          = Rounded(AmountIn(RefundsLike(order[i])) * Share(order[i]), CountIn(RefundsLike(order[i])))
    BY <2>1, RefundLog
  <2>6. /\ order[i] \in logs /\ RefundsLike(order[i]) \subseteq BorneRows
        /\ CountIn(RefundsLike(order[i])) > 0
    BY <2>1, BearingFacts DEF Paying
  <2>7. Share(order[i]) \in Int
    BY <2>1, <2>6, ShareType
  <2> QED
    BY <2>2, <2>3, <2>4, <2>5, <2>6, <2>7 DEF LogAt
<1>3. UniqueIds(BorneRows) /\ BorneRows \subseteq caches
  <2>1. BorneRows \subseteq caches
    BY PayingFinite DEF BaseInv
  <2> QED
    BY <2>1 DEF BaseInv, RowsOk, UniqueIds
<1>4. ASSUME NEW i \in DOMAIN order
      PROVE  Near(AmountAlike(tx, i) - AmountIn(RowsAt(tx, i)), PartCount(Alike(tx, i)))
  <2> DEFINE rows == RefundsLike(order[i])
             a == AmountIn(rows)
             n == CountIn(rows)
             A == Alike(tx, i)
             f == [j \in A |-> LogAt(tx, j).count]
             g == [j \in A |-> LogAt(tx, j).amount]
  <2>1. rows \subseteq BorneRows /\ LogAt(tx, i).ids = IdsOf(rows)
    BY <1>2
  <2>2. a \in Int /\ n \in Nat /\ n > 0
    BY <1>2, LikeSums DEF BaseInv
  <2>3. RowsAt(tx, i) = rows
    <3> HIDE DEF rows
    <3> QED
      BY <1>3, <2>1 DEF RowsAt, IdsOf, UniqueIds
  <2>4. ASSUME NEW j \in A
        PROVE  j \in DOMAIN order /\ RefundsLike(order[j]) = rows
    <3>1. j \in DOMAIN order /\ LogAt(tx, j).ids = IdsOf(rows)
      BY <2>1 DEF Alike
    <3>2. IdsOf(RefundsLike(order[j])) = IdsOf(rows) /\ RefundsLike(order[j]) \subseteq BorneRows
      BY <1>2, <3>1
    <3> DEFINE like == RefundsLike(order[j])
    <3>3. IdsOf(like) = IdsOf(rows) /\ like \subseteq BorneRows
      BY <3>2
    <3> HIDE DEF like, rows, A
    <3>4. like = rows
      BY <1>3, <2>1, <3>3, SameById
    <3> QED
      BY <3>1, <3>4 DEF like
  <2>5. \A j \in A : f[j] \in Int /\ g[j] = Rounded(a * f[j], n)
    <3> TAKE j \in A
    <3>1. j \in DOMAIN order /\ RefundsLike(order[j]) = rows
      BY <2>4
    <3>2. f[j] = Share(order[j]) /\ g[j] = Rounded(a * Share(order[j]), n) /\ Share(order[j]) \in Int
      BY <1>2, <3>1
    <3> QED
      BY <3>2
  <2>6. IsFiniteSet(A)
    <3>1. Cardinality(Paying) \in Nat /\ DOMAIN order = 1 .. Cardinality(Paying)
      BY PayingOrder DEF BaseInv
    <3>2. IsFiniteSet(DOMAIN order)
      BY <3>1, FS_Interval
    <3>3. A \in SUBSET DOMAIN order
      BY <2>4
    <3> HIDE DEF A
    <3> QED
      BY <3>2, <3>3, FS_Subset
  <2>7. CountAlike(tx, i) = CountIn(RowsAt(tx, i))
    BY <1>1, <1>2 DEF Groups, TxCounts
  <2>8. SumFunctionOnSet(f, A) = n /\ AmountAlike(tx, i) = SumFunctionOnSet(g, A)
    BY <2>3, <2>7 DEF CountAlike, AmountAlike
  <2>9. AmountIn(RowsAt(tx, i)) = a
    BY <2>3
  <2> HIDE DEF rows, a, n, A, f, g
  <2>10. Near(SumFunctionOnSet(g, A) - a, PartCount(A))
    BY <2>2, <2>5, <2>6, <2>8, PartsOfWhole
  <2> QED
    BY <2>8, <2>9, <2>10 DEF A
<1> QED
  BY <1>4 DEF TxParts

LEMMA RefundsReadParts ==
  ASSUME BaseInv, NotOver, RefundsRead
  PROVE  TxParts(merge)'
<1> DEFINE tx == merge'
<1>1. CASE merge' = NoTx
  <2>1. Clean(tx)
    BY <1>1, CleanClosed
  <2> HIDE DEF tx
  <2>2. TxParts(tx)
    BY <2>1, CleanParts
  <2> QED
    BY <2>2 DEF tx, TxParts, LogAt, Alike, AmountAlike, RowsAt, AmountIn, PartCount
<1>2. ASSUME NEW order \in Orderings(Paying), merge'.rows = BorneRows,
             merge'.fresh = LogsOfRefunds(order), DOMAIN merge'.fresh = DOMAIN order
      PROVE  TxParts(merge)'
  <2>1. tx.rows = BorneRows /\ tx.fresh = LogsOfRefunds(order) /\ DOMAIN tx.fresh = DOMAIN order
    BY <1>2
  <2> HIDE DEF tx
  <2>2. TxParts(tx)
    BY <2>1, RefundParts
  <2> QED
    BY <2>2 DEF tx, TxParts, LogAt, Alike, AmountAlike, RowsAt, AmountIn, PartCount
<1> QED
  BY <1>1, <1>2, RefundsReadFields DEF BaseInv

LEMMA PartsInit ==
  ASSUME Init
  PROVE  PartsInv
<1>1. Clean(NoTx)
  BY NoTxFields DEF Clean, OpenTx
<1>2. TxParts(post) /\ TxParts(merge)
  BY <1>1, CleanParts DEF Init
<1>3. PICK id \in [Payers -> Nat] :
           /\ \A u \in Payers : u \in User
           /\ \A u, v \in Payers : id[u] = id[v] => u = v
           /\ caches = {FirstRow(u, id[u]) : u \in Payers}
           /\ logs = {FirstLog(u, id[u]) : u \in Payers}
  BY FirstRows
<1>4. ASSUME NEW l \in logs
      PROVE  Near(AmountIn(LogsAlike(l)) - AmountIn(RowsOf(l)), PartCount(LogsAlike(l)))
  <2>1. PICK u \in Payers : l = FirstLog(u, id[u])
    BY <1>3
  <2>2. LogsAlike(l) = {FirstLog(u, id[u])}
    BY <1>3, <2>1 DEF LogsAlike, FirstLog
  <2>3. RowsOf(l) = {FirstRow(u, id[u])}
    BY <1>3, <2>1 DEF RowsOf, FirstLog, FirstRow
  <2>4. Deposited[u] \in Int
    BY <1>3, MergeAssumption
  <2>5. FirstLog(u, id[u]).amount = Deposited[u] /\ FirstRow(u, id[u]).amount = Deposited[u]
    BY DEF FirstLog, FirstRow
  <2>6. AmountIn(LogsAlike(l)) = Deposited[u] /\ AmountIn(RowsOf(l)) = Deposited[u]
    BY <2>2, <2>3, <2>4, <2>5, AmountOne
  <2>7. Cardinality(LogsAlike(l)) = 1
    BY <2>2, FS_Singleton
  <2>8. PartCount(LogsAlike(l)) = 0
    BY <2>7 DEF PartCount
  <2> QED
    BY <2>4, <2>6, <2>8 DEF Near
<1> QED
  BY <1>2, <1>4 DEF PartsInv, LogParts

LEMMA PartsStep ==
  ASSUME BaseInv, AliveInv, MInv, PartsInv, [Next]_vars
  PROVE  PartsInv'
<1> USE DEF PartsInv
<1> DEFINE p1 == post'
           m1 == merge'
<1>a. (TxParts(p1) => TxParts(post)') /\ (TxParts(m1) => TxParts(merge)')
  BY DEF TxParts, LogAt, Alike, AmountAlike, RowsAt, AmountIn, PartCount
<1> HIDE DEF p1, m1
<1>b. \A tx \in {p1, m1} : Clean(tx) => TxParts(tx)
  BY CleanParts
<1>c. \A old \in {post, merge}, new \in {p1, m1} :
        new.rows = old.rows /\ new.fresh = old.fresh /\ TxParts(old) => TxParts(new)
  BY KeptParts
<1>d. UNCHANGED post => TxParts(post)'
  BY <1>a, <1>c DEF p1
<1>e. UNCHANGED merge => TxParts(merge)'
  BY <1>a, <1>c DEF m1
<1>1. CASE Quiet
  <2>1. TxParts(post)'
    BY <1>1, <1>a, <1>b, <1>c DEF Quiet, Keeps, p1
  <2>2. TxParts(merge)'
    BY <1>1, <1>a, <1>b, <1>c DEF Quiet, Keeps, m1
  <2> QED
    BY <1>1, <2>1, <2>2, PartsSame DEF Quiet
<1>2. ASSUME NEW p \in Postings, PostApi(p) PROVE PartsInv'
  BY <1>2, <1>d, <1>e, PartsApi DEF PostApi
<1>3. ASSUME NEW p \in Postings, PostBegin(p) PROVE PartsInv'
  <2>1. UNCHANGED <<caches, logs, merge>>
    BY <1>3 DEF PostBegin, tables
  <2> QED
    BY <1>3, <1>e, <2>1, PostBeginParts, PartsSame
<1>4. CASE PostCommit
  <2>1. /\ post.pc = "inserted" /\ WriteLogs(post) /\ UNCHANGED <<merge, day>>
        /\ post' = [post EXCEPT !.pc = "logged"] \/ post' = NoTx
    BY <1>4, PostCommits DEF BaseInv
  <2>2. Ready(post, {"BUY_GAS", "BUY_STORAGE"})
    BY <2>1, ReadyPost
  <2>3. LogParts'
    BY <2>2, CommitParts DEF BaseInv, IdsInv, MInv
  <2>4. TxParts(post)'
    <3>1. CASE post' = NoTx
      BY <1>a, <1>b, <3>1, CleanClosed DEF p1
    <3>2. CASE post' = [post EXCEPT !.pc = "logged"]
      <4>1. post'.fresh = post.fresh /\ post'.rows = post.rows
        BY <3>2 DEF BaseInv, Typed, TxTyped, Tx
      <4> QED
        BY <1>a, <1>c, <4>1 DEF p1
    <3> QED
      BY <2>1, <3>1, <3>2
  <2> QED
    BY <1>e, <2>1, <2>3, <2>4
<1>5. CASE MergeCommit
  <2>1. /\ merge.pc = "inserted" /\ WriteLogs(merge) /\ UNCHANGED <<post, day>>
        /\ merge' = NoTx \/ \E n \in Nat : merge' = Ended(n)
    BY <1>5, MergeCommits DEF BaseInv
  <2>2. Ready(merge, {"PAY_API_FEE"})
    BY <2>1, ReadyMerge
  <2>3. LogParts'
    BY <2>2, CommitParts DEF BaseInv, IdsInv, MInv
  <2>4. TxParts(merge)'
    BY <1>a, <1>b, <2>1, CleanClosed DEF m1
  <2> QED
    BY <1>d, <2>1, <2>3, <2>4
<1>6. ASSUME NEW u \in User, MergeRead(u) PROVE PartsInv'
  <2>1. UNCHANGED <<caches, logs, post>>
    BY <1>6 DEF MergeRead, tables
  <2> QED
    BY <1>6, <1>d, <2>1, MergeReadParts, PartsSame
<1>7. CASE RefundsRead
  <2>1. UNCHANGED <<caches, logs, post>>
    BY <1>7 DEF RefundsRead, tables
  <2>2. TxParts(merge)'
    BY <1>7, RefundsReadParts DEF AliveInv
  <2> QED
    BY <1>d, <2>1, <2>2, PartsSame
<1>8. CASE UpdateCreated
  <2>1. UNCHANGED <<post, merge>>
    BY <1>8, UpdateFacts
  <2> QED
    BY <1>8, <1>d, <1>e, <2>1, UpdateParts
<1> QED
  BY <1>1, <1>2, <1>3, <1>4, <1>5, <1>6, <1>7, <1>8, StepCases

(* fiat_log_cache.go:208 and 299-382: for any users, postings, pages and failures, the
   logs of a user and type hold the amounts of the rows merged into them; each part of
   a split refund is off by at most half a fen. *)
THEOREM AmountsAlwaysKept == Spec => []AmountsKept
<1>1. Init => BaseInv /\ AliveInv /\ MInv /\ PartsInv
  BY BaseInit, AliveInit, MInvInit, PartsInit
<1>2. BaseInv /\ AliveInv /\ MInv /\ PartsInv /\ [Next]_vars
        => (BaseInv /\ AliveInv /\ MInv /\ PartsInv)'
  BY BaseStep, AliveStep, MInvStep, PartsStep
<1>3. BaseInv /\ MInv /\ PartsInv => AmountsKept
  BY PartsKept DEF BaseInv, IdsInv, MInv, PartsInv
<1> QED
  BY <1>1, <1>2, <1>3, PTL DEF Spec
=============================================================================
