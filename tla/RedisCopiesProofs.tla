------------------------- MODULE RedisCopiesProofs -------------------------
(***************************************************************************)
(* Theorems about RedisCopies, for every set of users, applications, cost  *)
(* types and plans, and any number of keys, edits, calls, failures and     *)
(* restarts: the keys of applications follow, the plans in force are       *)
(* served, and the counts in redis are the calls that were made.           *)
(***************************************************************************)
EXTENDS RedisCopies, TLAPS

Update == [app : App, old : Nat, new : Nat, pc : {"sent", "deleted"}]
StartStep == {"users", "plans", "profiles", "load", "found", "done"}

(* The types of the tables, of what is under way and of the history. *)
Typed ==
  /\ apiKey \in [App -> Nat]
  /\ updates \subseteq Update
  /\ plan \in [Plan -> Nat]
  /\ userPlan \in [User -> [Server -> Plan]]
  /\ copying \subseteq User
  /\ start \in [pc : StartStep, found : SUBSET {Pair(a, n) : a \in App, n \in Nat}]
  /\ called \in [User -> [CostType -> Nat]]
  /\ stale \in [plans : SUBSET Plan, users : SUBSET User]

(* An update gives the next key. *)
UpdatesInv == \A c \in updates : c.new = c.old + 1 /\ c.new <= apiKey[c.app]

LEMMA InitTyped == Init => Typed /\ UpdatesInv
<1> SUFFICES ASSUME Init PROVE Typed /\ UpdatesInv
  OBVIOUS
<1>1. plan \in [Plan -> Nat] /\ apiKey \in [App -> Nat]
  BY DEF Init
<1>2. userPlan \in [User -> [Server -> Plan]]
  BY CopiesAssumption DEF Init
<1>3. /\ start \in [pc : StartStep, found : SUBSET {Pair(a, n) : a \in App, n \in Nat}]
      /\ stale \in [plans : SUBSET Plan, users : SUBSET User]
      /\ called \in [User -> [CostType -> Nat]]
  BY DEF Init, At, Fresh, StartStep
<1> QED
  BY <1>1, <1>2, <1>3 DEF Init, Typed, UpdatesInv

LEMMA NextTyped ==
  ASSUME Typed, UpdatesInv, [Next]_vars
  PROVE  Typed' /\ UpdatesInv'
<1>1. ASSUME NEW a \in App, NewKey(a) PROVE Typed' /\ UpdatesInv'
  <2> DEFINE c == [app |-> a, old |-> apiKey[a], new |-> apiKey[a] + 1, pc |-> "sent"]
  <2>1. /\ apiKey' = [apiKey EXCEPT ![a] = @ + 1] /\ updates' = updates \cup {c}
        /\ UNCHANGED <<plan, userPlan, copying, start, called, stale>>
    BY <1>1 DEF NewKey, history
  <2>2. c \in Update /\ apiKey[a] \in Nat
    BY DEF Update, Typed
  <2>3. apiKey' \in [App -> Nat] /\ updates' \subseteq Update
    BY <2>1, <2>2 DEF Typed
  <2>4. \A b \in App : apiKey[b] <= apiKey'[b] /\ apiKey'[a] = apiKey[a] + 1
    BY <2>1 DEF Typed
  <2>5. ASSUME NEW d \in updates' PROVE d.new = d.old + 1 /\ d.new <= apiKey'[d.app]
    <3>1. CASE d = c
      BY <2>2, <2>4, <3>1
    <3>2. CASE d \in updates
      <4>1. d \in Update /\ d.new <= apiKey[d.app] /\ d.new = d.old + 1
        BY <3>2 DEF Typed, UpdatesInv
      <4>2. d.new \in Nat /\ apiKey[d.app] \in Nat /\ apiKey'[d.app] \in Nat
            /\ apiKey[d.app] <= apiKey'[d.app]
        BY <2>3, <2>4, <4>1 DEF Update, Typed
      <4> QED
        BY <4>1, <4>2
    <3> QED
      BY <2>1, <3>1, <3>2
  <2> QED
    BY <2>1, <2>3, <2>5 DEF Typed, UpdatesInv
<1>2. ASSUME NEW c \in updates, NEW d, updates' \subseteq updates \cup {d},
             d = [c EXCEPT !.pc = "sent"] \/ d = [c EXCEPT !.pc = "deleted"] \/ d = c,
             UNCHANGED <<db, copying, start, called, stale>>
      PROVE  Typed' /\ UpdatesInv'
  <2>1. c \in Update
    BY DEF Typed
  <2>2. d \in Update /\ d.app = c.app /\ d.new = c.new /\ d.old = c.old
    BY <1>2, <2>1 DEF Update
  <2> QED
    BY <1>2, <2>2 DEF Typed, UpdatesInv, db
<1>3. ASSUME NEW c \in updates, DelOldKey(c) \/ SetNewKey(c) \/ UpdateFails(c)
      PROVE  Typed' /\ UpdatesInv'
  <2>1. CASE DelOldKey(c)
    BY <1>2, <2>1 DEF DelOldKey, history
  <2>2. CASE SetNewKey(c)
    BY <1>2, <2>2 DEF SetNewKey
  <2>3. CASE UpdateFails(c)
    BY <1>2, <2>3 DEF UpdateFails
  <2> QED
    BY <1>3, <2>1, <2>2, <2>3
<1>4. ASSUME NEW p \in Plan, EditPlan(p) PROVE Typed' /\ UpdatesInv'
  <2>1. /\ plan' = [plan EXCEPT ![p] = @ + 1] /\ stale' = [stale EXCEPT !.plans = @ \cup {p}]
        /\ UNCHANGED <<apiKey, userPlan, updates, copying, start, called>>
    BY <1>4 DEF EditPlan
  <2>2. plan' \in [Plan -> Nat] /\ stale' \in [plans : SUBSET Plan, users : SUBSET User]
    BY <2>1 DEF Typed
  <2> QED
    BY <2>1, <2>2 DEF Typed, UpdatesInv
<1>5. ASSUME NEW u \in User, NEW s \in Server, NEW p \in Plan, BuyBillPlan(u, s, p)
      PROVE  Typed' /\ UpdatesInv'
  <2>1. /\ userPlan' = [userPlan EXCEPT ![u][s] = p] /\ copying' = copying \cup {u}
        /\ UNCHANGED <<apiKey, plan, updates, start, called, stale>>
    BY <1>5 DEF BuyBillPlan, history
  <2>2. userPlan' \in [User -> [Server -> Plan]]
    BY <2>1 DEF Typed
  <2> QED
    BY <2>1, <2>2 DEF Typed, UpdatesInv
<1>6. ASSUME NEW u \in copying, SetUserPlansToRedis(u) \/ CopyFails(u)
      PROVE  Typed' /\ UpdatesInv'
  <2>1. /\ copying' = copying \ {u} /\ UNCHANGED <<apiKey, plan, userPlan, updates, start, called>>
        /\ \E us \in SUBSET User : stale' = [stale EXCEPT !.users = us]
    <3>1. stale.users \ {u} \in SUBSET User /\ stale.users \cup {u} \in SUBSET User
      BY DEF Typed
    <3>2. \/ stale' = [stale EXCEPT !.users = @ \ {u}]
          \/ stale' = [stale EXCEPT !.users = @ \cup {u}]
      BY <1>6 DEF SetUserPlansToRedis, CopyFails
    <3>3. \E us \in SUBSET User : stale' = [stale EXCEPT !.users = us]
      BY <3>1, <3>2
    <3> QED
      BY <1>6, <3>3 DEF SetUserPlansToRedis, CopyFails, db
  <2> QED
    BY <2>1 DEF Typed, UpdatesInv
<1>7. ASSUME Starting PROVE Typed' /\ UpdatesInv'
  <2>1. UNCHANGED <<apiKey, plan, userPlan, updates, copying, called>>
    BY <1>7 DEF Starting, SetAllUserPlans, SetPlansToRedis, SetApiprofilesToRedis, LoadFind,
                LoadSet, db
  <2>2. start' \in [pc : StartStep, found : SUBSET {Pair(a, n) : a \in App, n \in Nat}]
    <3>1. \A step \in StartStep :
            At(step) \in [pc : StartStep, found : SUBSET {Pair(a, n) : a \in App, n \in Nat}]
      BY DEF At
    <3>2. {Current(a) : a \in App} \subseteq {Pair(a, n) : a \in App, n \in Nat}
      BY DEF Current, Typed
    <3>3. CASE LoadFind
      BY <3>2, <3>3 DEF LoadFind, StartStep
    <3>4. CASE ~LoadFind
      <4>1. \E step \in StartStep : start' = At(step)
        BY <1>7, <3>4 DEF Starting, SetAllUserPlans, SetPlansToRedis, SetApiprofilesToRedis,
                          LoadSet, StartStep
      <4> QED
        BY <3>1, <4>1
    <3> QED
      BY <3>3, <3>4
  <2>3. stale' \in [plans : SUBSET Plan, users : SUBSET User]
    <3>1. \/ stale' = stale \/ stale' = [stale EXCEPT !.users = {}]
          \/ stale' = [stale EXCEPT !.plans = {}]
      BY <1>7 DEF Starting, SetAllUserPlans, SetPlansToRedis, SetApiprofilesToRedis, LoadFind,
                  LoadSet, history
    <3> QED
      BY <3>1 DEF Typed
  <2> QED
    BY <2>1, <2>2, <2>3 DEF Typed, UpdatesInv
<1>8. ASSUME Restart PROVE Typed' /\ UpdatesInv'
  BY <1>8 DEF Restart, db, At, Typed, UpdatesInv, StartStep
<1>9. ASSUME NEW a \in App, NEW c \in CostType, Call(a, c) PROVE Typed' /\ UpdatesInv'
  <2>1. /\ called' = [called EXCEPT ![OwnerOf[a]][c] = called[OwnerOf[a]][c] + 1]
        /\ UNCHANGED <<apiKey, plan, userPlan, updates, copying, start, stale>>
    BY <1>9 DEF Call, db, history
  <2>2. called' \in [User -> [CostType -> Nat]]
    BY <2>1, CopiesAssumption DEF Typed
  <2> QED
    BY <2>1, <2>2 DEF Typed, UpdatesInv
<1>10. CASE UNCHANGED vars
  BY <1>10 DEF vars, db, history, Typed, UpdatesInv
<1> QED
  BY <1>1, <1>3, <1>4, <1>5, <1>6, <1>7, <1>8, <1>9, <1>10 DEF Next
-----------------------------------------------------------------------------
(* What a step does to one key: nothing, or ... *)
SameAt(k) ==
  /\ k \in DOMAIN store' <=> k \in DOMAIN store
  /\ k \in DOMAIN store => store'[k] = store[k]

LEMMA MSetReads ==
  ASSUME NEW kvs, store' = MSet(kvs)
  PROVE  /\ DOMAIN store' = DOMAIN kvs \cup DOMAIN store
         /\ \A k \in DOMAIN kvs : store'[k] = kvs[k]
         /\ \A k : k \notin DOMAIN kvs => SameAt(k)
BY DEF MSet, Over, SameAt

(* The first word of a key tells what it is of. *)
LEMMA Words ==
  /\ \A x : ApikeyKey(x)[1] = Word("apikey")
  /\ \A u, s : UserPlanKey(u, s)[1] = Word("userplan")
  /\ \A u, s : UserPlanUpdatedForQpsPluginKey(u, s)[1] = Word("user")
  /\ \A p : PlanKey(p)[1] = Word("plan")
  /\ \A c : ApiProfilesKey(c)[1] = Word("apiprofile")
  /\ \A u, c : UserCountKey(u, c)[1] = Word("count")
  /\ \A u, c : UserPendingCountKey(u, c)[1] = Word("count")
  /\ \A r : RequestKey(r)[1] = Word("req")
<1>1. \A x : ApikeyKey(x)[1] = Word("apikey")
  BY DEF ApikeyKey
<1>2. \A u, s : UserPlanKey(u, s)[1] = Word("userplan")
  BY DEF UserPlanKey
<1>3. \A u, s : UserPlanUpdatedForQpsPluginKey(u, s)[1] = Word("user")
  BY DEF UserPlanUpdatedForQpsPluginKey
<1>4. \A p : PlanKey(p)[1] = Word("plan")
  BY DEF PlanKey
<1>5. \A c : ApiProfilesKey(c)[1] = Word("apiprofile")
  BY DEF ApiProfilesKey
<1>6. \A u, c : UserCountKey(u, c)[1] = Word("count")
  BY DEF UserCountKey, CountPrefix
<1>7. \A u, c : UserPendingCountKey(u, c)[1] = Word("count")
  BY DEF UserPendingCountKey, CountPrefix
<1>8. \A r : RequestKey(r)[1] = Word("req")
  BY DEF RequestKey
<1> QED
  BY <1>1, <1>2, <1>3, <1>4, <1>5, <1>6, <1>7, <1>8

LEMMA WordsDiffer ==
  ASSUME NEW v, NEW w, v # w
  PROVE  Word(v) # Word(w)
BY DEF Word

(* What each step leaves. *)
LEMMA KeysFrame ==
  ASSUME NEW pairs, store' = MSet(Keys(pairs)), NEW k, k[1] # Word("apikey")
  PROVE  SameAt(k)
<1>1. k \notin DOMAIN Keys(pairs)
  BY Words DEF Keys
<1> QED
  BY <1>1, MSetReads

LEMMA DelFrame ==
  ASSUME NEW key, store' = Without(key), NEW k, k # key
  PROVE  SameAt(k)
BY DEF Without, SameAt

LEMMA UserPlansFrame ==
  ASSUME NEW us, NEW mark, store' = MSet(UserPlans(us, mark)), NEW k,
         k[1] # Word("userplan"), k[1] # Word("user")
  PROVE  SameAt(k)
<1>1. k \notin DOMAIN UserPlans(us, mark)
  <2> DEFINE mine == {<<UserPlanKey(u, s), u, s>> : u \in us, s \in Server}
             marks == {<<UserPlanUpdatedForQpsPluginKey(u, s), u, s>> : u \in us, s \in Server}
             keys == PlanEntries(us, mark)
  <2>1. \A x \in mine : x[1][1] = Word("userplan")
    BY Words
  <2>2. \A x \in marks : x[1][1] = Word("user")
    BY Words
  <2>3. DOMAIN UserPlans(us, mark) = {x[1] : x \in keys}
    BY DEF UserPlans
  <2>4. keys = mine \cup IF mark THEN marks ELSE {}
    BY DEF PlanEntries
  <2> HIDE DEF mine, marks, keys
  <2>5. \A x \in keys : x[1] # k
    BY <2>1, <2>2, <2>4
  <2> QED
    BY <2>3, <2>5
<1> QED
  BY <1>1, MSetReads

LEMMA PlansFrame ==
  ASSUME store' = MSet(GetAllPlansMap), NEW k, k[1] # Word("plan")
  PROVE  SameAt(k)
<1>1. k \notin DOMAIN GetAllPlansMap
  BY Words DEF GetAllPlansMap
<1> QED
  BY <1>1, MSetReads

LEMMA ProfilesFrame ==
  ASSUME store' = MSet(GetApiProfiles), NEW k, k[1] # Word("apiprofile")
  PROVE  SameAt(k)
<1>1. k \notin DOMAIN GetApiProfiles
  BY Words DEF GetApiProfiles
<1> QED
  BY <1>1, MSetReads

LEMMA CallFrame ==
  ASSUME NEW a \in App, NEW c \in CostType, Call(a, c), NEW k,
         k # UserCountKey(OwnerOf[a], c), k # UserPendingCountKey(OwnerOf[a], c),
         k # RequestKey(<<OwnerOf[a], c>>)
  PROVE  SameAt(k)
<1> DEFINE u == OwnerOf[a]
           n == called[u][c] + 1
           counts == [j \in {UserCountKey(u, c), UserPendingCountKey(u, c)} |-> <<Num(n)>>]
           req == [j \in {RequestKey(<<u, c>>)} |-> RequestValue(u, a, c, n)]
<1>1. store' = MSet(Over(counts, req))
  BY DEF Call
<1>2. k \notin DOMAIN Over(counts, req)
  <2>1. DOMAIN Over(counts, req) = DOMAIN counts \cup DOMAIN req
    <3> HIDE DEF counts, req
    <3> QED BY DEF Over
  <2>2. k \notin DOMAIN counts /\ k \notin DOMAIN req
    OBVIOUS
  <2> QED
    BY <2>1, <2>2
<1> HIDE DEF counts, req
<1> QED
  BY <1>1, <1>2, MSetReads

(* Every step, seen from one key. *)
LEMMA NextFrame ==
  ASSUME [Next]_vars, NEW k
  PROVE  \/ SameAt(k)
         \/ k[1] = Word("apikey") /\ \E c \in updates : DelOldKey(c) \/ SetNewKey(c)
         \/ k[1] = Word("apikey") /\ LoadSet
         \/ /\ k[1] \in {Word("userplan"), Word("user")}
            /\ SetAllUserPlans \/ \E u \in copying : SetUserPlansToRedis(u)
         \/ k[1] = Word("plan") /\ SetPlansToRedis
         \/ k[1] = Word("apiprofile") /\ SetApiprofilesToRedis
         \/ k[1] \in {Word("count"), Word("req")} /\ \E a \in App, c \in CostType : Call(a, c)
<1>1. UNCHANGED store => SameAt(k)
  BY DEF SameAt
<1>2. ASSUME NEW a \in App, NewKey(a) PROVE SameAt(k)
  BY <1>1, <1>2 DEF NewKey
<1>3. ASSUME NEW c \in updates, DelOldKey(c) PROVE SameAt(k) \/ k[1] = Word("apikey")
  BY <1>3, DelFrame, Words DEF DelOldKey
<1>4. ASSUME NEW c \in updates, SetNewKey(c) PROVE SameAt(k) \/ k[1] = Word("apikey")
  BY <1>4, KeysFrame DEF SetNewKey
<1>5. ASSUME NEW c \in updates, UpdateFails(c) PROVE SameAt(k)
  BY <1>1, <1>5 DEF UpdateFails
<1>6. ASSUME NEW p \in Plan, EditPlan(p) PROVE SameAt(k)
  BY <1>1, <1>6 DEF EditPlan
<1>7. ASSUME NEW u \in User, NEW s \in Server, NEW p \in Plan, BuyBillPlan(u, s, p)
      PROVE  SameAt(k)
  BY <1>1, <1>7 DEF BuyBillPlan
<1>8. ASSUME NEW u \in copying, SetUserPlansToRedis(u)
      PROVE  SameAt(k) \/ k[1] \in {Word("userplan"), Word("user")}
  BY <1>8, UserPlansFrame DEF SetUserPlansToRedis
<1>9. ASSUME NEW u \in copying, CopyFails(u) PROVE SameAt(k)
  BY <1>1, <1>9 DEF CopyFails
<1>10. ASSUME SetAllUserPlans PROVE SameAt(k) \/ k[1] \in {Word("userplan"), Word("user")}
  BY <1>10, UserPlansFrame DEF SetAllUserPlans
<1>11. ASSUME SetPlansToRedis PROVE SameAt(k) \/ k[1] = Word("plan")
  BY <1>11, PlansFrame DEF SetPlansToRedis, WithPlans
<1>12. ASSUME SetApiprofilesToRedis PROVE SameAt(k) \/ k[1] = Word("apiprofile")
  BY <1>12, ProfilesFrame DEF SetApiprofilesToRedis
<1>13. ASSUME LoadFind PROVE SameAt(k)
  BY <1>1, <1>13 DEF LoadFind
<1>14. ASSUME LoadSet PROVE SameAt(k) \/ k[1] = Word("apikey")
  BY <1>14, KeysFrame DEF LoadSet, WithFound
<1>15. ASSUME Restart PROVE SameAt(k)
  BY <1>1, <1>15 DEF Restart
<1>16. ASSUME NEW a \in App, NEW c \in CostType, Call(a, c)
       PROVE  SameAt(k) \/ k[1] \in {Word("count"), Word("req")}
  <2>1. k[1] \notin {Word("count"), Word("req")} =>
          /\ k # UserCountKey(OwnerOf[a], c) /\ k # UserPendingCountKey(OwnerOf[a], c)
          /\ k # RequestKey(<<OwnerOf[a], c>>)
    <3>1. /\ UserCountKey(OwnerOf[a], c)[1] = Word("count")
          /\ UserPendingCountKey(OwnerOf[a], c)[1] = Word("count")
          /\ RequestKey(<<OwnerOf[a], c>>)[1] = Word("req")
      BY Words
    <3> QED
      BY <3>1
  <2> QED
    BY <1>16, <2>1, CallFrame
<1>17. UNCHANGED vars => SameAt(k)
  BY <1>1 DEF vars
<1> QED
  BY <1>2, <1>3, <1>4, <1>5, <1>6, <1>7, <1>8, <1>9, <1>10, <1>11, <1>12, <1>13, <1>14, <1>15,
     <1>16, <1>17 DEF Next, Starting
-----------------------------------------------------------------------------
KeyOf(a, n) == ApikeyKey(<<a, n>>)
HasKey(a, n) == KeyOf(a, n) \in DOMAIN store
AllPairs == {Pair(a, n) : a \in App, n \in Nat}

(* Whatever is in redis under the key of an application is about it. *)
ValuesInv ==
  \A a \in App, n \in Nat : HasKey(a, n) => store[KeyOf(a, n)] = ApikeyValue(OwnerOf[a], a)

(* The current key is in redis, or a call is still to set it, or the load. *)
SetInv ==
  \A a \in App : a \notin undone =>
    \/ HasKey(a, apiKey[a])
    \/ \E c \in updates : c.app = a /\ c.new = apiKey[a]
    \/ start.pc \in {"users", "plans", "profiles", "load"}
    \/ start.pc = "found" /\ Current(a) \in start.found

(* A call will delete any other key that is there. *)
DeletedInv ==
  \A a \in App : a \notin revoked =>
    \A n \in Nat : HasKey(a, n) => n = apiKey[a] \/ Doomed(a, n)

KeysInv == ValuesInv /\ SetInv /\ DeletedInv

LEMMA KeyOfOnce ==
  ASSUME NEW a, NEW n, NEW b, NEW m, KeyOf(a, n) = KeyOf(b, m)
  PROVE  a = b /\ n = m
<1>1. KeyOf(a, n)[2] = <<"hash", <<a, n>>>> /\ KeyOf(b, m)[2] = <<"hash", <<b, m>>>>
  BY DEF KeyOf, ApikeyKey, Hash
<1> QED
  BY <1>1

LEMMA PairParts ==
  \A a, n : /\ Pair(a, n).app = a /\ Pair(a, n).key = <<a, n>>
            /\ ApikeyKey(Pair(a, n).key) = KeyOf(a, n)
            /\ Value(Pair(a, n)) = ApikeyValue(OwnerOf[a], a)
BY DEF Pair, KeyOf, Value

(* What a MSET of API keys does to the key of an application. *)
LEMMA SetsKeys ==
  ASSUME NEW pairs \in SUBSET AllPairs, store' = MSet(Keys(pairs)),
         NEW a \in App, NEW n \in Nat
  PROVE  IF Pair(a, n) \in pairs
         THEN HasKey(a, n)' /\ store'[KeyOf(a, n)] = ApikeyValue(OwnerOf[a], a)
         ELSE SameAt(KeyOf(a, n))
<1>1. DOMAIN Keys(pairs) = {ApikeyKey(p.key) : p \in pairs}
  BY DEF Keys
<1>2. ASSUME NEW p \in pairs, ApikeyKey(p.key) = KeyOf(a, n)
      PROVE  p = Pair(a, n)
  <2>1. PICK b \in App, m \in Nat : p = Pair(b, m)
    BY DEF AllPairs
  <2>2. KeyOf(b, m) = KeyOf(a, n)
    BY <1>2, <2>1, PairParts
  <2> QED
    BY <2>1, <2>2, KeyOfOnce
<1>3. CASE Pair(a, n) \in pairs
  <2> DEFINE key == KeyOf(a, n)
             chosen == CHOOSE p \in pairs : ApikeyKey(p.key) = key
  <2>1. key \in DOMAIN Keys(pairs)
    BY <1>1, <1>3, PairParts
  <2>2. \E p \in pairs : ApikeyKey(p.key) = key
    BY <1>3, PairParts
  <2>3. chosen \in pairs /\ ApikeyKey(chosen.key) = key
    BY <2>2
  <2>4. Keys(pairs)[key] = Value(chosen)
    BY <1>1, <2>1 DEF Keys
  <2> HIDE DEF chosen
  <2>5. chosen = Pair(a, n)
    BY <1>2, <2>3
  <2>6. Keys(pairs)[key] = ApikeyValue(OwnerOf[a], a)
    BY <2>4, <2>5, PairParts
  <2>7. key \in DOMAIN store' /\ store'[key] = Keys(pairs)[key]
    <3> HIDE DEF key
    <3> QED BY <2>1, MSetReads
  <2> QED
    BY <1>3, <2>6, <2>7 DEF HasKey
<1>4. CASE Pair(a, n) \notin pairs
  <2>1. KeyOf(a, n) \notin DOMAIN Keys(pairs)
    BY <1>1, <1>2, <1>4
  <2> QED
    BY <1>4, <2>1, MSetReads
<1> QED
  BY <1>3, <1>4

(* Steps that touch no API key. *)
LEMMA NoKeys ==
  ASSUME [Next]_vars, \A c \in updates : ~DelOldKey(c) /\ ~SetNewKey(c), ~LoadSet
  PROVE  \A a, n : SameAt(KeyOf(a, n)) /\ (HasKey(a, n)' <=> HasKey(a, n))
<1> SUFFICES ASSUME NEW a, NEW n PROVE SameAt(KeyOf(a, n))
  BY DEF SameAt, HasKey
<1>1. /\ KeyOf(a, n)[1] = Word("apikey")
      /\ Word("apikey") \notin {Word("userplan"), Word("user"), Word("plan"),
                                Word("apiprofile"), Word("count"), Word("req")}
  BY Words, WordsDiffer DEF KeyOf
<1> QED
  BY <1>1, NextFrame

LEMMA InitKeys == Init => KeysInv
<1> SUFFICES ASSUME Init PROVE KeysInv
  OBVIOUS
<1>1. DOMAIN store = {} /\ start.pc = "users"
  BY DEF Init, At
<1> QED
  BY <1>1 DEF KeysInv, ValuesInv, SetInv, DeletedInv, HasKey

LEMMA NextValues ==
  ASSUME Typed, ValuesInv, [Next]_vars
  PROVE  ValuesInv'
<1> SUFFICES ASSUME NEW a \in App, NEW n \in Nat, HasKey(a, n)'
             PROVE  store'[KeyOf(a, n)] = ApikeyValue(OwnerOf[a], a)
  BY DEF ValuesInv, HasKey
<1>1. ASSUME SameAt(KeyOf(a, n)) PROVE store'[KeyOf(a, n)] = ApikeyValue(OwnerOf[a], a)
  BY <1>1 DEF SameAt, HasKey, ValuesInv
<1>2. ASSUME NEW pairs \in SUBSET AllPairs, store' = MSet(Keys(pairs))
      PROVE  store'[KeyOf(a, n)] = ApikeyValue(OwnerOf[a], a)
  BY <1>1, <1>2, SetsKeys
<1>3. ASSUME NEW c \in updates, DelOldKey(c) PROVE SameAt(KeyOf(a, n))
  <2>1. store' = Without(ApikeyKey(OldPair(c).key))
    BY <1>3 DEF DelOldKey
  <2>2. KeyOf(a, n) # ApikeyKey(OldPair(c).key)
    BY <2>1 DEF HasKey, Without
  <2> QED
    BY <2>1, <2>2, DelFrame
<1>4. ASSUME NEW c \in updates, SetNewKey(c)
      PROVE  store'[KeyOf(a, n)] = ApikeyValue(OwnerOf[a], a)
  <2>1. {Pair(c.app, c.new)} \in SUBSET AllPairs
    BY DEF Typed, Update, AllPairs
  <2> QED
    BY <1>2, <1>4, <2>1 DEF SetNewKey
<1>5. ASSUME LoadSet PROVE store'[KeyOf(a, n)] = ApikeyValue(OwnerOf[a], a)
  <2>1. start.found \in SUBSET AllPairs
    BY DEF Typed, AllPairs
  <2> QED
    BY <1>2, <1>5, <2>1 DEF LoadSet, WithFound
<1> QED
  BY <1>1, <1>3, <1>4, <1>5, NoKeys

(* Every step, seen from what is known of the API keys. *)
LEMMA OtherSteps ==
  ASSUME [Next]_vars
  PROVE  \/ \E a \in App : NewKey(a)
         \/ \E c \in updates : DelOldKey(c) \/ SetNewKey(c) \/ UpdateFails(c)
         \/ LoadFind \/ LoadSet \/ Restart
         \/ /\ start' \in {At("plans"), At("profiles"), At("load")}
            /\ UNCHANGED <<apiKey, updates, undone, revoked>>
         \/ UNCHANGED <<apiKey, updates, start, undone, revoked>>
<1>1. ASSUME NEW p \in Plan, EditPlan(p)
      PROVE  UNCHANGED <<apiKey, updates, start, undone, revoked>>
  BY <1>1 DEF EditPlan, history
<1>2. ASSUME NEW u \in User, NEW s \in Server, NEW p \in Plan, BuyBillPlan(u, s, p)
      PROVE  UNCHANGED <<apiKey, updates, start, undone, revoked>>
  BY <1>2 DEF BuyBillPlan, history
<1>3. ASSUME NEW u \in copying, SetUserPlansToRedis(u) \/ CopyFails(u)
      PROVE  UNCHANGED <<apiKey, updates, start, undone, revoked>>
  BY <1>3 DEF SetUserPlansToRedis, CopyFails, db, history
<1>4. ASSUME SetAllUserPlans \/ SetPlansToRedis \/ SetApiprofilesToRedis
      PROVE  /\ start' \in {At("plans"), At("profiles"), At("load")}
             /\ UNCHANGED <<apiKey, updates, undone, revoked>>
  BY <1>4 DEF SetAllUserPlans, SetPlansToRedis, SetApiprofilesToRedis, db, history
<1>5. ASSUME NEW a \in App, NEW c \in CostType, Call(a, c)
      PROVE  UNCHANGED <<apiKey, updates, start, undone, revoked>>
  BY <1>5 DEF Call, db, history
<1>6. UNCHANGED vars => UNCHANGED <<apiKey, updates, start, undone, revoked>>
  BY DEF vars, db, history
<1> QED
  BY <1>1, <1>2, <1>3, <1>4, <1>5, <1>6 DEF Next, Starting

LEMMA NextSet ==
  ASSUME Typed, UpdatesInv, SetInv, [Next]_vars
  PROVE  SetInv'
<1> SUFFICES ASSUME NEW a \in App, a \notin undone'
             PROVE  \/ KeyOf(a, apiKey'[a]) \in DOMAIN store'
                    \/ \E c \in updates' : c.app = a /\ c.new = apiKey'[a]
                    \/ start'.pc \in {"users", "plans", "profiles", "load"}
                    \/ start'.pc = "found" /\ Pair(a, apiKey'[a]) \in start'.found
  BY DEF SetInv, HasKey, Current
<1> DEFINE Goal == \/ KeyOf(a, apiKey'[a]) \in DOMAIN store'
                   \/ \E c \in updates' : c.app = a /\ c.new = apiKey'[a]
                   \/ start'.pc \in {"users", "plans", "profiles", "load"}
                   \/ start'.pc = "found" /\ Pair(a, apiKey'[a]) \in start'.found
           key == KeyOf(a, apiKey[a])
<1>1. a \notin undone =>
        \/ key \in DOMAIN store
        \/ \E c \in updates : c.app = a /\ c.new = apiKey[a]
        \/ start.pc \in {"users", "plans", "profiles", "load"}
        \/ start.pc = "found" /\ Pair(a, apiKey[a]) \in start.found
  BY DEF SetInv, HasKey, Current
<1>2. apiKey[a] \in Nat
  BY DEF Typed
<1>3. ASSUME UNCHANGED <<apiKey, updates, start, undone>>,
             key \in DOMAIN store => key \in DOMAIN store'
      PROVE  Goal
  BY <1>1, <1>3
<1>4. ASSUME NEW b \in App, NewKey(b) PROVE Goal
  <2>1. CASE b = a
    <3> DEFINE c == [app |-> a, old |-> apiKey[a], new |-> apiKey[a] + 1, pc |-> "sent"]
    <3>1. c \in updates' /\ apiKey'[a] = apiKey[a] + 1
      BY <1>4, <2>1 DEF NewKey, Typed
    <3> QED
      BY <3>1
  <2>2. CASE b # a
    <3>1. apiKey'[a] = apiKey[a] /\ updates \subseteq updates' /\ UNCHANGED <<store, start, undone>>
      BY <1>4, <2>2 DEF NewKey, Typed, history
    <3> QED
      BY <1>1, <3>1
  <2> QED
    BY <2>1, <2>2
<1>5. ASSUME NEW c \in updates, DelOldKey(c) PROVE Goal
  <2> DEFINE d == [c EXCEPT !.pc = "deleted"]
  <2>1. /\ store' = Without(ApikeyKey(OldPair(c).key)) /\ updates' = (updates \ {c}) \cup {d}
        /\ UNCHANGED <<apiKey, start, undone>>
    BY <1>5 DEF DelOldKey, db, history
  <2>2. c \in Update /\ c.new = c.old + 1 /\ c.new <= apiKey[c.app] /\ apiKey[c.app] \in Nat
    BY DEF Typed, UpdatesInv, Update
  <2>3. d.app = c.app /\ d.new = c.new
    BY <2>2 DEF Update
  <2>4. c.old # apiKey[c.app]
    BY <2>2 DEF Update
  <2>5. ApikeyKey(OldPair(c).key) = KeyOf(c.app, c.old)
    BY PairParts DEF OldPair
  <2>6. key # KeyOf(c.app, c.old)
    BY <2>4, KeyOfOnce
  <2>7. key \in DOMAIN store => key \in DOMAIN store'
    BY <2>1, <2>5, <2>6, DelFrame DEF SameAt
  <2>8. (\E e \in updates : e.app = a /\ e.new = apiKey[a]) =>
          \E e \in updates' : e.app = a /\ e.new = apiKey[a]
    <3> SUFFICES ASSUME NEW e \in updates, e.app = a, e.new = apiKey[a]
                 PROVE  \E x \in updates' : x.app = a /\ x.new = apiKey[a]
      OBVIOUS
    <3>1. e \in updates' \/ e = c
      BY <2>1
    <3>2. d \in updates'
      BY <2>1
    <3> QED
      BY <2>3, <3>1, <3>2
  <2> QED
    BY <1>1, <2>1, <2>7, <2>8
<1>6. ASSUME NEW c \in updates, SetNewKey(c) PROVE Goal
  <2>1. /\ store' = MSet(Keys({Pair(c.app, c.new)})) /\ updates' = updates \ {c}
        /\ UNCHANGED <<apiKey, start, undone>>
    BY <1>6 DEF SetNewKey, db
  <2>2. {Pair(c.app, c.new)} \in SUBSET AllPairs
    BY DEF Typed, Update, AllPairs
  <2>3. /\ Pair(a, apiKey[a]) = Pair(c.app, c.new) => key \in DOMAIN store'
        /\ key \in DOMAIN store => key \in DOMAIN store'
    BY <1>2, <2>1, <2>2, SetsKeys DEF HasKey, SameAt
  <2>4. c.app = a /\ c.new = apiKey[a] => key \in DOMAIN store'
    BY <2>3
  <2> QED
    BY <1>1, <2>1, <2>3, <2>4
<1>7. ASSUME NEW c \in updates, UpdateFails(c) PROVE Goal
  <2> DEFINE d == [c EXCEPT !.pc = "sent"]
  <2>1. UNCHANGED <<store, apiKey, start>>
    BY <1>7 DEF UpdateFails, db
  <2>2. CASE updates' = (updates \ {c}) \cup {d} /\ UNCHANGED undone
    <3>1. c \in Update
      BY DEF Typed
    <3>2. d.app = c.app /\ d.new = c.new
      BY <3>1 DEF Update
    <3>3. (\E e \in updates : e.app = a /\ e.new = apiKey[a]) =>
            \E e \in updates' : e.app = a /\ e.new = apiKey[a]
      <4> SUFFICES ASSUME NEW e \in updates, e.app = a, e.new = apiKey[a]
                   PROVE  \E x \in updates' : x.app = a /\ x.new = apiKey[a]
        OBVIOUS
      <4>1. e \in updates' \/ e = c
        BY <2>2
      <4>2. d \in updates'
        BY <2>2
      <4> QED
        BY <3>2, <4>1, <4>2
    <3> QED
      BY <1>1, <2>1, <2>2, <3>3
  <2>3. CASE updates' = updates \ {c} /\ GivenUp({c})
    <3>1. a \notin undone /\ a # c.app
      BY <2>3 DEF GivenUp
    <3> QED
      BY <1>1, <2>1, <2>3, <3>1
  <2> QED
    BY <1>7, <2>2, <2>3 DEF UpdateFails
<1>8. ASSUME LoadFind PROVE Goal
  <2>1. start' = [pc |-> "found", found |-> {Current(b) : b \in App}] /\ UNCHANGED apiKey
    BY <1>8 DEF LoadFind, db
  <2>2. Pair(a, apiKey[a]) \in {Current(b) : b \in App}
    BY DEF Current
  <2>3. start'.pc = "found" /\ start'.found = {Current(b) : b \in App}
    BY <2>1
  <2> QED
    BY <2>1, <2>2, <2>3
<1>9. ASSUME LoadSet PROVE Goal
  <2>1. /\ store' = MSet(Keys(start.found)) /\ UNCHANGED <<apiKey, updates>> /\ start.pc = "found"
        /\ undone' = {b \in undone : Current(b) \notin start.found}
    BY <1>9 DEF LoadSet, WithFound, db
  <2>2. start.found \in SUBSET AllPairs
    BY DEF Typed, AllPairs
  <2>3. /\ Pair(a, apiKey[a]) \in start.found => key \in DOMAIN store'
        /\ key \in DOMAIN store => key \in DOMAIN store'
    BY <1>2, <2>1, <2>2, SetsKeys DEF HasKey, SameAt
  <2>4. Pair(a, apiKey[a]) \notin start.found => a \notin undone
    BY <2>1 DEF Current
  <2> QED
    BY <1>1, <2>1, <2>3, <2>4
<1>10. ASSUME Restart PROVE Goal
  BY <1>10 DEF Restart, At
<1>11. ASSUME start' \in {At("plans"), At("profiles"), At("load")} PROVE Goal
  BY <1>11 DEF At
<1>12. ASSUME UNCHANGED <<apiKey, updates, start, undone, revoked>>
       PROVE  Goal
  <2>1. UNCHANGED undone
    BY <1>12
  <2>2. CASE \E c \in updates : DelOldKey(c) \/ SetNewKey(c)
    BY <1>5, <1>6, <2>2
  <2>3. CASE LoadSet
    BY <1>9, <2>3
  <2>4. CASE ~LoadSet /\ \A c \in updates : ~DelOldKey(c) /\ ~SetNewKey(c)
    <3>1. SameAt(key)
      BY <2>4, NoKeys
    <3> QED
      BY <1>3, <1>12, <2>1, <3>1 DEF SameAt
  <2> QED
    BY <2>2, <2>3, <2>4
<1> QED
  BY <1>4, <1>5, <1>6, <1>7, <1>8, <1>9, <1>10, <1>11, <1>12, OtherSteps

LEMMA NextDeleted ==
  ASSUME Typed, UpdatesInv, DeletedInv, [Next]_vars
  PROVE  DeletedInv'
<1> SUFFICES ASSUME NEW a \in App, a \notin revoked', NEW n \in Nat,
                    KeyOf(a, n) \in DOMAIN store'
             PROVE  \/ n = apiKey'[a]
                    \/ \E c \in updates' : c.app = a /\ c.old = n /\ c.pc = "sent"
  BY DEF DeletedInv, HasKey, Doomed
<1> DEFINE Goal == \/ n = apiKey'[a]
                   \/ \E c \in updates' : c.app = a /\ c.old = n /\ c.pc = "sent"
           had == KeyOf(a, n) \in DOMAIN store
           Deletes(c) == c.app = a /\ c.old = n /\ c.pc = "sent"
<1>1. a \notin revoked /\ had => n = apiKey[a] \/ \E c \in updates : Deletes(c)
  BY DEF DeletedInv, HasKey, Doomed
<1>2. ASSUME UNCHANGED <<apiKey, revoked>>, updates \subseteq updates', had PROVE Goal
  BY <1>1, <1>2
<1>3. ASSUME NEW b \in App, NewKey(b) PROVE Goal
  <2> DEFINE c == [app |-> b, old |-> apiKey[b], new |-> apiKey[b] + 1, pc |-> "sent"]
  <2>1. /\ apiKey' = [apiKey EXCEPT ![b] = @ + 1] /\ updates' = updates \cup {c}
        /\ UNCHANGED <<store, revoked>>
    BY <1>3 DEF NewKey, history
  <2>2. n = apiKey[a] => a = b \/ apiKey'[a] = apiKey[a]
    BY <2>1 DEF Typed
  <2>3. c \in updates' /\ c.app = b /\ c.old = apiKey[b] /\ c.pc = "sent"
    BY <2>1
  <2> QED
    BY <1>1, <2>1, <2>2, <2>3
<1>4. ASSUME NEW c \in updates, DelOldKey(c) PROVE Goal
  <2>1. /\ store' = Without(ApikeyKey(OldPair(c).key)) /\ updates \ {c} \subseteq updates'
        /\ UNCHANGED <<apiKey, revoked>>
    BY <1>4 DEF DelOldKey, db, history
  <2>2. ApikeyKey(OldPair(c).key) = KeyOf(c.app, c.old)
    BY PairParts DEF OldPair
  <2>3. had /\ KeyOf(a, n) # KeyOf(c.app, c.old)
    BY <2>1, <2>2 DEF Without
  <2>4. ~(a = c.app /\ n = c.old)
    BY <2>3
  <2> QED
    BY <1>1, <2>1, <2>3, <2>4
(* A key that is set is the current one, or is deleted yet, or counts as revoked. *)
<1>5. ASSUME NEW pairs \in SUBSET AllPairs, store' = MSet(Keys(pairs)),
             revoked' = revoked \cup Revoked(pairs), UNCHANGED apiKey
      PROVE  n = apiKey[a] \/ \E c \in updates : Deletes(c)
  <2>1. CASE Pair(a, n) \in pairs
    <3>1. Pair(a, n).app = a /\ Pair(a, n).key[2] = n /\ (Pair(a, n) = Current(a) => n = apiKey[a])
      BY PairParts DEF Current, Pair
    <3>2. a \notin Revoked(pairs)
      BY <1>5
    <3>3. Pair(a, n) = Current(a) \/ Doomed(a, n)
      <4> HIDE DEF Deletes
      <4> QED BY <2>1, <3>1, <3>2 DEF Revoked
    <3> QED
      BY <3>1, <3>3 DEF Doomed
  <2>2. CASE Pair(a, n) \notin pairs
    <3>1. had
      BY <1>5, <2>2, SetsKeys DEF SameAt
    <3> QED
      BY <1>1, <1>5, <3>1
  <2> QED
    BY <2>1, <2>2
<1>6. ASSUME NEW c \in updates, SetNewKey(c) PROVE Goal
  <2>1. /\ store' = MSet(Keys({Pair(c.app, c.new)})) /\ updates' = updates \ {c}
        /\ UNCHANGED apiKey /\ revoked' = revoked \cup Revoked({Pair(c.app, c.new)})
        /\ c.pc = "deleted"
    BY <1>6 DEF SetNewKey, db
  <2>2. {Pair(c.app, c.new)} \in SUBSET AllPairs
    BY DEF Typed, Update, AllPairs
  <2>3. n = apiKey[a] \/ \E d \in updates : Deletes(d)
    BY <1>5, <2>1, <2>2
  <2> QED
    BY <2>1, <2>3
<1>7. ASSUME LoadSet PROVE Goal
  <2>1. /\ store' = MSet(Keys(start.found)) /\ UNCHANGED <<apiKey, updates>>
        /\ revoked' = revoked \cup Revoked(start.found)
    BY <1>7 DEF LoadSet, WithFound, db
  <2>2. start.found \in SUBSET AllPairs
    BY DEF Typed, AllPairs
  <2>3. n = apiKey[a] \/ \E d \in updates : Deletes(d)
    BY <1>5, <2>1, <2>2
  <2> QED
    BY <2>1, <2>3
<1>8. ASSUME NEW c \in updates, UpdateFails(c) PROVE Goal
  <2> DEFINE d == [c EXCEPT !.pc = "sent"]
  <2>1. UNCHANGED <<store, apiKey>> /\ had
    BY <1>8 DEF UpdateFails, db
  <2>2. CASE updates' = (updates \ {c}) \cup {d} /\ UNCHANGED revoked
    <3>1. c \in Update
      BY DEF Typed
    <3>2. d.app = c.app /\ d.old = c.old /\ d.pc = "sent" /\ d \in updates'
      BY <2>2, <3>1 DEF Update
    <3>3. ASSUME NEW e \in updates, Deletes(e) PROVE \E x \in updates' : Deletes(x)
      <4>1. e \in updates' \/ e = c
        BY <2>2
      <4> QED
        BY <3>2, <3>3, <4>1
    <3> QED
      BY <1>1, <2>1, <2>2, <3>3
  <2>3. CASE updates' = updates \ {c} /\ GivenUp({c})
    <3>1. a \notin revoked /\ (c.pc = "sent" => a # c.app)
      BY <2>3 DEF GivenUp
    <3> QED
      BY <1>1, <2>1, <2>3, <3>1
  <2> QED
    BY <1>8, <2>2, <2>3 DEF UpdateFails
<1>9. ASSUME Restart PROVE Goal
  <2>1. /\ UNCHANGED <<store, apiKey>>
        /\ revoked' = revoked \cup {c.app : c \in {d \in updates : d.pc = "sent"}}
    BY <1>9 DEF Restart, GivenUp, db
  <2>2. a \notin revoked /\ \A c \in updates : ~Deletes(c)
    BY <2>1
  <2> QED
    BY <1>1, <2>1, <2>2
<1>10. ASSUME UNCHANGED <<apiKey, updates, revoked>> PROVE Goal
  <2>1. CASE \E c \in updates : DelOldKey(c) \/ SetNewKey(c)
    BY <1>4, <1>6, <2>1
  <2>2. CASE LoadSet
    BY <1>7, <2>2
  <2>3. CASE ~LoadSet /\ \A c \in updates : ~DelOldKey(c) /\ ~SetNewKey(c)
    <3>1. SameAt(KeyOf(a, n))
      BY <2>3, NoKeys
    <3> QED
      BY <1>2, <1>10, <3>1 DEF SameAt
  <2> QED
    BY <2>1, <2>2, <2>3
<1>11. LoadFind => UNCHANGED <<apiKey, updates, revoked>>
  BY DEF LoadFind, db, history
<1> QED
  BY <1>3, <1>4, <1>6, <1>7, <1>8, <1>9, <1>10, <1>11, OtherSteps

LEMMA KeysAlways == Spec => [](Typed /\ UpdatesInv /\ KeysInv)
<1> DEFINE IInv == Typed /\ UpdatesInv /\ KeysInv
<1>1. Init => IInv
  BY InitTyped, InitKeys
<1>2. IInv /\ [Next]_vars => IInv'
  BY NextTyped, NextValues, NextSet, NextDeleted DEF KeysInv
<1> QED
  BY <1>1, <1>2, PTL DEF Spec

(* The variables keep their types, and an update gives the next key: what a server
   of several calls, a load and a restart leave (apikey.go:11-53, main.go:34). *)
THEOREM CopiesTypeCorrect == Spec => [](Typed /\ UpdatesInv)
BY KeysAlways, PTL

LEMMA ValueParsed ==
  \A u, a : ParseApikeyValue(ApikeyValue(u, a)) = {<<u, a>>}
BY DEF ParseApikeyValue, ApikeyValue, Num, Parsed, Is

(* apikey.go:11-53: when the calls for an application have returned and the load is
   done, the gateway finds it by its key and by no older one, in whatever order calls,
   failures, loads and restarts came. *)
THEOREM KeysFollowCalls == Spec => []KeysFollow
<1>1. ASSUME Typed, KeysInv, NEW a \in App, Quiet(a), a \notin undone
      PROVE  GetUserInfoByApikey(store, <<a, apiKey[a]>>) = {<<OwnerOf[a], a>>}
  <2>1. apiKey[a] \in Nat /\ start.pc = "done"
    BY <1>1 DEF Typed, Quiet, At
  <2>2. HasKey(a, apiKey[a])
    BY <1>1, <2>1 DEF KeysInv, SetInv, Quiet
  <2>3. store[KeyOf(a, apiKey[a])] = ApikeyValue(OwnerOf[a], a)
    BY <1>1, <2>1, <2>2 DEF KeysInv, ValuesInv
  <2>4. Get(store, KeyOf(a, apiKey[a])) = {ApikeyValue(OwnerOf[a], a)}
    BY <2>2, <2>3 DEF Get, HasKey
  <2> QED
    BY <2>4, ValueParsed DEF GetUserInfoByApikey, KeyOf
<1>2. ASSUME Typed, KeysInv, NEW a \in App, Quiet(a), a \notin revoked,
             NEW n \in 0 .. MaxKeys, Known(a, n)
      PROVE  n = apiKey[a]
  <2>1. n \in Nat /\ HasKey(a, n)
    BY <1>2 DEF Known, GetUserInfoByApikey, Get, HasKey, KeyOf
  <2>2. ~Doomed(a, n)
    BY <1>2 DEF Quiet, Doomed
  <2> QED
    BY <1>2, <2>1, <2>2 DEF KeysInv, DeletedInv
<1>3. Typed /\ KeysInv => KeysFollow
  BY <1>1, <1>2 DEF KeysFollow
<1> QED
  BY <1>3, KeysAlways, PTL
-----------------------------------------------------------------------------
(* What the gateway is told of API profiles, plans and the plans of users. *)
ProfilesInv ==
  start.pc \in {"load", "found", "done"} =>
    \A c \in CostType : Get(store, ApiProfilesKey(c)) = {<<Json(ServerOf[c])>>}

RowsInv ==
  start.pc \notin {"users", "plans"} =>
    \A p \in Plan \ stale.plans : plan[p] > 0 => Get(store, PlanKey(p)) = {<<Json(<<p, plan[p]>>)>>}

InForceInv ==
  start.pc # "users" =>
    \A u \in User \ (copying \cup stale.users), s \in Server :
      Get(store, UserPlanKey(u, s)) = {<<Num(userPlan[u][s])>>}

(* A plan that is in force has a row. *)
BoughtInv == \A u \in User, s \in Server : plan[userPlan[u][s]] > 0

PlansInv == ProfilesInv /\ RowsInv /\ InForceInv /\ BoughtInv

LEMMA SameGet ==
  ASSUME NEW k, SameAt(k)
  PROVE  Get(store', k) = Get(store, k)
BY DEF SameAt, Get

LEMMA SetGet ==
  ASSUME NEW kvs, store' = MSet(kvs), NEW k \in DOMAIN kvs
  PROVE  Get(store', k) = {kvs[k]}
BY MSetReads DEF Get

LEMMA PlanKeysOnce ==
  ASSUME NEW u, NEW s, NEW v, NEW t, UserPlanKey(u, s) = UserPlanKey(v, t)
  PROVE  u = v /\ s = t
<1>1. UserPlanKey(u, s)[2] = <<"num", u>> /\ UserPlanKey(u, s)[3] = <<"name", s>>
  BY DEF UserPlanKey, Num, Name
<1>2. UserPlanKey(v, t)[2] = <<"num", v>> /\ UserPlanKey(v, t)[3] = <<"name", t>>
  BY DEF UserPlanKey, Num, Name
<1> QED
  BY <1>1, <1>2

(* What a copy of the plans of some users holds. *)
LEMMA UserPlansRead ==
  ASSUME NEW us \in SUBSET User, NEW mark, NEW u \in User, NEW s \in Server
  PROVE  /\ UserPlanKey(u, s) \in DOMAIN UserPlans(us, mark) <=> u \in us
         /\ u \in us => UserPlans(us, mark)[UserPlanKey(u, s)] = <<Num(userPlan[u][s])>>
<1> DEFINE mine == {<<UserPlanKey(v, t), v, t>> : v \in us, t \in Server}
           marks == {<<UserPlanUpdatedForQpsPluginKey(v, t), v, t>> : v \in us, t \in Server}
           keys == PlanEntries(us, mark)
           key == UserPlanKey(u, s)
           chosen == CHOOSE y \in keys : y[1] = key
<1>1. /\ DOMAIN UserPlans(us, mark) = {x[1] : x \in keys}
      /\ key \in DOMAIN UserPlans(us, mark) =>
           UserPlans(us, mark)[key] = <<Num(userPlan[chosen[2]][chosen[3]])>>
  <2> HIDE DEF key
  <2> QED BY DEF UserPlans
<1>2. \A x \in marks : x[1] # key
  <2>1. \A x \in marks : x[1][1] = Word("user")
    BY Words
  <2>2. key[1] = Word("userplan") /\ Word("user") # Word("userplan")
    BY Words, WordsDiffer
  <2> HIDE DEF marks, key
  <2> QED
    BY <2>1, <2>2
<1>3. ASSUME NEW x \in mine, x[1] = key PROVE x[2] = u /\ x[3] = s /\ u \in us
  <2>1. PICK v \in us, t \in Server : x = <<UserPlanKey(v, t), v, t>>
    OBVIOUS
  <2>2. UserPlanKey(v, t) = UserPlanKey(u, s)
    BY <1>3, <2>1
  <2>3. v = u /\ t = s
    BY <2>2, PlanKeysOnce
  <2> QED
    BY <2>1, <2>3
<1>4. u \in us => <<key, u, s>> \in mine
  OBVIOUS
<1>5. keys = mine \cup IF mark THEN marks ELSE {}
  BY DEF PlanEntries
<1> HIDE DEF mine, marks, key, keys
<1>6. \A x \in keys : x[1] = key => x[2] = u /\ x[3] = s /\ u \in us
  BY <1>2, <1>3, <1>5
<1>7. u \in us => \E x \in keys : x[1] = key
  <2> SUFFICES ASSUME u \in us PROVE \E x \in keys : x[1] = key
    OBVIOUS
  <2>1. <<key, u, s>> \in keys /\ <<key, u, s>>[1] = key
    BY <1>4, <1>5
  <2> QED
    BY <2>1
<1>8. u \in us => chosen \in keys /\ chosen[1] = key
  BY <1>7
<1> HIDE DEF chosen
<1>9. key \in DOMAIN UserPlans(us, mark) <=> u \in us
  BY <1>1, <1>6, <1>7
<1>10. u \in us => UserPlans(us, mark)[key] = <<Num(userPlan[u][s])>>
  BY <1>1, <1>6, <1>8, <1>9
<1> QED
  BY <1>9, <1>10 DEF key

LEMMA UserPlansGet ==
  ASSUME NEW us \in SUBSET User, NEW mark, store' = MSet(UserPlans(us, mark)),
         NEW u \in User, NEW s \in Server
  PROVE  /\ u \in us => Get(store', UserPlanKey(u, s)) = {<<Num(userPlan[u][s])>>}
         /\ u \notin us => Get(store', UserPlanKey(u, s)) = Get(store, UserPlanKey(u, s))
<1>1. CASE u \in us
  BY <1>1, SetGet, UserPlansRead
<1>2. CASE u \notin us
  <2>1. UserPlanKey(u, s) \notin DOMAIN UserPlans(us, mark)
    BY <1>2, UserPlansRead
  <2>2. SameAt(UserPlanKey(u, s))
    BY <2>1, MSetReads
  <2> QED
    BY <1>2, <2>2, SameGet
<1> QED
  BY <1>1, <1>2

LEMMA InitPlans == Init => PlansInv
<1> SUFFICES ASSUME Init PROVE PlansInv
  OBVIOUS
<1>1. start.pc = "users"
  BY DEF Init, At
<1>2. ASSUME NEW u \in User, NEW s \in Server PROVE plan[userPlan[u][s]] > 0
  <2>1. userPlan[u][s] = FirstPlan[s] /\ FirstPlan[s] \in Plan
    BY CopiesAssumption DEF Init
  <2> QED
    BY <2>1 DEF Init
<1> QED
  BY <1>1, <1>2 DEF PlansInv, ProfilesInv, RowsInv, InForceInv, BoughtInv

(* Where the start goes. *)
LEMMA StartSteps ==
  ASSUME Typed, [Next]_vars
  PROVE  \/ start' = start
         \/ SetAllUserPlans /\ start.pc = "users" /\ start'.pc = "plans"
         \/ SetPlansToRedis /\ start.pc = "plans" /\ start'.pc = "profiles"
         \/ SetApiprofilesToRedis /\ start.pc = "profiles" /\ start'.pc = "load"
         \/ LoadFind /\ start.pc = "load" /\ start'.pc = "found"
         \/ LoadSet /\ start.pc = "found" /\ start'.pc = "done"
         \/ start'.pc = "users"
<1>1. Starting =>
        \/ SetAllUserPlans /\ start.pc = "users" /\ start'.pc = "plans"
        \/ SetPlansToRedis /\ start.pc = "plans" /\ start'.pc = "profiles"
        \/ SetApiprofilesToRedis /\ start.pc = "profiles" /\ start'.pc = "load"
        \/ LoadFind /\ start.pc = "load" /\ start'.pc = "found"
        \/ LoadSet /\ start.pc = "found" /\ start'.pc = "done"
  <2>1. SetAllUserPlans => start.pc = "users" /\ start'.pc = "plans"
    BY DEF SetAllUserPlans, At
  <2>2. SetPlansToRedis => start.pc = "plans" /\ start'.pc = "profiles"
    BY DEF SetPlansToRedis, At
  <2>3. SetApiprofilesToRedis => start.pc = "profiles" /\ start'.pc = "load"
    BY DEF SetApiprofilesToRedis, At
  <2>4. LoadFind => start.pc = "load" /\ start'.pc = "found"
    BY DEF LoadFind
  <2>5. LoadSet => start.pc = "found" /\ start'.pc = "done"
    BY DEF LoadSet, At
  <2> QED
    BY <2>1, <2>2, <2>3, <2>4, <2>5 DEF Starting
<1>2. Restart => start'.pc = "users"
  BY DEF Restart, At
<1>3. UNCHANGED vars => start' = start
  BY DEF vars
<1>4. ASSUME Next, ~Starting, ~Restart PROVE start' = start
  BY <1>4 DEF Next, NewKey, Call, DelOldKey, SetNewKey, UpdateFails, EditPlan, BuyBillPlan,
              SetUserPlansToRedis, CopyFails
<1> QED
  BY <1>1, <1>2, <1>3, <1>4

LEMMA NextProfiles ==
  ASSUME Typed, ProfilesInv, [Next]_vars
  PROVE  ProfilesInv'
<1> SUFFICES ASSUME start'.pc \in {"load", "found", "done"}, NEW c \in CostType
             PROVE  Get(store', ApiProfilesKey(c)) = {<<Json(ServerOf[c])>>}
  BY DEF ProfilesInv
<1> DEFINE key == ApiProfilesKey(c)
<1>1. CASE SetApiprofilesToRedis
  <2>1. store' = MSet(GetApiProfiles)
    BY <1>1 DEF SetApiprofilesToRedis
  <2>2. key \in DOMAIN GetApiProfiles /\ GetApiProfiles[key] = <<Json(ServerOf[key[2][2]])>>
    BY DEF GetApiProfiles
  <2>3. key[2][2] = c
    BY DEF ApiProfilesKey, Num
  <2> QED
    BY <2>1, <2>2, <2>3, SetGet
<1>2. CASE ~SetApiprofilesToRedis
  <2>1. start.pc \in {"load", "found", "done"}
    BY <1>2, StartSteps
  <2>2. SameAt(key)
    <3>1. /\ key[1] = Word("apiprofile")
          /\ Word("apiprofile") \notin {Word("userplan"), Word("user"), Word("plan"),
                                        Word("apikey"), Word("count"), Word("req")}
      BY Words, WordsDiffer
    <3> HIDE DEF key
    <3> QED
      BY <1>2, <3>1, NextFrame
  <2> QED
    BY <2>1, <2>2, SameGet DEF ProfilesInv
<1> QED
  BY <1>1, <1>2

LEMMA NextRows ==
  ASSUME Typed, RowsInv, [Next]_vars
  PROVE  RowsInv'
<1> SUFFICES ASSUME start'.pc \notin {"users", "plans"}, NEW p \in Plan, p \notin stale'.plans,
                    plan'[p] > 0
             PROVE  Get(store', PlanKey(p)) = {<<Json(<<p, plan'[p]>>)>>}
  BY DEF RowsInv
<1> DEFINE key == PlanKey(p)
<1>1. CASE SetPlansToRedis
  <2>1. store' = MSet(GetAllPlansMap) /\ plan' = plan
    BY <1>1 DEF SetPlansToRedis, WithPlans, db
  <2>2. key[2][2] = p
    BY DEF PlanKey, Num
  <2>3. key \in DOMAIN GetAllPlansMap
    BY <2>1 DEF GetAllPlansMap
  <2>4. GetAllPlansMap[key] = <<Json(<<p, plan[p]>>)>>
    <3>1. GetAllPlansMap[key] = <<Json(<<key[2][2], plan[key[2][2]]>>)>>
      BY <2>3 DEF GetAllPlansMap
    <3> QED
      BY <2>2, <3>1
  <2>5. Get(store', key) = {GetAllPlansMap[key]}
    BY <2>1, <2>3, SetGet
  <2> QED
    BY <2>1, <2>4, <2>5
<1>2. CASE ~SetPlansToRedis
  <2>1. start.pc \notin {"users", "plans"}
    BY <1>2, StartSteps
  <2>2. SameAt(key)
    <3>1. /\ key[1] = Word("plan")
          /\ Word("plan") \notin {Word("userplan"), Word("user"), Word("apiprofile"),
                                  Word("apikey"), Word("count"), Word("req")}
      BY Words, WordsDiffer
    <3> HIDE DEF key
    <3> QED
      BY <1>2, <3>1, NextFrame
  <2>3. plan'[p] = plan[p] /\ p \notin stale.plans
    <3>1. ASSUME NEW q \in Plan, EditPlan(q) PROVE plan'[p] = plan[p] /\ p \notin stale.plans
      <4>1. plan' = [plan EXCEPT ![q] = @ + 1] /\ stale' = [stale EXCEPT !.plans = @ \cup {q}]
        BY <3>1 DEF EditPlan
      <4>2. p # q /\ p \notin stale.plans
        BY <4>1 DEF Typed
      <4> QED
        BY <4>1, <4>2 DEF Typed
    <3>2. ASSUME NEW u \in copying, SetUserPlansToRedis(u) \/ CopyFails(u)
          PROVE  plan' = plan /\ stale'.plans = stale.plans
      <4>1. /\ plan' = plan
            /\ \/ stale' = [stale EXCEPT !.users = @ \ {u}]
               \/ stale' = [stale EXCEPT !.users = @ \cup {u}]
        BY <3>2 DEF SetUserPlansToRedis, CopyFails, db
      <4> QED
        BY <4>1 DEF Typed
    <3>3. SetAllUserPlans => plan' = plan /\ stale'.plans = stale.plans
      BY DEF SetAllUserPlans, db, Typed
    <3>4. ASSUME NEW a \in App, NewKey(a) \/ \E c \in CostType : Call(a, c)
          PROVE  plan' = plan /\ stale' = stale
      BY <3>4 DEF NewKey, Call, db, history
    <3>5. ASSUME NEW c \in updates, DelOldKey(c) \/ SetNewKey(c) \/ UpdateFails(c)
          PROVE  plan' = plan /\ stale' = stale
      BY <3>5 DEF DelOldKey, SetNewKey, UpdateFails, db, history
    <3>6. ASSUME NEW u \in User, NEW s \in Server, NEW q \in Plan, BuyBillPlan(u, s, q)
          PROVE  plan' = plan /\ stale' = stale
      BY <3>6 DEF BuyBillPlan, history
    <3>7. SetApiprofilesToRedis \/ LoadFind \/ LoadSet \/ Restart => plan' = plan /\ stale' = stale
      BY DEF SetApiprofilesToRedis, LoadFind, LoadSet, Restart, db, history
    <3>8. UNCHANGED vars => plan' = plan /\ stale' = stale
      BY DEF vars, db, history
    <3> QED
      BY <1>2, <3>1, <3>2, <3>3, <3>4, <3>5, <3>6, <3>7, <3>8 DEF Next, Starting
  <2> QED
    BY <2>1, <2>2, <2>3, SameGet DEF RowsInv
<1> QED
  BY <1>1, <1>2

LEMMA NextInForce ==
  ASSUME Typed, InForceInv, [Next]_vars
  PROVE  InForceInv'
<1> SUFFICES ASSUME start'.pc # "users", NEW u \in User, u \notin copying', u \notin stale'.users,
                    NEW s \in Server
             PROVE  Get(store', UserPlanKey(u, s)) = {<<Num(userPlan'[u][s])>>}
  BY DEF InForceInv
<1> DEFINE key == UserPlanKey(u, s)
           served == Get(store, key) = {<<Num(userPlan[u][s])>>}
<1>1. CASE SetAllUserPlans
  <2>1. /\ store' = MSet(UserPlans(User, FALSE)) /\ userPlan' = userPlan
        /\ User \in SUBSET User /\ u \in User
    BY <1>1 DEF SetAllUserPlans, db
  <2>2. Get(store', key) = {<<Num(userPlan[u][s])>>}
    BY <2>1, UserPlansGet
  <2> QED
    BY <2>1, <2>2
<1>2. CASE ~SetAllUserPlans
  <2>1. start.pc # "users"
    BY <1>2, StartSteps
  <2>2. u \notin copying /\ u \notin stale.users => served
    BY <2>1 DEF InForceInv
  <2>3. ASSUME NEW v \in copying, SetUserPlansToRedis(v)
        PROVE  Get(store', key) = {<<Num(userPlan'[u][s])>>}
    <3>1. /\ store' = MSet(UserPlans({v}, TRUE)) /\ userPlan' = userPlan /\ {v} \in SUBSET User
          /\ copying' = copying \ {v} /\ stale' = [stale EXCEPT !.users = @ \ {v}]
      BY <2>3 DEF SetUserPlansToRedis, db, Typed
    <3>2. u # v => u \notin copying /\ u \notin stale.users
      BY <3>1 DEF Typed
    <3>3. CASE u = v
      <4>1. Get(store', key) = {<<Num(userPlan[u][s])>>}
        BY <3>1, <3>3, UserPlansGet
      <4> QED
        BY <3>1, <4>1
    <3>4. CASE u # v
      <4>1. u \notin {v}
        BY <3>4
      <4>2. Get(store', key) = Get(store, key)
        BY <3>1, <4>1, UserPlansGet
      <4> QED
        BY <2>2, <3>1, <3>2, <3>4, <4>2
    <3> QED
      BY <3>3, <3>4
  <2>4. CASE \A v \in copying : ~SetUserPlansToRedis(v)
    <3>1. SameAt(key)
      <4>1. /\ key[1] = Word("userplan")
            /\ Word("userplan") \notin {Word("plan"), Word("apiprofile"),
                                        Word("apikey"), Word("count"), Word("req")}
        BY Words, WordsDiffer
      <4> HIDE DEF key
      <4> QED
        BY <1>2, <2>4, <4>1, NextFrame
    <3>2. userPlan'[u][s] = userPlan[u][s] /\ u \notin copying /\ u \notin stale.users
      <4>1. ASSUME NEW v \in User, NEW t \in Server, NEW q \in Plan, BuyBillPlan(v, t, q)
            PROVE  userPlan'[u][s] = userPlan[u][s] /\ u \notin copying /\ u \notin stale.users
        <5>1. /\ userPlan' = [userPlan EXCEPT ![v][t] = q] /\ copying' = copying \cup {v}
              /\ stale' = stale
          BY <4>1 DEF BuyBillPlan, history
        <5>2. u # v /\ u \notin copying /\ u \notin stale.users
          BY <5>1
        <5>3. userPlan'[u] = userPlan[u]
          BY <5>1, <5>2 DEF Typed
        <5> QED
          BY <5>2, <5>3
      <4>2. ASSUME NEW v \in copying, CopyFails(v)
            PROVE  userPlan' = userPlan /\ u \notin copying /\ u \notin stale.users
        <5>1. /\ userPlan' = userPlan /\ copying' = copying \ {v}
              /\ stale' = [stale EXCEPT !.users = @ \cup {v}]
          BY <4>2 DEF CopyFails, db
        <5>2. u # v /\ u \notin stale.users
          BY <5>1 DEF Typed
        <5> QED
          BY <5>1, <5>2
      <4>3. ASSUME NEW q \in Plan, EditPlan(q)
            PROVE  userPlan' = userPlan /\ copying' = copying /\ stale'.users = stale.users
        BY <4>3 DEF EditPlan, Typed
      <4>4. ASSUME NEW a \in App, NewKey(a) \/ \E c \in CostType : Call(a, c)
            PROVE  UNCHANGED <<userPlan, copying, stale>>
        BY <4>4 DEF NewKey, Call, db, history
      <4>5. ASSUME NEW c \in updates, DelOldKey(c) \/ SetNewKey(c) \/ UpdateFails(c)
            PROVE  UNCHANGED <<userPlan, copying, stale>>
        BY <4>5 DEF DelOldKey, SetNewKey, UpdateFails, db, history
      <4>6. SetPlansToRedis => UNCHANGED <<userPlan, copying>> /\ stale'.users = stale.users
        BY DEF SetPlansToRedis, db, Typed
      <4>7. SetApiprofilesToRedis \/ LoadFind \/ LoadSet => UNCHANGED <<userPlan, copying, stale>>
        BY DEF SetApiprofilesToRedis, LoadFind, LoadSet, db, history
      <4>8. ~Restart
        BY DEF Restart, At
      <4>9. UNCHANGED vars => UNCHANGED <<userPlan, copying, stale>>
        BY DEF vars, db, history
      <4> QED
        BY <1>2, <2>4, <4>1, <4>2, <4>3, <4>4, <4>5, <4>6, <4>7, <4>8, <4>9 DEF Next, Starting
    <3> QED
      BY <2>2, <3>1, <3>2, SameGet
  <2> QED
    BY <2>3, <2>4
<1> QED
  BY <1>1, <1>2

LEMMA NextBought ==
  ASSUME Typed, BoughtInv, [Next]_vars
  PROVE  BoughtInv'
<1> SUFFICES ASSUME NEW u \in User, NEW s \in Server
             PROVE  plan'[userPlan'[u][s]] > 0
  BY DEF BoughtInv
<1>1. plan[userPlan[u][s]] > 0 /\ userPlan[u][s] \in Plan
  BY DEF BoughtInv, Typed
<1>2. ASSUME NEW p \in Plan, EditPlan(p) PROVE plan'[userPlan'[u][s]] > 0
  <2>1. plan' = [plan EXCEPT ![p] = @ + 1] /\ userPlan' = userPlan
    BY <1>2 DEF EditPlan
  <2> QED
    BY <1>1, <2>1 DEF Typed
<1>3. ASSUME NEW v \in User, NEW t \in Server, NEW p \in Plan, BuyBillPlan(v, t, p)
      PROVE  plan'[userPlan'[u][s]] > 0
  <2>1. userPlan' = [userPlan EXCEPT ![v][t] = p] /\ plan' = plan /\ plan[p] > 0
    BY <1>3 DEF BuyBillPlan
  <2>2. userPlan'[u][s] = userPlan[u][s] \/ userPlan'[u][s] = p
    BY <2>1 DEF Typed
  <2> QED
    BY <1>1, <2>1, <2>2
<1>4. ASSUME [Next]_vars, \A p \in Plan : ~EditPlan(p),
             \A v \in User, t \in Server, p \in Plan : ~BuyBillPlan(v, t, p)
      PROVE  UNCHANGED <<plan, userPlan>>
  <2>1. ASSUME NEW a \in App, NewKey(a) \/ \E c \in CostType : Call(a, c)
        PROVE  UNCHANGED <<plan, userPlan>>
    BY <2>1 DEF NewKey, Call, db
  <2>2. ASSUME NEW c \in updates, DelOldKey(c) \/ SetNewKey(c) \/ UpdateFails(c)
        PROVE  UNCHANGED <<plan, userPlan>>
    BY <2>2 DEF DelOldKey, SetNewKey, UpdateFails, db
  <2>3. ASSUME NEW v \in copying, SetUserPlansToRedis(v) \/ CopyFails(v)
        PROVE  UNCHANGED <<plan, userPlan>>
    BY <2>3 DEF SetUserPlansToRedis, CopyFails, db
  <2>4. Starting \/ Restart => UNCHANGED <<plan, userPlan>>
    BY DEF Starting, SetAllUserPlans, SetPlansToRedis, SetApiprofilesToRedis, LoadFind, LoadSet,
           Restart, db
  <2>5. UNCHANGED vars => UNCHANGED <<plan, userPlan>>
    BY DEF vars, db
  <2> QED
    BY <1>4, <2>1, <2>2, <2>3, <2>4, <2>5 DEF Next
<1> QED
  BY <1>1, <1>2, <1>3, <1>4

(* redis_plan.go:13-15, redis.go:350-403: once the start is done, the limits of a call
   are those of the plan in force, but while a purchase is being copied, after a copy
   has failed, and for a plan edited since. *)
THEOREM PlansAreServed == Spec => []PlanServed
<1> DEFINE IInv == Typed /\ UpdatesInv /\ PlansInv
<1>1. Init => IInv
  BY InitTyped, InitPlans
<1>2. IInv /\ [Next]_vars => IInv'
  BY NextTyped, NextProfiles, NextRows, NextInForce, NextBought DEF PlansInv
<1>3. ASSUME Typed, PlansInv, start.pc = "done", NEW u \in User \ (copying \cup stale.users),
             NEW c \in CostType, userPlan[u][ServerOf[c]] \notin stale.plans
      PROVE  GetUserCostPlan(store, u, c) =
               {<<userPlan[u][ServerOf[c]], plan[userPlan[u][ServerOf[c]]]>>}
  <2> DEFINE s == ServerOf[c]
             p == userPlan[u][s]
  <2>1. s \in Server /\ u \in User /\ p \in Plan
    <3>1. s \in Server /\ u \in User
      BY DEF Server
    <3> HIDE DEF s
    <3> QED
      BY <1>3, <3>1 DEF Typed
  <2>2. Get(store, ApiProfilesKey(c)) = {<<Json(s)>>}
    BY <1>3 DEF PlansInv, ProfilesInv
  <2>3. Get(store, UserPlanKey(u, s)) = {<<Num(p)>>}
    BY <1>3, <2>1 DEF PlansInv, InForceInv
  <2>4. Get(store, PlanKey(p)) = {<<Json(<<p, plan[p]>>)>>}
    BY <1>3, <2>1 DEF PlansInv, RowsInv, BoughtInv
  <2> HIDE DEF s, p
  <2>5. GetUserPlan(store, u, s) = {<<p, plan[p]>>}
    <3>1. <<Num(p)>>[1][2] = p /\ <<Json(<<p, plan[p]>>)>>[1][2] = <<p, plan[p]>>
      BY DEF Num, Json
    <3>2. UNION {Get(store, PlanKey(id[1][2])) : id \in {<<Num(p)>>}} = {<<Json(<<p, plan[p]>>)>>}
      BY <2>4, <3>1
    <3> QED
      BY <2>3, <3>1, <3>2 DEF GetUserPlan
  <2>6. GetUserCostPlan(store, u, c) = {<<p, plan[p]>>}
    <3>1. <<Json(s)>>[1][2] = s
      BY DEF Json
    <3> QED
      BY <2>2, <2>5, <3>1 DEF GetUserCostPlan
  <2> QED
    BY <2>6 DEF s, p
<1>4. IInv => PlanServed
  BY <1>3 DEF PlanServed
<1> QED
  BY <1>1, <1>2, <1>4, PTL DEF Spec
-----------------------------------------------------------------------------
(* What SCAN finds, and what is read in what it finds. *)
LEMMA MatchCount ==
  ASSUME NEW k, Matches(k)
  PROVE  k[1] = Word("count")
BY DEF Matches, IsPrefix, CountPrefix

LEMMA CountMatches ==
  \A u, c : Matches(UserCountKey(u, c)) /\ ~Matches(UserPendingCountKey(u, c))
<1>1. \A u, c : Matches(UserCountKey(u, c))
  BY DEF Matches, IsPrefix, CountPrefix, UserCountKey, Is, Num, Name, Word
<1>2. \A u, c : ~Matches(UserPendingCountKey(u, c))
  BY DEF Matches, IsPrefix, CountPrefix, UserPendingCountKey, Is, Num, Name, Word
<1> QED
  BY <1>1, <1>2

LEMMA CountParsed ==
  \A u, c : ParseCountKey(UserCountKey(u, c)) = {<<u, c>>}
BY DEF UserCountKey, CountPrefix, Num, Name, Word, ParseCountKey, parseCountKeyByPrefix, IsPrefix,
       Parsed, Is

LEMMA RequestParsed ==
  \A u, a, c, n : ParseRequestValue(RequestValue(u, a, c, n)) = {<<u, a, c, n>>}
BY DEF ParseRequestValue, RequestValue, Num, Name, Parsed, Is

LEMMA CountOnce ==
  ASSUME NEW u, NEW c, NEW v, NEW d, UserCountKey(u, c) = UserCountKey(v, d)
  PROVE  u = v /\ c = d
BY DEF UserCountKey, CountPrefix, Num, Name, Word

LEMMA CountKeysDiffer ==
  \A u, c, v, d : UserCountKey(u, c) # UserPendingCountKey(v, d)
BY DEF UserCountKey, UserPendingCountKey, CountPrefix, Num, Name, Word

LEMMA RequestOnce ==
  ASSUME NEW r, NEW q, RequestKey(r) = RequestKey(q)
  PROVE  r = q
BY DEF RequestKey, Hash, Word

(* The counts in redis are of calls, and every call is counted and noted. *)
OnlyCounts ==
  \A k \in DOMAIN store : Matches(k) =>
    \E u \in User, c \in CostType : k = UserCountKey(u, c) /\ called[u][c] > 0

Counted ==
  \A u \in User, c \in CostType : called[u][c] > 0 =>
    /\ Get(store, UserCountKey(u, c)) = {<<Num(called[u][c])>>}
    /\ \E a \in App : OwnerOf[a] = u /\
         Get(store, RequestKey(<<u, c>>)) = {RequestValue(u, a, c, called[u][c])}

(* What a call writes. *)
LEMMA CallWrites ==
  ASSUME Typed, NEW a \in App, NEW c \in CostType, Call(a, c)
  PROVE  LET u == OwnerOf[a]
             n == called[u][c] + 1
         IN /\ called' = [called EXCEPT ![u][c] = n] /\ n \in Nat \ {0}
            /\ Get(store', UserCountKey(u, c)) = {<<Num(n)>>}
            /\ Get(store', RequestKey(<<u, c>>)) = {RequestValue(u, a, c, n)}
<1> DEFINE u == OwnerOf[a]
           n == called[u][c] + 1
           ck == UserCountKey(u, c)
           pk == UserPendingCountKey(u, c)
           rk == RequestKey(<<u, c>>)
           val == RequestValue(u, a, c, n)
           counts == [j \in {ck, pk} |-> <<Num(n)>>]
           req == [j \in {rk} |-> val]
           all == Over(counts, req)
<1>1. store' = MSet(all) /\ called' = [called EXCEPT ![u][c] = n]
  BY DEF Call
<1>2. u \in User /\ n \in Nat \ {0}
  BY CopiesAssumption DEF Typed
<1>3. rk \notin {ck, pk}
  <2>1. rk[1] = Word("req") /\ ck[1] = Word("count") /\ pk[1] = Word("count")
    BY Words
  <2>2. Word("req") # Word("count")
    BY WordsDiffer
  <2> HIDE DEF rk, ck, pk
  <2> QED
    BY <2>1, <2>2
<1> HIDE DEF ck, pk, rk, val, n, u
<1>4. ck \in DOMAIN all /\ all[ck] = <<Num(n)>>
  BY DEF Over
<1>5. rk \in DOMAIN all /\ all[rk] = val
  BY <1>3 DEF Over
<1> HIDE DEF all
<1>6. Get(store', ck) = {<<Num(n)>>} /\ Get(store', rk) = {val}
  BY <1>1, <1>4, <1>5, SetGet
<1> QED
  BY <1>1, <1>2, <1>6 DEF ck, rk, val, n, u

LEMMA NoCall ==
  ASSUME [Next]_vars, \A a \in App, c \in CostType : ~Call(a, c)
  PROVE  /\ called' = called
         /\ \A k : k[1] \in {Word("count"), Word("req")} => SameAt(k)
<1>1. called' = called
  <2>1. ASSUME NEW a \in App, NewKey(a) PROVE called' = called
    BY <2>1 DEF NewKey
  <2>2. ASSUME NEW c \in updates, DelOldKey(c) \/ SetNewKey(c) \/ UpdateFails(c)
        PROVE  called' = called
    BY <2>2 DEF DelOldKey, SetNewKey, UpdateFails
  <2>3. ASSUME NEW p \in Plan, EditPlan(p) \/ \E u \in User, s \in Server : BuyBillPlan(u, s, p)
        PROVE  called' = called
    BY <2>3 DEF EditPlan, BuyBillPlan
  <2>4. ASSUME NEW u \in copying, SetUserPlansToRedis(u) \/ CopyFails(u)
        PROVE  called' = called
    BY <2>4 DEF SetUserPlansToRedis, CopyFails
  <2>5. Starting \/ Restart => called' = called
    BY DEF Starting, SetAllUserPlans, SetPlansToRedis, SetApiprofilesToRedis, LoadFind, LoadSet,
           Restart
  <2>6. UNCHANGED vars => called' = called
    BY DEF vars
  <2> QED
    BY <2>1, <2>2, <2>3, <2>4, <2>5, <2>6 DEF Next
<1>2. ASSUME NEW k, k[1] \in {Word("count"), Word("req")} PROVE SameAt(k)
  <2>1. k[1] \notin {Word("userplan"), Word("user"), Word("plan"), Word("apiprofile"),
                     Word("apikey")}
    BY <1>2, WordsDiffer
  <2> QED
    BY <2>1, NextFrame
<1> QED
  BY <1>1, <1>2

LEMMA NextCounts ==
  ASSUME Typed, OnlyCounts, Counted, [Next]_vars
  PROVE  OnlyCounts' /\ Counted'
<1>1. CASE \A a \in App, c \in CostType : ~Call(a, c)
  <2>1. called' = called
    BY <1>1, NoCall
  <2>2. ASSUME NEW k \in DOMAIN store', Matches(k)
        PROVE  \E u \in User, c \in CostType : k = UserCountKey(u, c) /\ called'[u][c] > 0
    <3>1. SameAt(k)
      BY <1>1, <2>2, MatchCount, NoCall
    <3>2. k \in DOMAIN store
      BY <3>1 DEF SameAt
    <3> QED
      BY <2>1, <2>2, <3>2 DEF OnlyCounts
  <2>3. ASSUME NEW u \in User, NEW c \in CostType
        PROVE  /\ Get(store', UserCountKey(u, c)) = Get(store, UserCountKey(u, c))
               /\ Get(store', RequestKey(<<u, c>>)) = Get(store, RequestKey(<<u, c>>))
    <3>1. UserCountKey(u, c)[1] = Word("count") /\ RequestKey(<<u, c>>)[1] = Word("req")
      BY Words
    <3>2. SameAt(UserCountKey(u, c)) /\ SameAt(RequestKey(<<u, c>>))
      BY <1>1, <3>1, NoCall
    <3> QED
      BY <3>2, SameGet
  <2>4. OnlyCounts'
    BY <2>2 DEF OnlyCounts
  <2>5. Counted'
    BY <2>1, <2>3 DEF Counted
  <2> QED
    BY <2>4, <2>5
<1>2. ASSUME NEW a \in App, NEW c \in CostType, Call(a, c)
      PROVE  OnlyCounts' /\ Counted'
  <2> DEFINE u == OwnerOf[a]
             n == called[u][c] + 1
  <2>1. /\ called' = [called EXCEPT ![u][c] = n] /\ n \in Nat \ {0}
        /\ Get(store', UserCountKey(u, c)) = {<<Num(n)>>}
        /\ Get(store', RequestKey(<<u, c>>)) = {RequestValue(u, a, c, n)}
    BY <1>2, CallWrites
  <2>2. u \in User
    BY CopiesAssumption
  <2>3. ASSUME NEW k, k # UserCountKey(u, c), k # UserPendingCountKey(u, c),
               k # RequestKey(<<u, c>>)
        PROVE  SameAt(k)
    BY <1>2, <2>3, CallFrame
  <2> HIDE DEF u, n
  <2>4. called'[u][c] = n /\ \A v \in User, d \in CostType :
          <<v, d>> # <<u, c>> => called'[v][d] = called[v][d]
    BY <2>1, <2>2 DEF Typed
  <2>5. ASSUME NEW k \in DOMAIN store', Matches(k)
        PROVE  \E v \in User, d \in CostType : k = UserCountKey(v, d) /\ called'[v][d] > 0
    <3>1. CASE k = UserCountKey(u, c)
      BY <2>1, <2>2, <2>4, <3>1
    <3>2. CASE k # UserCountKey(u, c)
      <4>1. k # UserPendingCountKey(u, c)
        BY <2>5, CountMatches
      <4>2. k # RequestKey(<<u, c>>)
        <5>1. k[1] = Word("count") /\ RequestKey(<<u, c>>)[1] = Word("req")
          BY <2>5, MatchCount, Words
        <5> QED
          BY <5>1, WordsDiffer
      <4>3. k \in DOMAIN store
        BY <2>3, <3>2, <4>1, <4>2 DEF SameAt
      <4>4. PICK v \in User, d \in CostType : k = UserCountKey(v, d) /\ called[v][d] > 0
        BY <2>5, <4>3 DEF OnlyCounts
      <4>5. called'[v][d] = called[v][d]
        BY <2>4, <3>2, <4>4
      <4> QED
        BY <4>4, <4>5
    <3> QED
      BY <3>1, <3>2
  <2>6. ASSUME NEW v \in User, NEW d \in CostType, called'[v][d] > 0
        PROVE  /\ Get(store', UserCountKey(v, d)) = {<<Num(called'[v][d])>>}
               /\ \E b \in App : OwnerOf[b] = v /\
                    Get(store', RequestKey(<<v, d>>)) = {RequestValue(v, b, d, called'[v][d])}
    <3>1. CASE <<v, d>> = <<u, c>>
      <4>1. v = u /\ d = c /\ OwnerOf[a] = u
        BY <3>1 DEF u
      <4> QED
        BY <2>1, <2>4, <4>1
    <3>2. CASE <<v, d>> # <<u, c>>
      <4>1. SameAt(UserCountKey(v, d))
        <5>1. UserCountKey(v, d) # UserCountKey(u, c)
          BY <3>2, CountOnce
        <5>2. UserCountKey(v, d) # UserPendingCountKey(u, c)
          BY CountKeysDiffer
        <5>3. UserCountKey(v, d) # RequestKey(<<u, c>>)
          <6>1. UserCountKey(v, d)[1] = Word("count") /\ RequestKey(<<u, c>>)[1] = Word("req")
            BY Words
          <6> QED
            BY <6>1, WordsDiffer
        <5> QED
          BY <2>3, <5>1, <5>2, <5>3
      <4>2. SameAt(RequestKey(<<v, d>>))
        <5>1. RequestKey(<<v, d>>) # RequestKey(<<u, c>>)
          BY <3>2, RequestOnce
        <5>2. /\ RequestKey(<<v, d>>) # UserCountKey(u, c)
              /\ RequestKey(<<v, d>>) # UserPendingCountKey(u, c)
          <6>1. /\ UserCountKey(u, c)[1] = Word("count")
                /\ UserPendingCountKey(u, c)[1] = Word("count")
                /\ RequestKey(<<v, d>>)[1] = Word("req")
            BY Words
          <6> QED
            BY <6>1, WordsDiffer
        <5> QED
          BY <2>3, <5>1, <5>2
      <4>3. /\ Get(store', UserCountKey(v, d)) = Get(store, UserCountKey(v, d))
            /\ Get(store', RequestKey(<<v, d>>)) = Get(store, RequestKey(<<v, d>>))
        BY <4>1, <4>2, SameGet
      <4>4. called'[v][d] = called[v][d]
        BY <2>4, <3>2
      <4> QED
        BY <2>6, <4>3, <4>4 DEF Counted
    <3> QED
      BY <3>1, <3>2
  <2>7. OnlyCounts'
    BY <2>5 DEF OnlyCounts
  <2>8. Counted'
    BY <2>6 DEF Counted
  <2> QED
    BY <2>7, <2>8
<1> QED
  BY <1>1, <1>2

(* redis.go:282-321, 141-207: the settle loop finds the counts of users and nothing
   else, and reads in their keys and in the last requests whose calls they are. *)
THEOREM CountsStayCalls == Spec => []CountsAreCalls
<1> DEFINE IInv == Typed /\ UpdatesInv /\ OnlyCounts /\ Counted
<1>1. Init => IInv
  <2>1. Init => OnlyCounts /\ Counted
    BY DEF Init, OnlyCounts, Counted
  <2> QED
    BY <2>1, InitTyped
<1>2. IInv /\ [Next]_vars => IInv'
  BY NextTyped, NextCounts
<1>3. ASSUME IInv PROVE CountsAreCalls
  <2> DEFINE made == {x \in User \X CostType : called[x[1]][x[2]] > 0}
             key(x) == UserCountKey(x[1], x[2])
             n(x) == called[x[1]][x[2]]
             found == GetUserCounts(store)
  <2>1. ASSUME NEW x \in made
        PROVE  /\ key(x) \in found /\ store[key(x)] = <<Num(n(x))>>
               /\ ParseCountKey(key(x)) = {x}
               /\ \E a \in App : OwnerOf[a] = x[1] /\
                    GetRequest(store, x) = {<<x[1], a, x[2], n(x)>>}
    <3>1. x[1] \in User /\ x[2] \in CostType /\ x = <<x[1], x[2]>> /\ n(x) > 0
      OBVIOUS
    <3>2. PICK a \in App : /\ OwnerOf[a] = x[1]
                           /\ Get(store, RequestKey(x)) = {RequestValue(x[1], a, x[2], n(x))}
      BY <1>3, <3>1 DEF Counted
    <3>3. Get(store, key(x)) = {<<Num(n(x))>>}
      BY <1>3, <3>1 DEF Counted
    <3>4. key(x) \in DOMAIN store /\ store[key(x)] = <<Num(n(x))>>
      BY <3>3 DEF Get
    <3>5. Matches(key(x)) /\ ParseCountKey(key(x)) = {x}
      BY <3>1, CountMatches, CountParsed
    <3>6. key(x) \in found
      BY <3>1, <3>4, <3>5 DEF GetUserCounts, Num
    <3>7. GetRequest(store, x) = {<<x[1], a, x[2], n(x)>>}
      BY <3>2, RequestParsed DEF GetRequest
    <3> QED
      BY <3>2, <3>4, <3>5, <3>6, <3>7
  <2>2. ASSUME NEW k \in found PROVE \E x \in made : k = key(x)
    <3>1. PICK u \in User, c \in CostType : k = UserCountKey(u, c) /\ called[u][c] > 0
      BY <1>3, <2>2 DEF GetUserCounts, OnlyCounts
    <3>2. <<u, c>> \in made /\ k = key(<<u, c>>)
      BY <3>1
    <3> QED
      BY <3>2
  <2> DEFINE read == {<<ParseCountKey(k), store[k]>> : k \in found}
             true == {<<{x}, <<Num(n(x))>>>> : x \in made}
  <2> HIDE DEF made, key, n, found
  <2>3. read = true
    <3>1. ASSUME NEW e \in read PROVE e \in true
      <4>1. PICK k \in found : e = <<ParseCountKey(k), store[k]>>
        BY <3>1
      <4>2. PICK x \in made : k = key(x)
        BY <2>2, <4>1
      <4>3. e = <<{x}, <<Num(n(x))>>>>
        BY <2>1, <4>1, <4>2
      <4> QED
        BY <4>3
    <3>2. ASSUME NEW e \in true PROVE e \in read
      <4>1. PICK x \in made : e = <<{x}, <<Num(n(x))>>>>
        BY <3>2
      <4>2. e = <<ParseCountKey(key(x)), store[key(x)]>> /\ key(x) \in found
        BY <2>1, <4>1
      <4> QED
        BY <4>2
    <3> HIDE DEF read, true
    <3> QED
      BY <3>1, <3>2
  <2> QED
    BY <2>1, <2>3 DEF CountsAreCalls, made, n, found
<1> QED
  BY <1>1, <1>2, <1>3, PTL DEF Spec
=============================================================================
