----------------------------- MODULE RedisCopies -----------------------------
(***************************************************************************)
(* services/apikey.go, redis_plan.go, redis_apiprofiles.go: what the       *)
(* gateway reads in redis of API keys, plans and API profiles.  The start  *)
(* of the server copies all of them, in steps, while calls are served      *)
(* already (main.go:34); later a call copies a new API key or the plan of  *)
(* a user who has bought one, but never a plan that was added or           *)
(* changed.  Nothing deletes a key but the call that replaces an API key.  *)
(*                                                                         *)
(* API keys of an application are numbered in the order they are given.    *)
(* A copy of plans is one step here: BillPlan is about its halves.         *)
(***************************************************************************)
EXTENDS RedisKeys, FiniteSets

CONSTANTS
  User, App, CostType, Plan,
  OwnerOf,   \* the user of an application
  ServerOf,  \* the server of a cost type, in its profile
  PlanOf,    \* the plans of a server
  FirstPlan, \* the default plan of each server
  MaxRow,    \* bound on the edits of each plan
  MaxKeys, MaxCalls, MaxFaults  \* bounds

Server == {ServerOf[c] : c \in CostType}

ASSUME CopiesAssumption ==
  /\ User \cup App \cup CostType \cup Plan \subseteq Nat
  /\ OwnerOf \in [App -> User]
  /\ PlanOf \in [Server -> SUBSET Plan]
  /\ FirstPlan \in [Server -> Plan] /\ \A s \in Server : FirstPlan[s] \in PlanOf[s]
  /\ MaxRow \in [Plan -> Nat]
  /\ {MaxKeys, MaxCalls, MaxFaults} \subseteq Nat

VARIABLES
  store,    \* redis
  apiKey,   \* applications.api_key, which the other program keeps
  updates,  \* calls of ApikeyUpdated that have not returned
  plan,     \* rows of bill_plans, by the number of edits (0: no row yet)
  userPlan, \* the plan of a user that is in force
  copying,  \* users whose SetUserPlansToRedis is to come
  start,    \* how far the start of the server has come, and the API keys read
  called,   \* calls counted by the gateway
  faults,
  undone,   \* history: applications with a call given up, since the last load
  revoked,  \* history: applications whose old key was set, or was not deleted
  stale     \* history: plans edited, and users whose copy failed, since the last start

db == <<apiKey, plan, userPlan>>
history == <<undone, revoked, stale>>
vars == <<store, db, updates, copying, start, called, faults, history>>

At(pc) == [pc |-> pc, found |-> {}]
Fresh == [plans |-> {}, users |-> {}]

Init ==
  /\ store = << >>
  /\ apiKey = [a \in App |-> 0] /\ updates = {}
  /\ plan = [p \in Plan |-> IF \E s \in Server : FirstPlan[s] = p THEN 1 ELSE 0]
  /\ userPlan = [u \in User |-> FirstPlan]
  /\ copying = {}
  /\ start = At("users")
  /\ called = [u \in User |-> [c \in CostType |-> 0]]
  /\ faults = 0
  /\ undone = {} /\ revoked = {} /\ stale = Fresh

Without(key) == [k \in DOMAIN store \ {key} |-> store[k]]
(* What kvs has, and of old what it does not have. *)
Over(kvs, old) ==
  [k \in DOMAIN kvs \cup DOMAIN old |-> IF k \in DOMAIN kvs THEN kvs[k] ELSE old[k]]
MSet(kvs) == Over(kvs, store)
Fault == faults < MaxFaults /\ faults' = faults + 1
-----------------------------------------------------------------------------
Pair(a, n) == [key |-> <<a, n>>, app |-> a]
Current(a) == Pair(a, apiKey[a])
Value(pair) == ApikeyValue(OwnerOf[pair.app], pair.app)
Keys(pairs) == [k \in {ApikeyKey(p.key) : p \in pairs} |->
                  Value(CHOOSE p \in pairs : ApikeyKey(p.key) = k)]

Known(a, n) == GetUserInfoByApikey(store, <<a, n>>) # {}

(* For the history: will a call still delete the key? *)
Doomed(a, n) == \E c \in updates : c.app = a /\ c.old = n /\ c.pc = "sent"
Revoked(pairs) == {p.app : p \in {q \in pairs : q # Current(q.app) /\ ~Doomed(q.app, q.key[2])}}

(* The other program; calls of several updates may overtake each other. *)
NewKey(a) ==
  /\ apiKey[a] < MaxKeys
  /\ apiKey' = [apiKey EXCEPT ![a] = @ + 1]
  /\ updates' = updates \cup
       {[app |-> a, old |-> apiKey[a], new |-> apiKey[a] + 1, pc |-> "sent"]}
  /\ UNCHANGED <<store, plan, userPlan, copying, start, called, faults, history>>

(* Faulty variant: the new key is deleted. *)
OldPairNew(c) == Pair(c.app, c.new)
OldPair(c) == Pair(c.app, c.old)

(* RefreshApikeyToRedis *)
DelOldKey(c) ==
  /\ c.pc = "sent"
  /\ store' = Without(ApikeyKey(OldPair(c).key))
  /\ updates' = (updates \ {c}) \cup {[c EXCEPT !.pc = "deleted"]}
  /\ UNCHANGED <<db, copying, start, called, faults, history>>

SetNewKey(c) ==
  /\ c.pc = "deleted"
  /\ store' = MSet(Keys({Pair(c.app, c.new)}))
  /\ updates' = updates \ {c}
  /\ revoked' = revoked \cup Revoked({Pair(c.app, c.new)})
  /\ UNCHANGED <<db, copying, start, called, faults, undone, stale>>

GivenUp(calls) ==
  /\ undone' = undone \cup {c.app : c \in calls}
  /\ revoked' = revoked \cup {c.app : c \in {d \in calls : d.pc = "sent"}}

(* An error returns; the other program may call again. *)
UpdateFails(c) ==
  /\ Fault
  /\ \/ updates' = (updates \ {c}) \cup {[c EXCEPT !.pc = "sent"]}
        /\ UNCHANGED <<undone, revoked>>
     \/ updates' = updates \ {c} /\ GivenUp({c})
  /\ UNCHANGED <<store, db, copying, start, called, stale>>
-----------------------------------------------------------------------------
(* Another program adds a plan, or changes one. *)
EditPlan(p) ==
  /\ plan[p] < MaxRow[p]
  /\ plan' = [plan EXCEPT ![p] = @ + 1]
  /\ stale' = [stale EXCEPT !.plans = @ \cup {p}]
  /\ UNCHANGED <<store, apiKey, userPlan, updates, copying, start, called, faults, undone, revoked>>

(* BuyBillPlan commits; the copy follows. *)
BuyBillPlan(u, s, p) ==
  /\ p \in PlanOf[s] /\ plan[p] > 0 /\ userPlan[u][s] # p
  /\ userPlan' = [userPlan EXCEPT ![u][s] = p]
  /\ copying' = copying \cup {u}
  /\ UNCHANGED <<store, apiKey, plan, updates, start, called, faults, history>>

(* Every server type of the users, with the mark for the plugin when it is asked for. *)
PlanEntries(us, mark) ==
  {<<UserPlanKey(u, s), u, s>> : u \in us, s \in Server} \cup
  IF mark THEN {<<UserPlanUpdatedForQpsPluginKey(u, s), u, s>> : u \in us, s \in Server} ELSE {}
UserPlans(us, mark) ==
  [k \in {x[1] : x \in PlanEntries(us, mark)} |->
     LET x == CHOOSE y \in PlanEntries(us, mark) : y[1] = k IN <<Num(userPlan[x[2]][x[3]])>>]

SetUserPlansToRedis(u) ==
  /\ u \in copying
  /\ store' = MSet(UserPlans({u}, TRUE))
  /\ copying' = copying \ {u}
  /\ stale' = [stale EXCEPT !.users = @ \ {u}]
  /\ UNCHANGED <<db, updates, start, called, faults, undone, revoked>>

(* The error is logged only (balance.go:81). *)
CopyFails(u) ==
  /\ u \in copying /\ Fault
  /\ copying' = copying \ {u}
  /\ stale' = [stale EXCEPT !.users = @ \cup {u}]
  /\ UNCHANGED <<store, db, updates, start, called, undone, revoked>>
-----------------------------------------------------------------------------
(* Run: SetPlanToRedis copies the users' plans, *)
SetAllUserPlans ==
  /\ start.pc = "users"
  /\ store' = MSet(UserPlans(User, FALSE))
  /\ start' = At("plans")
  /\ stale' = [stale EXCEPT !.users = {}]
  /\ UNCHANGED <<db, updates, copying, called, faults, undone, revoked>>

(* Faulty variant: a plan that is in redis already is left as it is. *)
OnlyNewPlans(kvs) == Over(store, kvs)
WithPlans(kvs) == MSet(kvs)

GetAllPlansMap ==
  [k \in {PlanKey(p) : p \in {x \in Plan : plan[x] > 0}} |->
     LET p == k[2][2] IN <<Json(<<p, plan[p]>>)>>]

(* then the plans themselves. *)
SetPlansToRedis ==
  /\ start.pc = "plans"
  /\ store' = WithPlans(GetAllPlansMap)
  /\ start' = At("profiles")
  /\ stale' = [stale EXCEPT !.plans = {}]
  /\ UNCHANGED <<db, updates, copying, called, faults, undone, revoked>>

GetApiProfiles == [k \in {ApiProfilesKey(c) : c \in CostType} |-> <<Json(ServerOf[k[2][2]])>>]
SetApiprofilesToRedis ==
  /\ start.pc = "profiles"
  /\ store' = MSet(GetApiProfiles)
  /\ start' = At("load")
  /\ UNCHANGED <<db, updates, copying, called, faults, history>>

(* LoadAllApikeys: the SELECT, then the MSET. *)
LoadFind ==
  /\ start.pc = "load"
  /\ start' = [pc |-> "found", found |-> {Current(a) : a \in App}]
  /\ UNCHANGED <<store, db, updates, copying, called, faults, history>>

WithFound(pairs) == MSet(Keys(pairs))

LoadSet ==
  /\ start.pc = "found"
  /\ store' = WithFound(start.found)
  /\ start' = At("done")
  /\ undone' = {a \in undone : Current(a) \notin start.found}
  /\ revoked' = revoked \cup Revoked(start.found)
  /\ UNCHANGED <<db, updates, copying, called, faults, stale>>

(* The server is stopped, or its start panics, and it is started anew. *)
Restart ==
  /\ Fault
  /\ GivenUp(updates)
  /\ updates' = {} /\ copying' = {} /\ start' = At("users")
  /\ UNCHANGED <<store, db, called, stale>>

(* The gateway, which knows the key of an application, notes the request and counts
   it, as pending and as made. *)
Call(a, c) ==
  LET u == OwnerOf[a]
      n == called[u][c] + 1
  IN /\ n <= MaxCalls /\ Known(a, apiKey[a])
     /\ called' = [called EXCEPT ![u][c] = n]
     /\ store' = MSet(Over([k \in {UserCountKey(u, c), UserPendingCountKey(u, c)} |-> <<Num(n)>>],
                           [k \in {RequestKey(<<u, c>>)} |-> RequestValue(u, a, c, n)]))
     /\ UNCHANGED <<db, updates, copying, start, faults, history>>

Starting == SetAllUserPlans \/ SetPlansToRedis \/ SetApiprofilesToRedis \/ LoadFind \/ LoadSet
Next ==
  \/ \E a \in App : NewKey(a) \/ \E c \in CostType : Call(a, c)
  \/ \E c \in updates : DelOldKey(c) \/ SetNewKey(c) \/ UpdateFails(c)
  \/ \E p \in Plan : EditPlan(p) \/ \E u \in User, s \in Server : BuyBillPlan(u, s, p)
  \/ \E u \in copying : SetUserPlansToRedis(u) \/ CopyFails(u)
  \/ Starting \/ Restart

Spec == Init /\ [][Next]_vars
-----------------------------------------------------------------------------
Quiet(a) == start = At("done") /\ \A c \in updates : c.app # a

(* apikey.go:11-53: when the calls for an application have returned and the load is
   done, the gateway finds user and application by its key, in whatever order the
   calls came, however often they were made, and whatever the load has read; unless a
   call was given up and the server was not started since.  It knows no older key
   (apikey.go:40), unless a call was given up before its deletion, or an older key was
   set after it: by a call that another has overtaken, or by a load that had read it. *)
KeysFollow ==
  \A a \in App : Quiet(a) =>
    /\ a \notin undone => GetUserInfoByApikey(store, <<a, apiKey[a]>>) = {<<OwnerOf[a], a>>}
    /\ a \notin revoked => \A n \in 0 .. MaxKeys : Known(a, n) => n = apiKey[a]

(* redis_plan.go:13-15, redis.go:350-403: once the start is done, the limits of a call
   are those of the plan in force, as it is in the database; but while a purchase is
   being copied, after a copy has failed, and for a plan that was added or changed
   since, all until the next start: the buyer of a plan added since has no limits. *)
PlanServed ==
  start.pc = "done" => \A u \in User \ (copying \cup stale.users), c \in CostType :
    LET p == userPlan[u][ServerOf[c]]
    IN p \notin stale.plans => GetUserCostPlan(store, u, c) = {<<p, plan[p]>>}

(* redis.go:282-321, 141-207: of all that is in redis, the settle loop finds the counts
   of users and nothing else, and reads in their keys whose calls they are; the last
   request tells the same user, an application of his and that cost type. *)
CountsAreCalls ==
  LET made == {x \in User \X CostType : called[x[1]][x[2]] > 0}
  IN /\ {<<ParseCountKey(k), store[k]>> : k \in GetUserCounts(store)} =
          {<<{x}, <<Num(called[x[1]][x[2]])>>>> : x \in made}
     /\ \A x \in made : \E a \in App : OwnerOf[a] = x[1] /\
          GetRequest(store, x) = {<<x[1], a, x[2], called[x[1]][x[2]]>>}
=============================================================================
