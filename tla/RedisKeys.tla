------------------------------ MODULE RedisKeys ------------------------------
(***************************************************************************)
(* common/redis/redis.go: the names of the keys, and what is read from     *)
(* them. A key, and a value that is not JSON, is the sequence of its       *)
(* parts between hyphens; a part is a word, a number, the name of a type,  *)
(* or the hash of an API key or request, none of which has a hyphen in     *)
(* it.  What may fail gives a set of one result, or none.                  *)
(***************************************************************************)
EXTENDS Naturals, Sequences, SequencesExt

Word(w) == <<"word", w>>
Num(n) == <<"num", n>>
Name(t) == <<"name", t>>
Hash(x) == <<"hash", x>>
Json(x) == <<"json", x>>
Is(kind, part) == part[1] = kind

CountPrefix == <<Word("count")>>
UserCountKey(u, c) == CountPrefix \o <<Num(u), Name(c)>>
UserPendingCountKey(u, c) == CountPrefix \o <<Word("pending"), Num(u), Name(c)>>
RequestKey(r) == <<Word("req"), Hash(r)>>
RequestValue(u, a, c, n) == <<Num(u), Num(a), Name(c), Num(n)>>
ApikeyKey(k) == <<Word("apikey"), Hash(k)>>
ApikeyValue(u, a) == <<Num(u), Num(a)>>
UserPlanKey(u, s) == <<Word("userplan"), Num(u), Name(s)>>
UserPlanUpdatedForQpsPluginKey(u, s) ==
  <<Word("user"), Word("plan"), Word("updated"), Word("for"), Word("qps"), Word("plugin"),
    Num(u), Name(s)>>
PlanKey(p) == <<Word("plan"), Num(p)>>
ApiProfilesKey(c) == <<Word("apiprofile"), Num(c)>>
-----------------------------------------------------------------------------
(* The values of parts of the given kinds. *)
Parsed(parts, kinds) ==
  IF Len(parts) = Len(kinds) /\ \A i \in DOMAIN kinds : Is(kinds[i], parts[i])
  THEN {[i \in DOMAIN parts |-> parts[i][2]]} ELSE {}

parseCountKeyByPrefix(key, prefix) ==
  IF IsPrefix(prefix, key)
  THEN Parsed(SubSeq(key, Len(prefix) + 1, Len(key)), <<"num", "name">>) ELSE {}
ParseCountKey(key) == parseCountKeyByPrefix(key, CountPrefix)
ParseRequestValue(val) == Parsed(val, <<"num", "num", "name", "num">>)
ParseApikeyValue(val) == Parsed(val, <<"num", "num">>)

(* GET *)
Get(store, key) == IF key \in DOMAIN store THEN {store[key]} ELSE {}

GetUserInfoByApikey(store, k) ==
  UNION {ParseApikeyValue(val) : val \in Get(store, ApikeyKey(k))}
GetRequest(store, r) == UNION {ParseRequestValue(val) : val \in Get(store, RequestKey(r))}

(* The plan's number, then the plan: two GETs. *)
GetUserPlan(store, u, s) ==
  {val[1][2] : val \in UNION {Get(store, PlanKey(id[1][2])) : id \in Get(store, UserPlanKey(u, s))}}

(* GetUserCostQps looks up the server of the cost type, and its plan. *)
GetUserCostPlan(store, u, c) ==
  UNION {GetUserPlan(store, u, val[1][2]) : val \in Get(store, ApiProfilesKey(c))}

(* Faulty variant: every key with the prefix. *)
MatchesPrefix(key) == IsPrefix(CountPrefix, key) /\ Len(key) > 2
(* SCAN count-[0-9]*-* *)
Matches(key) == IsPrefix(CountPrefix, key) /\ Len(key) > 2 /\ Is("num", key[2])
GetUserCounts(store) == {key \in DOMAIN store : Matches(key) /\ store[key][1][2] > 0}
=============================================================================
