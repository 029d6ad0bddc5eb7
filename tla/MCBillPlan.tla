----------------------------- MODULE MCBillPlan -----------------------------
(* Plans and a short calendar for TLC: one day a month, two months a year. *)
EXTENDS BillPlan, TLC

CONSTANTS free, basic, pro, c1, c2, cron, u1

MCPrice == free :> 0 @@ basic :> 2 @@ pro :> 3
MCPriority == free :> 0 @@ basic :> 1 @@ pro :> 2
MCCount == free :> 0 @@ basic :> 1 @@ pro :> 2
MCEffectivePeroid == free :> "DAY" @@ basic :> "MONTH" @@ pro :> "YEAR"
MCRefreshQuotaSchedule == MCEffectivePeroid

Buys(c, p, auto) == [call |-> c, plan |-> p, auto |-> auto]
MCPurchases == {Buys(c1, basic, TRUE), Buys(c2, pro, FALSE)}
MCSwitches == {[call |-> c1, auto |-> FALSE]}
=============================================================================
