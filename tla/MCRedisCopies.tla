---------------------------- MODULE MCRedisCopies ----------------------------
(* One user with one application; the second server has a plan to buy. *)
EXTENDS RedisCopies

MCOwnerOf == [a \in App |-> 1]
MCServerOf == [c \in CostType |-> IF c = 1 THEN "rainbow" ELSE "scan"]
MCPlanOf == [s \in {"rainbow", "scan"} |-> IF s = "rainbow" THEN {1} ELSE {2, 3}]
MCFirstPlan == [s \in {"rainbow", "scan"} |-> IF s = "rainbow" THEN 1 ELSE 2]
(* Plan 2 is changed once, plan 3 is added. *)
MCMaxRow == [p \in Plan |-> IF p = 2 THEN 2 ELSE 1]
=============================================================================
