---------------------------- MODULE MCCmbAccounts ----------------------------
(* Two users and two cards, which either may have. *)
EXTENDS CmbAccounts, TLC

CONSTANTS alice, bob, visa, union
Symmetry == Permutations({visa, union}) \cup Permutations({alice, bob})
=============================================================================
