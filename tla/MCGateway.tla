----------------------------- MODULE MCGateway ------------------------------
(* An old user that pays later and a new one that pays in advance. *)
EXTENDS Gateway, TLC

CONSTANTS normal, mint, old, new, h1, h2

MCPrice == normal :> 1 @@ mint :> 2
MCDefaultQuota == normal :> 1 @@ mint :> 0
=============================================================================
