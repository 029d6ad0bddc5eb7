------------------------------ MODULE Metering ------------------------------
(***************************************************************************)
(* What counting and settling API calls promises: every call is owed from  *)
(* the moment it is counted, and is charged at most once, later.           *)
(***************************************************************************)
EXTENDS Naturals

CONSTANTS Key,       \* what is metered: a user's calls of a cost type
          CallSizes  \* how many calls come at once

VARIABLES owed,  \* calls counted and not charged
          paid   \* calls charged

Use(k, n) ==
  /\ owed' = [owed EXCEPT ![k] = @ + n]
  /\ UNCHANGED paid

Charge(k, n) ==
  /\ owed' = [owed EXCEPT ![k] = @ - n]
  /\ paid' = [paid EXCEPT ![k] = @ + n]

MeterInit == owed = [k \in Key |-> 0] /\ paid = [k \in Key |-> 0]

MeterNext ==
  \E k \in Key :
    \/ \E n \in CallSizes : Use(k, n)
    \/ \E n \in 1 .. owed[k] : Charge(k, n)

MeterSpec == MeterInit /\ [][MeterNext]_<<owed, paid>>
=============================================================================
