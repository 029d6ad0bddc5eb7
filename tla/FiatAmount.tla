----------------------------- MODULE FiatAmount -----------------------------
(***************************************************************************)
(* The arithmetic of money in rainbow-settle.  Prices have more decimals   *)
(* than the accounts: an amount is split into a part of whole fen (0.01    *)
(* yuan), which is posted, and a remainder smaller than one fen, which is  *)
(* only recorded (UnsettleAmount) until it adds up.  Amounts are integers  *)
(* here: Fen of the smallest units make one fen.                           *)
(***************************************************************************)
EXTENDS Integers

CONSTANT Fen

ASSUME FenAssumption == Fen \in Nat \ {0}

(* decimal.Decimal.Mod by one fen: the remainder takes the dividend's sign. *)
ModFen(raw) == IF raw >= 0 THEN raw % Fen ELSE -((-raw) % Fen)

(* rawAmount.Round(2).Equal(rawAmount) and checkDecimalQualified *)
WholeFen(amount) == amount % Fen = 0

(* calcLeftover: the amount in whole fen, and what is left of it. *)
CalcLeftover(raw) ==
  IF WholeFen(raw)
  THEN [amount |-> raw, leftover |-> 0]
  ELSE [amount |-> raw - ModFen(raw), leftover |-> ModFen(raw)]
=============================================================================
