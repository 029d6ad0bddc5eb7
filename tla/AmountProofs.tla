---------------------------- MODULE AmountProofs ----------------------------
(***************************************************************************)
(* Lemmas about amounts of money and numbers of calls.                     *)
(*                                                                         *)
(* First, about whole fen and the remainder, for every value of Fen.       *)
(* Then, about SumFunctionOnSet, the sum of a function's values over a     *)
(* finite set, for every function with integer values.  It is a fold,      *)
(* which recurses over the subsets of the set: each lemma follows from     *)
(* there being no smallest set for which it fails.                         *)
(***************************************************************************)
EXTENDS FiatAmount, FiniteSets, Functions, FiniteSetTheorems, WellFoundedInduction, TLAPS

(* The remainder of a division by one fen is smaller than one fen. *)
LEMMA RemainderBelowFen ==
  ASSUME NEW x \in Int
  PROVE  x % Fen \in Int /\ 0 <= x % Fen /\ x % Fen < Fen
BY FenAssumption

(* What is left after taking the remainder away is whole fen. *)
LEMMA MultipleIsWhole ==
  ASSUME NEW q \in Int
  PROVE  (Fen * q) % Fen = 0 /\ (-(Fen * q)) % Fen = 0
<1>1. (Fen * q) % Fen = 0
  BY FenAssumption
<1>2. -(Fen * q) = Fen * (-q) /\ -q \in Int
  BY FenAssumption
<1>3. (Fen * (-q)) % Fen = 0
  BY <1>2, FenAssumption
<1> QED
  BY <1>1, <1>2, <1>3

(* calcLeftover splits an amount exactly, into whole fen and less than one. *)
LEMMA CalcLeftoverSplits ==
  ASSUME NEW raw \in Int
  PROVE  /\ CalcLeftover(raw) \in [amount : Int, leftover : Int]
         /\ CalcLeftover(raw).amount + CalcLeftover(raw).leftover = raw
         /\ WholeFen(CalcLeftover(raw).amount)
         /\ -Fen < CalcLeftover(raw).leftover
         /\ CalcLeftover(raw).leftover < Fen
<1>1. CASE WholeFen(raw)
  BY <1>1, FenAssumption DEF CalcLeftover
<1>2. CASE ~WholeFen(raw)
  <2> DEFINE m == ModFen(raw)
  <2>1. CalcLeftover(raw) = [amount |-> raw - m, leftover |-> m]
    BY <1>2 DEF CalcLeftover
  <2>2. m \in Int /\ -Fen < m /\ m < Fen
    BY RemainderBelowFen, FenAssumption DEF ModFen
  <2>3. (raw - m) % Fen = 0
    <3>1. CASE raw >= 0
      <4>1. raw \div Fen \in Int /\ raw = (Fen * (raw \div Fen)) + (raw % Fen)
        BY FenAssumption
      <4>2. raw - m = Fen * (raw \div Fen)
        BY <3>1, <4>1, RemainderBelowFen, FenAssumption DEF ModFen
      <4> QED
        BY <4>1, <4>2, MultipleIsWhole
    <3>2. CASE raw < 0
      <4> DEFINE p == -raw
      <4>1. /\ p \in Int
            /\ p \div Fen \in Int
            /\ p = (Fen * (p \div Fen)) + (p % Fen)
        BY FenAssumption
      <4>2. m = -(p % Fen)
        BY <3>2 DEF ModFen
      <4>3. raw - m = -(Fen * (p \div Fen))
        BY <4>1, <4>2, RemainderBelowFen, FenAssumption
      <4> QED
        BY <4>1, <4>3, MultipleIsWhole
    <3> QED
      BY <3>1, <3>2
  <2>4. raw - m \in Int /\ (raw - m) + m = raw
    BY <2>2
  <2> HIDE DEF m
  <2> QED
    BY <2>1, <2>2, <2>3, <2>4, FenAssumption DEF WholeFen
<1> QED
  BY <1>1, <1>2

(* What is less than a fen has the sign of the amount, and so has the rest. *)
LEMMA SplitKeepsSign ==
  ASSUME NEW raw \in Int
  PROVE  /\ raw >= 0 => CalcLeftover(raw).leftover >= 0 /\ CalcLeftover(raw).amount >= 0
         /\ raw <= 0 => CalcLeftover(raw).leftover <= 0 /\ CalcLeftover(raw).amount <= 0
<1>1. CASE WholeFen(raw)
  BY <1>1 DEF CalcLeftover
<1>2. CASE ~WholeFen(raw)
  <2>1. CalcLeftover(raw) = [amount |-> raw - ModFen(raw), leftover |-> ModFen(raw)]
    BY <1>2 DEF CalcLeftover
  <2>2. CASE raw >= 0
    <3>1. ModFen(raw) = raw % Fen
      BY <2>2 DEF ModFen
    <3>2. raw = (Fen * (raw \div Fen)) + (raw % Fen) /\ raw \div Fen >= 0
      BY <2>2, FenAssumption
    <3>3. Fen * (raw \div Fen) >= 0
      BY <2>2, <3>2, FenAssumption
    <3> QED
      BY <1>2, <2>1, <2>2, <3>1, <3>2, <3>3, RemainderBelowFen, FenAssumption DEF WholeFen
  <2>3. CASE raw < 0
    <3> DEFINE p == -raw
    <3>1. ModFen(raw) = -(p % Fen)
      BY <2>3 DEF ModFen
    <3>2. p = (Fen * (p \div Fen)) + (p % Fen) /\ p \div Fen >= 0
      BY <2>3, FenAssumption
    <3>3. Fen * (p \div Fen) >= 0
      BY <2>3, <3>2, FenAssumption
    <3>4. 0 <= p % Fen /\ p % Fen \in Int
      BY RemainderBelowFen
    <3>5. raw - ModFen(raw) = -(Fen * (p \div Fen))
      BY <3>1, <3>2, <3>4, FenAssumption
    <3> QED
      BY <2>1, <2>3, <3>1, <3>3, <3>4, <3>5, FenAssumption
  <2> QED
    BY <2>2, <2>3
<1> QED
  BY <1>1, <1>2

(* Whole fen are a multiple of one fen. *)
LEMMA WholeIsMultiple ==
  ASSUME NEW x \in Int, WholeFen(x)
  PROVE  \E q \in Int : x = Fen * q
<1>1. x \div Fen \in Int /\ x = (Fen * (x \div Fen)) + (x % Fen)
  BY FenAssumption
<1> QED
  BY <1>1, FenAssumption DEF WholeFen

(* Whole fen add up to whole fen. *)
LEMMA WholeSum ==
  ASSUME NEW x \in Int, NEW y \in Int, WholeFen(x), WholeFen(y)
  PROVE  WholeFen(x + y)
<1>1. PICK q \in Int : x = Fen * q
  BY WholeIsMultiple
<1>2. PICK r \in Int : y = Fen * r
  BY WholeIsMultiple
<1>3. x + y = Fen * (q + r)
  BY <1>1, <1>2, FenAssumption
<1>4. (Fen * (q + r)) % Fen = 0
  BY MultipleIsWhole
<1> QED
  BY <1>3, <1>4 DEF WholeFen

(* Whole fen that are not a whole fen below zero are not below zero. *)
LEMMA WholeNotBelow ==
  ASSUME NEW x \in Int, WholeFen(x), x > -Fen
  PROVE  x >= 0
<1>1. PICK q \in Int : x = Fen * q
  BY WholeIsMultiple
<1>2. CASE q >= 0
  BY <1>1, <1>2, FenAssumption
<1>3. CASE q <= -1
  <2>1. Fen * (-1 - q) >= 0
    BY <1>3, FenAssumption
  <2>2. Fen * (-1 - q) = -Fen - Fen * q
    BY FenAssumption
  <2> QED
    BY <1>1, <2>1, <2>2, FenAssumption
<1> QED
  BY <1>2, <1>3
-----------------------------------------------------------------------------
(* The smallest number of a set. *)
LEMMA LeastNumber ==
  ASSUME NEW T, T \subseteq Nat, T # {}
  PROVE  \E m \in T : \A n \in T : m <= n
<1> DEFINE R == {ss \in Nat \X Nat : ss[1] < ss[2]}
<1>1. IsWellFoundedOn(R, Nat)
  BY NatLessThanWellFounded DEF OpToRel
<1>2. \E x \in T : \A y \in T : ~ (<<y, x>> \in R)
  <2> HIDE DEF R
  <2> QED BY WFMin, <1>1
<1>3. PICK x \in T : \A y \in T : ~ (<<y, x>> \in R)
  BY <1>2
<1>4. \A y \in T : ~(y < x)
  BY <1>3
<1> QED
  BY <1>4

(* The smallest of a family of subsets of a finite set. *)
LEMMA LeastSubset ==
  ASSUME NEW S, IsFiniteSet(S), NEW T, T \subseteq SUBSET S, T # {}
  PROVE  \E A \in T : \A B \in T : ~(B \subseteq A /\ B # A)
<1> DEFINE C == {Cardinality(A) : A \in T}
<1>1. \A A \in T : IsFiniteSet(A) /\ Cardinality(A) \in Nat
  BY FS_Subset, FS_CardinalityType
<1>2. C \subseteq Nat /\ C # {}
  BY <1>1
<1>3. PICK m \in C : \A n \in C : m <= n
  <2> HIDE DEF C
  <2> QED BY <1>2, LeastNumber
<1>4. PICK A \in T : m = Cardinality(A)
  BY <1>3
<1>5. \A B \in T : Cardinality(A) <= Cardinality(B)
  BY <1>3, <1>4
<1>6. ASSUME NEW B \in T, B \subseteq A, B # A PROVE FALSE
  <2>1. Cardinality(B) <= Cardinality(A) /\ Cardinality(A) # Cardinality(B)
    BY <1>1, <1>6, FS_Subset
  <2> QED
    BY <1>1, <1>5, <1>6, <2>1
<1> QED
  BY <1>6

(* What the fold does with a subset: an element is taken, the rest is summed. *)
Taken(s) == CHOOSE x \in s : TRUE
SumStep(f, g, s) == IF s = {} THEN 0 ELSE f[Taken(s)] + g[s \ {Taken(s)}]
IsFold(f, S, g) == g = [s \in SUBSET S |-> SumStep(f, g, s)]
(* The same for the subsets of at most n elements. *)
UpTo(S, n) == {s \in SUBSET S : Cardinality(s) <= n}
IsFoldUpTo(f, S, n, g) ==
  /\ g \in [UpTo(S, n) -> Int]
  /\ \A s \in UpTo(S, n) : g[s] = SumStep(f, g, s)

(* The subsets of a finite set, without an element they have. *)
LEMMA RemoveOne ==
  ASSUME NEW S, IsFiniteSet(S), NEW s \in SUBSET S
  PROVE  /\ IsFiniteSet(s) /\ Cardinality(s) \in Nat
         /\ s # {} => Taken(s) \in s
         /\ \A x \in s : /\ s \ {x} \in SUBSET S
                         /\ Cardinality(s \ {x}) = Cardinality(s) - 1
<1>1. IsFiniteSet(s) /\ Cardinality(s) \in Nat
  BY FS_Subset, FS_CardinalityType
<1>2. s # {} => Taken(s) \in s
  BY DEF Taken
<1>3. \A x \in s : Cardinality(s \ {x}) = Cardinality(s) - 1
  BY <1>1, FS_RemoveElement
<1> QED
  BY <1>1, <1>2, <1>3

(* The fold exists up to any size, by its size. *)
LEMMA FoldUpToExists ==
  ASSUME NEW S, IsFiniteSet(S), NEW f, \A x \in S : f[x] \in Int, NEW n \in Nat
  PROVE  \E g : IsFoldUpTo(f, S, n, g)
<1> DEFINE T == {m \in Nat : ~ \E g : IsFoldUpTo(f, S, m, g)}
<1>1. SUFFICES ASSUME T # {} PROVE FALSE
  OBVIOUS
<1>2. PICK m \in T : \A k \in T : m <= k
  <2>1. T \subseteq Nat
    OBVIOUS
  <2> HIDE DEF T
  <2> QED BY <1>1, <2>1, LeastNumber
<1>3. m \in Nat /\ ~ \E g : IsFoldUpTo(f, S, m, g)
  BY <1>2
<1>4. CASE m = 0
  <2> DEFINE g == [s \in UpTo(S, 0) |-> 0]
  <2>1. \A s \in UpTo(S, 0) : s = {}
    <3> TAKE s \in UpTo(S, 0)
    <3>1. s \in SUBSET S /\ Cardinality(s) <= 0
      BY DEF UpTo
    <3>2. IsFiniteSet(s) /\ Cardinality(s) = 0
      BY <3>1, RemoveOne
    <3> QED
      BY <3>2, FS_EmptySet
  <2>2. IsFoldUpTo(f, S, 0, g)
    BY <2>1 DEF IsFoldUpTo, SumStep
  <2> QED
    BY <1>3, <1>4, <2>2
<1>5. CASE m # 0
  <2>1. m - 1 \in Nat /\ m - 1 \notin T
    BY <1>2, <1>3, <1>5
  <2>2. PICK h : IsFoldUpTo(f, S, m - 1, h)
    BY <2>1
  <2> DEFINE g == [s \in UpTo(S, m) |-> SumStep(f, h, s)]
  <2>3. UpTo(S, m - 1) \subseteq UpTo(S, m)
    <3>1. \A s \in SUBSET S : Cardinality(s) \in Nat
      BY RemoveOne
    <3> QED
      BY <1>3, <3>1 DEF UpTo
  <2>4. \A s \in UpTo(S, m) : s # {} => s \ {Taken(s)} \in UpTo(S, m - 1)
                                        /\ Taken(s) \in S
    BY <1>3, RemoveOne DEF UpTo
  <2>5. \A s \in UpTo(S, m) : SumStep(f, h, s) \in Int
    BY <2>2, <2>4 DEF SumStep, IsFoldUpTo
  <2>6. g \in [UpTo(S, m) -> Int]
    BY <2>5
  <2>7. \A s \in UpTo(S, m - 1) : g[s] = h[s]
    BY <2>2, <2>3 DEF IsFoldUpTo
  <2>8. \A s \in UpTo(S, m) : g[s] = SumStep(f, g, s)
    <3> TAKE s \in UpTo(S, m)
    <3>1. g[s] = SumStep(f, h, s)
      OBVIOUS
    <3> HIDE DEF g
    <3> QED
      BY <2>4, <2>7, <3>1 DEF SumStep
  <2>9. IsFoldUpTo(f, S, m, g)
    <3> HIDE DEF g
    <3> QED BY <2>6, <2>8 DEF IsFoldUpTo
  <2> QED
    BY <1>3, <2>9
<1> QED
  BY <1>4, <1>5

(* The fold that the definition chooses is one. *)
LEMMA FoldExists ==
  ASSUME NEW S, IsFiniteSet(S), NEW f, \A x \in S : f[x] \in Int
  PROVE  \E g \in [SUBSET S -> Int] : IsFold(f, S, g)
<1>1. Cardinality(S) \in Nat
  BY FS_CardinalityType
<1>2. PICK g : IsFoldUpTo(f, S, Cardinality(S), g)
  BY <1>1, FoldUpToExists
<1>3. UpTo(S, Cardinality(S)) = SUBSET S
  BY FS_Subset DEF UpTo
<1> QED
  BY <1>2, <1>3 DEF IsFold, IsFoldUpTo

SumFold(f, S) == CHOOSE g : IsFold(f, S, g)

(* The sum is what a fold makes of the whole set. *)
LEMMA SumIsFold ==
  ASSUME NEW f, NEW S
  PROVE  SumFunctionOnSet(f, S) = SumFold(f, S)[S]
BY DEF SumFunctionOnSet, FoldFunctionOnSet, MapThenFoldSet, SumFold, IsFold, SumStep, Taken

(* The fold that is chosen follows the recursion ... *)
LEMMA SumFoldStep ==
  ASSUME NEW S, IsFiniteSet(S), NEW f, \A x \in S : f[x] \in Int, NEW s \in SUBSET S
  PROVE  SumFold(f, S)[s] = SumStep(f, SumFold(f, S), s)
<1>1. IsFold(f, S, SumFold(f, S))
  BY FoldExists DEF SumFold
<1> QED
  BY <1>1 DEF IsFold

(* ... and sums alike what two sets and two functions share. *)
LEMMA FoldsAgree ==
  ASSUME NEW S, IsFiniteSet(S), NEW f, \A x \in S : f[x] \in Int,
         NEW R, IsFiniteSet(R), NEW h, \A x \in R : h[x] \in Int,
         NEW s \in SUBSET (S \cap R), \A x \in s : f[x] = h[x]
  PROVE  SumFold(f, S)[s] = SumFold(h, R)[s]
<1> DEFINE T == {t \in SUBSET s : SumFold(f, S)[t] # SumFold(h, R)[t]}
<1>1. SUFFICES ASSUME T # {} PROVE FALSE
  OBVIOUS
<1>2. IsFiniteSet(s)
  BY FS_Subset
<1>3. PICK t \in T : \A r \in T : ~(r \subseteq t /\ r # t)
  <2>1. T \subseteq SUBSET s
    OBVIOUS
  <2> HIDE DEF T
  <2> QED BY <1>1, <1>2, <2>1, LeastSubset
<1>4. /\ t \in SUBSET S /\ t \in SUBSET R /\ t \in SUBSET s
      /\ SumFold(f, S)[t] # SumFold(h, R)[t]
  BY <1>3
<1>5. /\ SumFold(f, S)[t] = SumStep(f, SumFold(f, S), t)
      /\ SumFold(h, R)[t] = SumStep(h, SumFold(h, R), t)
  BY <1>4, SumFoldStep
<1>6. t # {} /\ Taken(t) \in t
  BY <1>4, <1>5 DEF SumStep, Taken
<1>7. t \ {Taken(t)} \notin T
  BY <1>3, <1>6
<1>8. SumFold(f, S)[t \ {Taken(t)}] = SumFold(h, R)[t \ {Taken(t)}]
  BY <1>4, <1>7
<1>9. f[Taken(t)] = h[Taken(t)]
  BY <1>4, <1>6
<1> QED
  BY <1>4, <1>5, <1>6, <1>8, <1>9 DEF SumStep

(* Nothing sums up to zero. *)
LEMMA SumEmpty ==
  ASSUME NEW f
  PROVE  SumFunctionOnSet(f, {}) = 0
<1>1. IsFiniteSet({})
  BY FS_EmptySet
<1>2. SumFold(f, {})[{}] = SumStep(f, SumFold(f, {}), {})
  BY <1>1, SumFoldStep
<1> QED
  BY <1>2, SumIsFold DEF SumStep

(* A sum is the value at the element that the fold takes, and the sum of the rest. *)
LEMMA SumTaken ==
  ASSUME NEW S, IsFiniteSet(S), NEW f, \A x \in S : f[x] \in Int, S # {}
  PROVE  /\ Taken(S) \in S
         /\ SumFunctionOnSet(f, S) = f[Taken(S)] + SumFunctionOnSet(f, S \ {Taken(S)})
<1>1. Taken(S) \in S
  BY DEF Taken
<1> DEFINE r == S \ {Taken(S)}
<1>2. IsFiniteSet(r)
  BY FS_RemoveElement
<1>3. SumFold(f, S)[r] = SumFold(f, r)[r]
  BY <1>2, FoldsAgree
<1>4. SumFold(f, S)[S] = f[Taken(S)] + SumFold(f, S)[r]
  BY SumFoldStep DEF SumStep
<1> QED
  BY <1>1, <1>3, <1>4, SumIsFold

(* Functions that agree on a set have one sum. *)
LEMMA SumSame ==
  ASSUME NEW S, IsFiniteSet(S), NEW f, \A x \in S : f[x] \in Int,
         NEW h, \A x \in S : f[x] = h[x]
  PROVE  SumFunctionOnSet(f, S) = SumFunctionOnSet(h, S)
BY FoldsAgree, SumIsFold

(* A sum of integers is one. *)
LEMMA SumInt ==
  ASSUME NEW S, IsFiniteSet(S), NEW f, \A x \in S : f[x] \in Int
  PROVE  SumFunctionOnSet(f, S) \in Int
<1> DEFINE T == {s \in SUBSET S : SumFunctionOnSet(f, s) \notin Int}
<1>1. SUFFICES ASSUME T # {} PROVE FALSE
  OBVIOUS
<1>2. PICK s \in T : \A r \in T : ~(r \subseteq s /\ r # s)
  <2>1. T \subseteq SUBSET S
    OBVIOUS
  <2> HIDE DEF T
  <2> QED BY <1>1, <2>1, LeastSubset
<1>3. s \in SUBSET S /\ SumFunctionOnSet(f, s) \notin Int /\ IsFiniteSet(s)
  BY <1>2, FS_Subset
<1>4. s # {}
  BY <1>3, SumEmpty
<1>5. /\ Taken(s) \in s
      /\ SumFunctionOnSet(f, s) = f[Taken(s)] + SumFunctionOnSet(f, s \ {Taken(s)})
  BY <1>3, <1>4, SumTaken
<1>6. SumFunctionOnSet(f, s \ {Taken(s)}) \in Int
  BY <1>2, <1>5
<1> QED
  BY <1>3, <1>5, <1>6

(* Any element may be taken first. *)
LEMMA SumRemove ==
  ASSUME NEW S, IsFiniteSet(S), NEW f, \A x \in S : f[x] \in Int, NEW y \in S
  PROVE  SumFunctionOnSet(f, S) = f[y] + SumFunctionOnSet(f, S \ {y})
<1> DEFINE T == {s \in SUBSET S :
                   \E z \in s : SumFunctionOnSet(f, s) # f[z] + SumFunctionOnSet(f, s \ {z})}
<1>1. SUFFICES ASSUME T # {} PROVE FALSE
  OBVIOUS
<1>2. PICK s \in T : \A r \in T : ~(r \subseteq s /\ r # s)
  <2>1. T \subseteq SUBSET S
    OBVIOUS
  <2> HIDE DEF T
  <2> QED BY <1>1, <2>1, LeastSubset
<1>3. s \in SUBSET S /\ IsFiniteSet(s)
  BY <1>2, FS_Subset
<1>4. PICK z \in s : SumFunctionOnSet(f, s) # f[z] + SumFunctionOnSet(f, s \ {z})
  BY <1>2
<1>5. PICK x \in s : SumFunctionOnSet(f, s) = f[x] + SumFunctionOnSet(f, s \ {x})
  BY <1>3, <1>4, SumTaken
<1>6. x # z
  BY <1>4, <1>5
<1>7. s \ {x} \notin T /\ s \ {z} \notin T
  BY <1>2
<1> DEFINE both == (s \ {x}) \ {z}
<1>8. SumFunctionOnSet(f, s \ {x}) = f[z] + SumFunctionOnSet(f, both)
  BY <1>3, <1>6, <1>7
<1>9. SumFunctionOnSet(f, s \ {z}) = f[x] + SumFunctionOnSet(f, both)
  <2>1. (s \ {z}) \ {x} = both
    OBVIOUS
  <2> QED
    BY <1>3, <1>6, <1>7, <2>1
<1>10. f[x] \in Int /\ f[z] \in Int /\ SumFunctionOnSet(f, both) \in Int
  <2>1. IsFiniteSet(both)
    BY <1>3, FS_RemoveElement
  <2> QED
    BY <1>3, <2>1, SumInt
<1> HIDE DEF both
<1> QED
  BY <1>4, <1>5, <1>8, <1>9, <1>10

(* One more element adds its value. *)
LEMMA SumOneMore ==
  ASSUME NEW S, IsFiniteSet(S), NEW y, y \notin S,
         NEW f, \A x \in S \cup {y} : f[x] \in Int, NEW h, \A x \in S : f[x] = h[x]
  PROVE  SumFunctionOnSet(f, S \cup {y}) = f[y] + SumFunctionOnSet(h, S)
<1>1. IsFiniteSet(S \cup {y})
  BY FS_AddElement
<1>2. (S \cup {y}) \ {y} = S
  OBVIOUS
<1>3. SumFunctionOnSet(f, S \cup {y}) = f[y] + SumFunctionOnSet(f, S)
  BY <1>1, <1>2, SumRemove
<1> QED
  BY <1>3, SumSame

(* A union of sets that share nothing has the sum of their sums. *)
LEMMA SumUnion ==
  ASSUME NEW S, IsFiniteSet(S), NEW R, IsFiniteSet(R), S \cap R = {},
         NEW f, \A x \in S \cup R : f[x] \in Int
  PROVE  SumFunctionOnSet(f, S \cup R) = SumFunctionOnSet(f, S) + SumFunctionOnSet(f, R)
<1> DEFINE Unlike(s) == SumFunctionOnSet(f, S \cup s) # SumFunctionOnSet(f, S) + SumFunctionOnSet(f, s)
           T == {s \in SUBSET R : Unlike(s)}
<1>1. SUFFICES ASSUME T # {} PROVE FALSE
  OBVIOUS
<1>2. PICK t \in T : \A r \in T : ~(r \subseteq t /\ r # t)
  <2>1. T \subseteq SUBSET R
    OBVIOUS
  <2> HIDE DEF T
  <2> QED BY <1>1, <2>1, LeastSubset
<1>3. t \in SUBSET R /\ Unlike(t)
  BY <1>2
<1>4. IsFiniteSet(t) /\ IsFiniteSet(S \cup t)
  BY <1>3, FS_Subset, FS_Union
<1>5. SumFunctionOnSet(f, S) \in Int
  BY SumInt
<1>6. CASE t = {}
  <2>1. S \cup t = S
    BY <1>6
  <2> QED
    BY <1>3, <1>5, <1>6, <2>1, SumEmpty
<1>7. CASE t # {}
  <2>1. PICK y \in t : TRUE
    BY <1>7
  <2>2. t \ {y} \in SUBSET R /\ t \ {y} \notin T
    BY <1>2, <1>3, <2>1
  <2>3. ~Unlike(t \ {y})
    BY <2>2
  <2>4. (S \cup t) \ {y} = S \cup (t \ {y})
    BY <1>3, <2>1
  <2>5. SumFunctionOnSet(f, S \cup t) = f[y] + SumFunctionOnSet(f, (S \cup t) \ {y})
    <3>1. y \in S \cup t /\ \A x \in S \cup t : f[x] \in Int
      BY <1>3, <2>1
    <3> QED
      BY <1>4, <3>1, SumRemove
  <2>6. SumFunctionOnSet(f, t) = f[y] + SumFunctionOnSet(f, t \ {y})
    <3>1. \A x \in t : f[x] \in Int
      BY <1>3
    <3> QED
      BY <1>4, <2>1, <3>1, SumRemove
  <2>7. f[y] \in Int /\ SumFunctionOnSet(f, t \ {y}) \in Int
    <3>1. IsFiniteSet(t \ {y}) /\ \A x \in t \ {y} : f[x] \in Int
      BY <1>3, <1>4, FS_RemoveElement
    <3> QED
      BY <1>3, <2>1, <3>1, SumInt
  <2>8. SumFunctionOnSet(f, S \cup (t \ {y})) = SumFunctionOnSet(f, S) + SumFunctionOnSet(f, t \ {y})
    BY <2>3
  <2>9. SumFunctionOnSet(f, S \cup t) # SumFunctionOnSet(f, S) + SumFunctionOnSet(f, t)
    BY <1>3
  <2> DEFINE all == SumFunctionOnSet(f, S \cup t)
             this == SumFunctionOnSet(f, S)
             that == SumFunctionOnSet(f, t)
             rest == SumFunctionOnSet(f, t \ {y})
             at == f[y]
  <2>10. all = at + (this + rest) /\ that = at + rest /\ all # this + that
    BY <2>4, <2>5, <2>6, <2>8, <2>9
  <2>11. this \in Int /\ rest \in Int /\ at \in Int
    BY <1>5, <2>7
  <2> HIDE DEF all, this, that, rest, at
  <2> QED
    BY <2>10, <2>11
<1> QED
  BY <1>6, <1>7

Pairs(g, S, R) ==
  /\ g \in [S -> R]
  /\ \A x, y \in S : g[x] = g[y] => x = y
  /\ \A z \in R : \E x \in S : z = g[x]

(* Sums over two sets are the same if a bijection keeps the values. *)
LEMMA SumBijection ==
  ASSUME NEW S, IsFiniteSet(S), NEW R, NEW g, Pairs(g, S, R),
         NEW f, NEW h, \A x \in S : f[x] \in Int /\ h[g[x]] = f[x]
  PROVE  IsFiniteSet(R) /\ SumFunctionOnSet(h, R) = SumFunctionOnSet(f, S)
<1> USE DEF Pairs
<1> DEFINE Of(s) == {g[x] : x \in s}
           T == {s \in SUBSET S : SumFunctionOnSet(h, Of(s)) # SumFunctionOnSet(f, s)}
<1>1. R = Of(S)
  OBVIOUS
<1>2. \A s \in SUBSET S : IsFiniteSet(s) /\ IsFiniteSet(Of(s))
  <2> TAKE s \in SUBSET S
  <2>1. IsFiniteSet(s)
    BY FS_Subset
  <2>2. IsFiniteSet(Of(s))
    <3>1. [x \in s |-> g[x]] \in Surjection(s, Of(s))
      BY DEF Surjection
    <3> QED
      BY <2>1, <3>1, FS_Surjection
  <2> QED
    BY <2>1, <2>2
<1>3. T = {}
  <2>1. SUFFICES ASSUME T # {} PROVE FALSE
    OBVIOUS
  <2>2. PICK t \in T : \A r \in T : ~(r \subseteq t /\ r # t)
    <3>1. T \subseteq SUBSET S
      OBVIOUS
    <3> HIDE DEF T
    <3> QED BY <2>1, <3>1, LeastSubset
  <2>3. t \in SUBSET S /\ SumFunctionOnSet(h, Of(t)) # SumFunctionOnSet(f, t)
    BY <2>2
  <2>4. CASE t = {}
    <3>1. Of(t) = {}
      BY <2>4
    <3> HIDE DEF Of
    <3> QED
      BY <2>3, <2>4, <3>1, SumEmpty
  <2>5. CASE t # {}
    <3>1. PICK y \in t : TRUE
      BY <2>5
    <3>2. t \ {y} \in SUBSET S /\ t \ {y} \notin T
      BY <2>2, <2>3, <3>1
    <3>3. SumFunctionOnSet(h, Of(t \ {y})) = SumFunctionOnSet(f, t \ {y})
      BY <3>2
    <3>4. Of(t) \ {g[y]} = Of(t \ {y})
      BY <2>3, <3>1
    <3>5. SumFunctionOnSet(h, Of(t)) = h[g[y]] + SumFunctionOnSet(h, Of(t) \ {g[y]})
      <4>1. g[y] \in Of(t) /\ \A z \in Of(t) : h[z] \in Int
        BY <2>3, <3>1
      <4>2. IsFiniteSet(Of(t))
        BY <1>2, <2>3
      <4> HIDE DEF Of
      <4> QED
        BY <4>1, <4>2, SumRemove
    <3>6. SumFunctionOnSet(f, t) = f[y] + SumFunctionOnSet(f, t \ {y})
      <4>1. IsFiniteSet(t) /\ \A x \in t : f[x] \in Int
        BY <1>2, <2>3
      <4> QED
        BY <3>1, <4>1, SumRemove
    <3>7. h[g[y]] = f[y]
      BY <2>3, <3>1
    <3> HIDE DEF T, Of
    <3> QED
      BY <2>3, <3>3, <3>4, <3>5, <3>6, <3>7
  <2> QED
    BY <2>4, <2>5
<1>4. S \in SUBSET S /\ S \notin T
  BY <1>3
<1> QED
  BY <1>1, <1>2, <1>4

(* A sum is not above another if no value is. *)
LEMMA SumAtMost ==
  ASSUME NEW S, IsFiniteSet(S), NEW f, \A x \in S : f[x] \in Int,
         NEW h, \A x \in S : h[x] \in Int, \A x \in S : f[x] <= h[x]
  PROVE  SumFunctionOnSet(f, S) <= SumFunctionOnSet(h, S)
<1> DEFINE T == {s \in SUBSET S : ~(SumFunctionOnSet(f, s) <= SumFunctionOnSet(h, s))}
<1>1. SUFFICES ASSUME T # {} PROVE FALSE
  OBVIOUS
<1>2. PICK t \in T : \A r \in T : ~(r \subseteq t /\ r # t)
  <2>1. T \subseteq SUBSET S
    OBVIOUS
  <2> HIDE DEF T
  <2> QED BY <1>1, <2>1, LeastSubset
<1>3. t \in SUBSET S /\ ~(SumFunctionOnSet(f, t) <= SumFunctionOnSet(h, t)) /\ IsFiniteSet(t)
  BY <1>2, FS_Subset
<1>4. t # {}
  BY <1>3, SumEmpty
<1>5. PICK y \in t : TRUE
  BY <1>4
<1>6. t \ {y} \in SUBSET S /\ t \ {y} \notin T
  BY <1>2, <1>3, <1>5
<1>7. SumFunctionOnSet(f, t \ {y}) <= SumFunctionOnSet(h, t \ {y})
  BY <1>6
<1>8. \A x \in t : f[x] \in Int /\ h[x] \in Int
  BY <1>3
<1>9. /\ SumFunctionOnSet(f, t) = f[y] + SumFunctionOnSet(f, t \ {y})
      /\ SumFunctionOnSet(h, t) = h[y] + SumFunctionOnSet(h, t \ {y})
  BY <1>3, <1>5, <1>8, SumRemove
<1>10. SumFunctionOnSet(f, t \ {y}) \in Int /\ SumFunctionOnSet(h, t \ {y}) \in Int
  <2>1. IsFiniteSet(t \ {y}) /\ \A x \in t \ {y} : f[x] \in Int /\ h[x] \in Int
    BY <1>3, <1>8, FS_RemoveElement
  <2> QED
    BY <2>1, SumInt
<1>11. f[y] \in Int /\ h[y] \in Int /\ f[y] <= h[y]
  BY <1>3, <1>5
<1> HIDE DEF T
<1> QED
  BY <1>3, <1>7, <1>9, <1>10, <1>11

(* A sum of natural numbers is one, and not below any of them. *)
LEMMA SumNat ==
  ASSUME NEW S, IsFiniteSet(S), NEW f, \A x \in S : f[x] \in Nat
  PROVE  /\ SumFunctionOnSet(f, S) \in Nat
         /\ \A x \in S : f[x] <= SumFunctionOnSet(f, S)
<1> DEFINE T == {s \in SUBSET S : SumFunctionOnSet(f, s) \notin Nat}
<1>1. T = {}
  <2>1. SUFFICES ASSUME T # {} PROVE FALSE
    OBVIOUS
  <2>2. PICK s \in T : \A r \in T : ~(r \subseteq s /\ r # s)
    <3>1. T \subseteq SUBSET S
      OBVIOUS
    <3> HIDE DEF T
    <3> QED BY <2>1, <3>1, LeastSubset
  <2>3. s \in SUBSET S /\ SumFunctionOnSet(f, s) \notin Nat /\ IsFiniteSet(s)
    BY <2>2, FS_Subset
  <2>4. s # {}
    BY <2>3, SumEmpty
  <2>5. /\ Taken(s) \in s
        /\ SumFunctionOnSet(f, s) = f[Taken(s)] + SumFunctionOnSet(f, s \ {Taken(s)})
    BY <2>3, <2>4, SumTaken
  <2>6. SumFunctionOnSet(f, s \ {Taken(s)}) \in Nat
    BY <2>2, <2>5
  <2> QED
    BY <2>3, <2>5, <2>6
<1>2. \A s \in SUBSET S : SumFunctionOnSet(f, s) \in Nat
  BY <1>1
<1> HIDE DEF T
<1>3. ASSUME NEW x \in S PROVE f[x] <= SumFunctionOnSet(f, S)
  <2>1. SumFunctionOnSet(f, S) = f[x] + SumFunctionOnSet(f, S \ {x})
    BY SumRemove
  <2>2. SumFunctionOnSet(f, S \ {x}) \in Nat
    BY <1>2
  <2> QED
    BY <2>1, <2>2
<1> QED
  BY <1>2, <1>3
(* The sum of one value. *)
LEMMA SumSingle ==
  ASSUME NEW p, NEW f, f[p] \in Int
  PROVE  SumFunctionOnSet(f, {p}) = f[p]
<1>1. IsFiniteSet({p}) /\ {p} \ {p} = {} /\ p \in {p} /\ \A x \in {p} : f[x] \in Int
  BY FS_Singleton
<1>2. SumFunctionOnSet(f, {p}) = f[p] + SumFunctionOnSet(f, {p} \ {p})
  BY <1>1, SumRemove
<1> QED
  BY <1>1, <1>2, SumEmpty

(* As many values as arguments at the most. *)
LEMMA FiniteImage ==
  ASSUME NEW S, IsFiniteSet(S), NEW f
  PROVE  IsFiniteSet({f[x] : x \in S})
<1>1. [x \in S |-> f[x]] \in Surjection(S, {f[x] : x \in S})
  BY DEF Surjection
<1> QED
  BY <1>1, FS_Surjection

(* A finite set of numbers has a greatest one. *)
LEMMA GreatestNumber ==
  ASSUME NEW T, T \subseteq Nat, IsFiniteSet(T), T # {}
  PROVE  \E m \in T : \A n \in T : n <= m
<1>1. PICK b \in Nat : \A n \in T : n <= b
  <2> DEFINE f == [n \in T |-> n]
  <2>1. \A n \in T : f[n] \in Nat /\ f[n] = n
    OBVIOUS
  <2> HIDE DEF f
  <2>2. SumFunctionOnSet(f, T) \in Nat /\ \A n \in T : f[n] <= SumFunctionOnSet(f, T)
    BY <2>1, SumNat
  <2> QED
    BY <2>1, <2>2
<1> DEFINE D == {d \in Nat : \E n \in T : d = b - n}
<1>2. D \subseteq Nat /\ D # {}
  <2>1. PICK n \in T : TRUE
    OBVIOUS
  <2>2. b - n \in Nat
    BY <1>1, <2>1
  <2> QED
    BY <2>1, <2>2
<1>3. PICK d \in D : \A c \in D : d <= c
  <2> HIDE DEF D
  <2> QED
    BY <1>2, LeastNumber
<1>4. PICK m \in T : d = b - m
  BY <1>3
<1>5. ASSUME NEW n \in T PROVE n <= m
  <2>1. b - n \in D
    BY <1>1
  <2>2. d <= b - n
    BY <1>3, <2>1
  <2> QED
    BY <1>1, <1>4, <2>2
<1> QED
  BY <1>4, <1>5

-----------------------------------------------------------------------------
UniqueIds(S) == \A x, y \in S : x.id = y.id => x = y
SameIds(S, R) == {x.id : x \in S} = {x.id : x \in R}

(* Sets of rows with ids: sums over two of them are the same if the values of the same
   ids are, *)
LEMMA SumById ==
  ASSUME NEW S, IsFiniteSet(S), NEW R, UniqueIds(S), UniqueIds(R), SameIds(S, R),
         NEW f, \A x \in S : f[x] \in Int, NEW h, \A x \in S, y \in R : x.id = y.id => f[x] = h[y]
  PROVE  IsFiniteSet(R) /\ SumFunctionOnSet(h, R) = SumFunctionOnSet(f, S)
<1> DEFINE g == [x \in S |-> CHOOSE y \in R : y.id = x.id]
<1>1. \A x \in S : \E y \in R : y.id = x.id
  BY DEF SameIds
<1>2. \A x \in S : g[x] \in R /\ g[x].id = x.id
  BY <1>1
<1>3. g \in [S -> R]
  BY <1>2
<1>4. \A x \in S, y \in S : g[x] = g[y] => x = y
  BY <1>2 DEF UniqueIds
<1>5. \A z \in R : \E x \in S : z = g[x]
  <2> TAKE z \in R
  <2>1. PICK x \in S : x.id = z.id
    BY DEF SameIds
  <2> QED
    BY <1>2, <2>1 DEF UniqueIds
<1>6. \A x \in S : h[g[x]] = f[x]
  BY <1>2
<1> HIDE DEF g
<1>7. Pairs(g, S, R)
  BY <1>3, <1>4, <1>5 DEF Pairs
<1> QED
  BY <1>6, <1>7, SumBijection

(* and there are as many. *)
LEMMA CardinalityById ==
  ASSUME NEW S, IsFiniteSet(S), NEW R, UniqueIds(S), UniqueIds(R), SameIds(S, R)
  PROVE  IsFiniteSet(R) /\ Cardinality(R) = Cardinality(S)
<1> DEFINE g == [x \in S |-> CHOOSE y \in R : y.id = x.id]
<1>1. \A x \in S : \E y \in R : y.id = x.id
  BY DEF SameIds
<1>2. \A x \in S : g[x] \in R /\ g[x].id = x.id
  BY <1>1
<1>3. g \in [S -> R]
  BY <1>2
<1>4. \A x, y \in S : g[x] = g[y] => x = y
  BY <1>2 DEF UniqueIds
<1>5. \A z \in R : \E x \in S : g[x] = z
  <2> TAKE z \in R
  <2>1. PICK x \in S : x.id = z.id
    BY DEF SameIds
  <2> QED
    BY <1>2, <2>1 DEF UniqueIds
<1> HIDE DEF g
<1>6. g \in Bijection(S, R)
  BY <1>3, <1>4, <1>5 DEF Bijection, Injection, Surjection, IsInjective
<1>7. ExistsBijection(S, R)
  BY <1>6 DEF ExistsBijection
<1> QED
  BY <1>7, FS_Bijection
=============================================================================
