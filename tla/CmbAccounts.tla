----------------------------- MODULE CmbAccounts -----------------------------
(***************************************************************************)
(* services/conflux_pay.go:130-178, models/cmb_deposit_no.go: the deposit  *)
(* account that a user has at the bank, and the card whose transfers the   *)
(* bank books on it.  A call changes the bank first, then the row that     *)
(* says so; each may fail, and the bank may have done what it gave an      *)
(* error for. Deposit is about the transfers, which are credited to the    *)
(* user of the row.                                                        *)
(***************************************************************************)
EXTENDS Naturals, FiniteSets

CONSTANTS
  User, Card,
  Digits,              \* the random part of an account's number
  MaxRows, MaxBankFaults   \* bounds on the calls that open accounts and on failures

ASSUME AccountsAssumption == MaxRows \in Nat /\ MaxBankFaults \in Nat

VARIABLES
  opened,     \* accounts at the bank
  relation,   \* the account of a card, at the bank
  depositNos, \* rows of cmb_deposit_nos
  calls,      \* CreateCmcDepositNo and UpdateCmcDepositNoRelation, under way
  bankFaults,
  orphaned,   \* history: accounts whose row was not saved
  taken       \* history: cards that a user has bound, and another one since

accountVars == <<opened, relation, depositNos, calls, bankFaults, orphaned, taken>>

InitAccounts ==
  /\ opened = {} /\ relation = [k \in {} |-> {}] /\ depositNos = {} /\ calls = {}
  /\ bankFaults = 0
  /\ orphaned = {} /\ taken = {}

CmbNo(u, d) == [user |-> u, digits |-> d]
NewRow(u, card, no) == [id |-> Cardinality(depositNos) + 1, user |-> u, card |-> card, no |-> no]
FindByUserId(u) ==
  {r \in depositNos : r.user = u /\ \A o \in depositNos : o.user = u => r.id <= o.id}
FindByCmbNo(no) == {r \in depositNos : r.no = no}
Busy == Cardinality({c \in calls : c.id = 0}) + Cardinality(depositNos) + Cardinality(orphaned)
To(c, pc) == (calls \ {c}) \cup {[c EXCEPT !.pc = pc]}

(* A number is drawn at random; a user may call twice at once. *)
CreateCmcDepositNo(u, card, d) ==
  /\ Busy < MaxRows
  /\ calls' = calls \cup {[id |-> 0, user |-> u, card |-> card, no |-> CmbNo(u, d), pc |-> "open"]}
  /\ UNCHANGED <<opened, relation, depositNos, bankFaults, orphaned, taken>>

(* Faulty variant: a card that another row has is not bound. *)
DiffersFromAll(r, card) == \A o \in depositNos : o.card # card
Differs(r, card) == r.card # card
UpdateCmcDepositNoRelation(u, card) ==
  /\ \A c \in calls : ~(c.user = u /\ c.card = card /\ c.id > 0)
  /\ \E r \in FindByUserId(u) :
       calls' = calls \cup {[id |-> r.id, user |-> u, card |-> card, no |-> r.no,
                             pc |-> IF Differs(r, card) THEN "relate" ELSE "save"]}
  /\ UNCHANGED <<opened, relation, depositNos, bankFaults, orphaned, taken>>

(* addCmbUnitAccount; the bank refuses a number that it knows. *)
Add(c) ==
  /\ c.pc = "open" /\ c.no \notin opened
  /\ opened' = opened \cup {c.no}
  /\ calls' = To(c, "relate")
  /\ UNCHANGED <<relation, depositNos, bankFaults, orphaned, taken>>

(* setCmbUnitAccountRelation *)
Bind(c) ==
  /\ relation' = [k \in DOMAIN relation \cup {c.card} |->
                    IF k = c.card THEN c.no ELSE relation[k]]
  /\ taken' = (taken \cup {<<k, relation[k].user>> : k \in DOMAIN relation \cap {c.card}})
                \ {<<c.card, c.user>>}
Relate(c) ==
  /\ c.pc = "relate"
  /\ Bind(c)
  /\ calls' = To(c, "save")
  /\ UNCHANGED <<opened, depositNos, bankFaults, orphaned>>

(* Faulty variant: a user has one row. *)
SavedForUser(c) ==
  {r \in depositNos : r.user # c.user} \cup {NewRow(c.user, c.card, c.no)}
(* An update saves the row that it has read. *)
Saved(c) ==
  IF c.id = 0 THEN depositNos \cup {NewRow(c.user, c.card, c.no)}
  ELSE {r \in depositNos : r.id # c.id} \cup
         {[id |-> c.id, user |-> c.user, card |-> c.card, no |-> c.no]}
Save(c) ==
  /\ c.pc = "save"
  /\ depositNos' = Saved(c)
  /\ calls' = calls \ {c}
  /\ UNCHANGED <<opened, relation, bankFaults, orphaned, taken>>

(* An error ends the call, and so does the death of the server. *)
Fails(c) ==
  /\ calls' = calls \ {c}
  /\ bankFaults < MaxBankFaults /\ bankFaults' = bankFaults + 1
  /\ \/ UNCHANGED <<opened, relation, taken>>
     \/ /\ c.pc = "open" /\ c.no \notin opened /\ opened' = opened \cup {c.no}
        /\ UNCHANGED <<relation, taken>>
     \/ c.pc = "relate" /\ Bind(c) /\ UNCHANGED opened
  /\ orphaned' = orphaned \cup
       IF c.id = 0 /\ (c.pc # "open" \/ opened' # opened) THEN {c.no} ELSE {}
  /\ UNCHANGED depositNos

Refused(c) ==
  /\ c.pc = "open" /\ c.no \in opened
  /\ calls' = calls \ {c}
  /\ UNCHANGED <<opened, relation, depositNos, bankFaults, orphaned, taken>>

NextAccounts ==
  \/ \E u \in User, card \in Card :
       UpdateCmcDepositNoRelation(u, card) \/ \E d \in Digits : CreateCmcDepositNo(u, card, d)
  \/ \E c \in calls : Add(c) \/ Relate(c) \/ Save(c) \/ Fails(c) \/ Refused(c)

AccountsSpec == InitAccounts /\ [][NextAccounts]_accountVars
-----------------------------------------------------------------------------
Number == [user : User, digits : Digits]

(* Every variable keeps its type; rows, and the calls on them, have ids of their own. *)
AccountsTypeOK ==
  /\ opened \subseteq Number /\ orphaned \subseteq Number
  /\ DOMAIN relation \subseteq Card /\ relation \in [DOMAIN relation -> opened]
  /\ IsFiniteSet(depositNos)
  /\ depositNos \subseteq [id : 1 .. Cardinality(depositNos), user : User, card : Card, no : opened]
  /\ \A r, s \in depositNos : r.id = s.id => r = s
  /\ calls \subseteq [id : 0 .. Cardinality(depositNos), user : User, card : Card, no : Number,
                      pc : {"open", "relate", "save"}]
  /\ bankFaults \in 0 .. MaxBankFaults /\ taken \subseteq Card \X User

(* conflux_pay.go:136-158, 258: a transfer that the bank books on an account finds the
   row of the account, and by it its user, so that it can be credited; but while the
   account is being opened, and for ever after its row could not be saved. *)
TransferFindsUser ==
  \A card \in DOMAIN relation :
    LET no == relation[card]
    IN \/ \E r \in FindByCmbNo(no) : r.user = no.user
       \/ no \in orphaned \/ \E c \in calls : c.no = no

(* conflux_pay.go:167: the card that the row of a user shows pays into an account of
   his, however calls overlap and fail; unless another user has bound the card since:
   then a call with the same card changes nothing at the bank. *)
ShownCardPays ==
  \A r \in depositNos : <<r.card, r.user>> \notin taken =>
    r.card \in DOMAIN relation /\ relation[r.card].user = r.user
=============================================================================
