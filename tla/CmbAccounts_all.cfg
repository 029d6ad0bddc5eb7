CONSTANTS
  alice = alice
  bob = bob
  visa = visa
  union = union
  User = {alice, bob}
  Card = {visa, union}
  Digits = {1, 2}
  MaxRows = 3
  MaxBankFaults = 2
SYMMETRY Symmetry
SPECIFICATION AccountsSpec
INVARIANTS
  TransferFindsUser
  ShownCardPays
CHECK_DEADLOCK FALSE
