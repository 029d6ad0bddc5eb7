CONSTANTS
  alice = alice
  mint = mint
  query = query
  Fen = 10
  User = {alice}
  CostType = {mint, query}
  Price <- MCPrice
  Arrears <- MCArrears
  InitialBalance <- MCInitialBalance
  InitialQuota <- MCInitialQuota
  CallSizes = {1, 2}
  DepositAmounts = {10}
  WithdrawAmounts = {}
  RolloverCounts = {1}
  RefundCounts = {1, 2}
  PlanQuotas <- NoQuotas
  MaxCalls = 4
  MaxMoves = 1
  MaxResets = 0
  MaxRefunds = 1
  MaxFaults = 0
  MaxCount = 4
SPECIFICATION Spec
INVARIANTS
  TypeOK
  RefundsCovered
  NeverOverdraws
PROPERTIES
  ImplementsMeter
