CONSTANTS
  alice = alice
  mint = mint
  query = query
  Fen = 10
  User = {alice}
  CostType = {mint, query}
  Price <- PostPaid
  Arrears <- MCArrears
  InitialBalance <- MCInitialBalance
  InitialQuota <- MCInitialQuota
  CallSizes = {1}
  DepositAmounts = {10}
  WithdrawAmounts = {10}
  RolloverCounts = {}
  RefundCounts = {1}
  PlanQuotas <- BothPlans
  MaxCalls = 2
  MaxMoves = 1
  MaxResets = 1
  MaxRefunds = 1
  MaxFaults = 1
  MaxCount = 4
SPECIFICATION FairSpec
INVARIANTS
  NoFreeCalls
PROPERTIES
  EverythingSettled
