CONSTANTS
  User = {1}
  App = {7}
  CostType = {1, 2}
  Plan = {1, 2, 3}
  OwnerOf <- MCOwnerOf
  ServerOf <- MCServerOf
  PlanOf <- MCPlanOf
  FirstPlan <- MCFirstPlan
  MaxKeys = 2
  MaxRow <- MCMaxRow
  MaxCalls = 1
  MaxFaults = 2
SPECIFICATION Spec
INVARIANTS
  KeysFollow
  PlanServed
  CountsAreCalls
CHECK_DEADLOCK FALSE
