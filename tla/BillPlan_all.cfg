CONSTANTS
  free = free
  basic = basic
  pro = pro
  c1 = c1
  c2 = c2
  cron = cron
  u1 = u1
  User = {u1}
  Plan = {free, basic, pro}
  Purchases <- MCPurchases
  Switches <- MCSwitches
  Default = free
  Price <- MCPrice
  Priority <- MCPriority
  Count <- MCCount
  EffectivePeroid <- MCEffectivePeroid
  RefreshQuotaSchedule <- MCRefreshQuotaSchedule
  MonthDays = 1
  YearMonths = 2
  Call = {c1, c2}
  Cron = cron
  Funds = {4}
  Tries = 2
  MaxDay = 2
  MaxCalls = 2
  MaxFaults = 1
SPECIFICATION FairSpec
INVARIANTS
  PurchaseKept
  PaidQuotaGiven
  RedisPlanCurrent
PROPERTIES
  NightlyRunsCatchUp
