CONSTANTS
  alice = alice
  mint = mint
  query = query
  NoCost = NoCost
  User = {alice}
  CostType = {mint, query}
  Postings <- Everything
  Deposited <- PaidIn
  Page = 2
  MaxRows = 5
  MaxDay = 2
  MaxFaults = 1
SPECIFICATION FairSpec
INVARIANTS
  MergedOnce
  RefundsMatched
  AmountsKept
  LogSynced
PROPERTIES
  EverythingMerged
CHECK_DEADLOCK FALSE
