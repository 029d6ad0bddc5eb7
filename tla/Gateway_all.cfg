CONSTANTS
  normal = normal
  mint = mint
  old = old
  new = new
  h1 = h1
  h2 = h2
  User = {old, new}
  CostType = {normal, mint}
  Mint = mint
  Old = {old}
  Post = {old}
  Price <- MCPrice
  MintPrice = 1
  DefaultQuota <- MCDefaultQuota
  Funds = {1}
  Handler = {h1, h2}
  MaxCalls = 1
  MaxMoves = 1
  MaxRequests = 2
  MaxFaults = 1
SPECIFICATION FairSpec
INVARIANTS
  FlagRecent
  OneRowEach
PROPERTIES
  PanicsOnce
  FlagFollows
  CallsCharged
CHECK_DEADLOCK FALSE
