SPECIFICATION Spec
CONSTANTS
  NoList = NoList
  Owners <- MCOwners
  Rpcs <- BothNetworks
  Aggregators <- TestFirst
  Home = "main"
  Ledgers <- MCLedgers
  Quilts <- MCQuilts
  Patch <- MCPatch
  PageSize = 2
  MaxPages = 2
  Steadies <- MCSteadies
CHECK_DEADLOCK FALSE
INVARIANTS
  SilenceMeansBest
