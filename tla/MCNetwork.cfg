SPECIFICATION NetworkSpec
CONSTANTS
  NoList = NoList
  Owners <- MCOwners
  Rpcs <- OneNetwork
  Aggregators <- TestFirst
  Home = "main"
  Ledgers <- MCLedgers
  Quilts <- MCQuilts
  Patch <- MCPatch
  PageSize = 2
  MaxPages = 2
  Steadies <- MCSteadies
  Nobody = Nobody
  Wanted <- MCWanted
  Addresses <- MCAddresses
  Https = {"main", "test", "old1", "new"}
  Defaults <- MCDefaults
  OnChain <- MCOnChain
  KnownChains = {"calibration", "mainnet"}
  Companies = {"c1", "c2"}
CHECK_DEADLOCK FALSE
INVARIANTS
  SilenceMeansBest
  OthersStillCount
  TieIsReported
  OnePlaceIsEnough
  HeldBackIsNotAsked
PROPERTIES
  OnlyForABetterOne
  GivesOneAnswer
