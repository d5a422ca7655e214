SPECIFICATION CryptoSpec
CONSTANTS
  Nothing = Nothing
  Streams <- MCStreams
  Places <- MCPlaces
  ChunkSize = 2
  TagLen = 1
  Dek = "key"
  MaxPush = 3
  MaxJumps = 2
  MaxSpoiled = 1
  Identities <- MCIdentities
  Address <- MCAddress
  Texts <- MCTexts
  Bundles <- MCBundles
  Columns <- MCColumns
  MaxSent = 2
  Nobody = Nobody
  NoBundle = NoBundle
  Undecodable = Undecodable
  LowOrder = LowOrder
INVARIANTS
  SealedIsReference
  GivenIsPrefix
  WholeIsWhole
  HonestStorageIsEnough
  RangedReadIsRight
  SlipIsTold
  OnlyTheOneMeant
  OpenedIsWhatWasSent
