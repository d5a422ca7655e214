SPECIFICATION Spec
CONSTANTS
  me = me
  other = other
  NoList = NoList
  NoCode = NoCode
  NoKey = NoKey
  Accounts <- MCAccounts
  Words <- MCWords
  MaxWords = 6
  Disk <- MCDisk
  CodeFiles <- MCTexts
  SlotFiles <- MCSlots
  SignatureFiles <- MCSignatures
  Addresses <- MCAddresses
  Apps <- MCApps
  Matching = {"a"}
CHECK_DEADLOCK FALSE
INVARIANTS
  RightRoadToTheKey
  OtherAccountIsSaid
  ZeroMeansAll
  AsksOnlyWhatWasAsked
