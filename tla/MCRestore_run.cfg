SPECIFICATION FairSpec
CONSTANTS
  i1 = i1
  i2 = i2
  i3 = i3
  i4 = i4
  w1 = w1
  w2 = w2
  NoFile = NoFile
  NoIndex = NoIndex
  NoHash = NoHash
  NoStream = NoStream
  Old = Old
  Hole = Hole
  Workers = {w1}
  Queue <- QueueADCB
  Headers <- MCHeaders
  Paths <- MCPaths
  Inodes = {i1, i2, i3, i4}
  InitialDirs <- MCDirs
  Overwrite = FALSE
  Healthy = {"B"}
  DiskFaults = {"mkdir", "create", "write", "rename", "remove"}
  MaxCrashes = 1
  MaxIntrusions = 0
CHECK_DEADLOCK FALSE
INVARIANTS
  FinishedIsWhole
  ReportedIsThere
  FailureCostsOneFile
PROPERTIES
  KeepsPromise
  EveryFileIsSettled
