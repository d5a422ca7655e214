SPECIFICATION Spec
CONSTANTS
  i1 = i1
  i2 = i2
  i3 = i3
  i4 = i4
  w1 = w1
  w2 = w2
  NoFile = NoFile
  NoIndex = NoIndex
  NoHash = NoHash
  NoStream = NoStream
  Old = Old
  Hole = Hole
  Workers = {w1, w2}
  Queue <- QueueAB
  Headers <- MCHeaders
  Paths <- MCPaths
  Inodes = {i1, i2, i3, i4}
  InitialDirs <- DirsB
  Overwrite = TRUE
  Healthy = {}
  DiskFaults = {"write", "rename"}
  MaxCrashes = 0
  MaxIntrusions = 1
CHECK_DEADLOCK FALSE
INVARIANTS
  ReportedIsThere
