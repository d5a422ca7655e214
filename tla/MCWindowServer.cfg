SPECIFICATION ServerSpec
CONSTANTS
  net = net
  usb = usb
  s1 = s1
  s2 = s2
  r1 = r1
  r2 = r2
  x1 = x1
  NoList = NoList
  Lists = {net}
  Size <- OneFile
  Starts = {"arg"}
  First = net
  Slots = {s1, s2}
  Threads = {r1}
  MaxMaps = 1
  MaxRestores = 1
  SpawnFails = FALSE
  Patience = {FALSE}
  Strangers = {x1}
  StrangerSends <- MCSends
  MaxStrangers = 1
  MaxConnections = 2
  MaxHead = 1
CHECK_DEADLOCK FALSE
INVARIANTS
  RestoringIsTrue
  CountIsTrue
PROPERTIES
  RestoringEnds
  PageIsServedAgain
  ClosedIsClosed
