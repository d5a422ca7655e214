SPECIFICATION Spec
CONSTANTS
  net = net
  usb = usb
  s1 = s1
  s2 = s2
  r1 = r1
  r2 = r2
  NoList = NoList
  Lists = {net, usb}
  Size <- MCSize
  Starts = {"seed", "arg"}
  First = net
  Slots = {s1, s2}
  Threads = {r1, r2}
  MaxMaps = 2
  MaxRestores = 2
  SpawnFails = TRUE
  Patience = {TRUE, FALSE}
CHECK_DEADLOCK FALSE
SYMMETRY Alike
INVARIANTS
  NoForeignBundle
  PromptIsThere
  ReadyHasItsList
  FinishedAddsUp
  OneRestore
