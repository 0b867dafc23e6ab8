CONSTANTS
  c1 = c1
  c2 = c2
  c3 = c3
  tA = tA
  tB = tB
  Chats = {c1}
  Threads = {tA}
  Home = tA
  Residents = {c1}
  UserOps = {"select", "latest", "refresh"}
  Overlap = TRUE
  FaultKinds = {"refuse", "lost"}
  MaxChanges = 2
  MaxOps = 1
  MaxFaults = 1
  MaxFlushes = 1
SPECIFICATION FairSpec
PROPERTIES
  ProjectionNeverOlder
  CardsCatchUp
CHECK_DEADLOCK FALSE
