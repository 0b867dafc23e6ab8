CONSTANTS
  c1 = c1
  c2 = c2
  c3 = c3
  tA = tA
  tB = tB
  Chats = {c1, c2, c3}
  Threads = {tA, tB}
  Home = tA
  Residents = {c1, c2}
  UserOps = {"attach", "switch", "detach"}
  Overlap = FALSE
  FaultKinds = {"owner", "follow", "post"}
  MaxChanges = 0
  MaxOps = 2
  MaxFaults = 1
  MaxFlushes = 2
SPECIFICATION Spec
INVARIANTS
  FollowsBound QuietCardCurrent
CHECK_DEADLOCK FALSE
