CONSTANTS
  root = root
  child = child
  u1 = u1
  u2 = u2
  Threads = {root, child}
  Children = {child}
  Session <- RootSession
  Users = {u1}
  Turns = {"a", "c"}
  Author <- TurnAuthor
  Undated = {}
  Legacy = {root, child}
  MaxDelivered = 4
  EvictCount = 2
  FaultKinds = {"crash", "refuse", "lost", "provider", "index", "torn", "move"}
  MaxFaults = 2
  MaxClock = 2
SPECIFICATION FairSpec
INVARIANTS NoChildNotified
PROPERTIES ImplementsOutbox EveryCompletionShown
CHECK_DEADLOCK FALSE
