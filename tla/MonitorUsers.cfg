CONSTANTS
  root = root
  child = child
  u1 = u1
  u2 = u2
  Threads = {root}
  Children = {}
  Session <- RootSession
  Users = {u1, u2}
  Turns = {"a", "b"}
  Author <- TurnAuthor
  Undated = {}
  Legacy = {}
  MaxDelivered = 1
  EvictCount = 1
  FaultKinds = {"crash", "save", "refuse", "lost", "move", "replace", "truncate"}
  MaxFaults = 2
  MaxClock = 4
SPECIFICATION Spec
INVARIANTS NoLostCompletion SettledStaysOut ConfirmedNotOwed
PROPERTIES HistoryNotShown
CHECK_DEADLOCK FALSE
