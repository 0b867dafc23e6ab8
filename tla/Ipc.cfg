CONSTANTS
  c1 = c1
  c2 = c2
  t1 = t1
  t2 = t2
  Threads = {t1}
  Calls = {c1, c2}
  Ops = {"follow", "unfollow", "request", "disconnect"}
  MaxOps = 2
  MaxConnections = 5
  MaxFaults = 2
  MaxStatus = 1
  MaxChanges = 1
  ResyncLimit = 2
SPECIFICATION FairSpec
INVARIANTS ConnectedIsRead FollowedByDesktop GapNoticed
PROPERTIES CallsEnd Reconnects
CHECK_DEADLOCK FALSE
