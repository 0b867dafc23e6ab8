CONSTANTS
  p = p
  g = g
  s1 = s1
  s2 = s2
  Private = {p}
  Groups = {g}
  Sessions = {s1, s2}
  Slots = {1, 2}
  Commands = {"attach", "detach", "list detach", "start", "new group", "kill", "disband", "message", "desktop"}
  MaxCommands = 3
  MaxBridges = 4
  Events = {"die", "slow", "restart"}
  MaxEvents = 1
SPECIFICATION FairSpec
INVARIANTS OneConnection  BoundWhereConnected FilesCurrent
PROPERTY DeadUnbound
CHECK_DEADLOCK FALSE
