CONSTANTS
  c1 = c1
  c2 = c2
  tA = tA
  tB = tB
  m1 = m1
  m2 = m2
  Chats = {c1}
  Threads = {tA, tB}
  Msgs = {m1, m2}
  Home <- Writer
  Slots = {1, 2}
  AskKinds = {"input"}
  Legacy = {TRUE, FALSE}
  MaxCalls = 2
  MaxAsks = 1
  MaxChanges = 2
  Events = {"give up", "move", "rebind"}
  MaxEvents = 1
SYMMETRY Symmetric
SPECIFICATION Spec
INVARIANTS TakenOnce NoSilentLoss InOrder ResolvedDecided
CHECK_DEADLOCK FALSE
