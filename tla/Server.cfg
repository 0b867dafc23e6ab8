CONSTANTS
  c1 = c1
  c2 = c2
  Clients = {c1, c2}
  Water = 1
  MaxHistory = 1
  MaxChunks = 3
  MaxInputs = 1
  Events = {"leave", "hang", "signal"}
  MaxEvents = 1
SPECIFICATION FairSpec
INVARIANTS NoGap
PROPERTIES EverythingReaches ExitEnds
CHECK_DEADLOCK FALSE
