CONSTANTS
  MaxTurns = 2
  MaxItems = 3
  MaxTexts = 2
  MaxRequests = 1
  MaxBatches = 3
  Starts = {"snapshot", "nothing"}
SPECIFICATION Spec
INVARIANTS PublicFollows OnlyPublic
CHECK_DEADLOCK FALSE
