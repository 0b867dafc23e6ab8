CONSTANTS
  MaxServers = 3
  MaxStarts = 2
  Starts = {"terminal", "lark"}
  Kills = {"terminal", "lark"}
  Events = {"exit", "crash", "slow"}
  MaxEvents = 2
SPECIFICATION Spec
INVARIANTS OneInTmux Found KilledInTmux
CHECK_DEADLOCK FALSE
