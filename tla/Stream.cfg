CONSTANTS
  CardBlocks = 2
  Window = 1
  SizeLimit = 3
  Big = {{2}}
  BigSize = 3
  MaxBlocks = 3
  MaxEdits = 2
  MaxStops = 1
  Faults = {"fail", "lost reply", "elements"}
  MaxFaults = 1
SPECIFICATION FairSpec
INVARIANTS NothingLeftOut OneLiveCard NoneOutOfOrder
PROPERTIES Settles
CHECK_DEADLOCK FALSE
