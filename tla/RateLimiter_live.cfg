SPECIFICATION FairSpec
CONSTANTS
  c1 = c1
  c2 = c2
  c3 = c3
  Calls = {c1, c2, c3}
  Resolved = Resolved
  Capacity = 2
  RefillPerSec = 2
  MsPerSec = 3
  MaxLag = 1
  LastArrival = 3
  MaxTime = 12
  MaxJumped = 1
  MaxSetBack = 2
CHECK_DEADLOCK FALSE
PROPERTIES
  Served
  ImplementsPacedGrants
