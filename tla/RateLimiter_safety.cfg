SPECIFICATION Spec
CONSTANTS
  c1 = c1
  c2 = c2
  c3 = c3
  c4 = c4
  Calls = {c1, c2, c3, c4}
  Resolved = Resolved
  Capacity = 2
  RefillPerSec = 2
  MsPerSec = 5
  MaxLag = 1
  LastArrival = 5
  MaxTime = 18
  MaxJumped = 1
  MaxSetBack = 2
SYMMETRY CallSymmetry
INVARIANTS
  TypeOK
  OneReservation
  FifoService
  PacedInRealTime
  ServiceGap
