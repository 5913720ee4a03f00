SPECIFICATION Spec
CONSTANTS
  Jobs = {j1, j2, j3}
  Lanes = {a, b}
  NoLane = NoLane
  Concurrency = 2
  MaxPending = 3
  MaxPendingPerLane = 3
  MaxPendingBytes = 3
  Sizes = {1}
  MaxFaults = 2
SYMMETRY Identical
INVARIANTS
  TypeOK
  LaneExclusive
  LaneOrder
  OutcomeTold
CHECK_DEADLOCK FALSE
