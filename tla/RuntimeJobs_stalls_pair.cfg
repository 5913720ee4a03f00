SPECIFICATION Spec
CONSTANTS
  Jobs = {j1, j2}
  NoJob = NoJob
  Concurrency = 1
  MaxClaims = 2
  MaxAttempts = 2
  MaxFaults = 1
  Stalls = TRUE
  OwnershipLoss = TRUE
  Kinds <- UnsafeKinds
SYMMETRY Identical
INVARIANTS
  Capacity
PROPERTIES
  StaleNeverSettles
