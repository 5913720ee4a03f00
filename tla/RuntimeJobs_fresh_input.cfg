SPECIFICATION Spec
CONSTANTS
  Jobs = {j1, j2, j3}
  NoJob = NoJob
  Concurrency = 1
  MaxClaims = 3
  MaxAttempts = 2
  MaxFaults = 1
  Stalls = FALSE
  OwnershipLoss = FALSE
  Kinds <- VolatileKinds
PROPERTIES
  FreshInputKept
SYMMETRY Identical
