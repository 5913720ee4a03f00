SPECIFICATION Spec
CONSTANTS
  Jobs = {j1}
  NoJob = NoJob
  Concurrency = 1
  MaxClaims = 3
  MaxAttempts = 2
  MaxFaults = 1
  Stalls = FALSE
  OwnershipLoss = TRUE
  Kinds <- UnsafeKinds
INVARIANTS
  InterruptedNeedsReview
