SPECIFICATION FairSpec
CONSTANTS
  Jobs = {j1}
  NoJob = NoJob
  Concurrency = 1
  MaxClaims = 3
  MaxAttempts = 2
  MaxFaults = 2
  Stalls = FALSE
  OwnershipLoss = FALSE
  Kinds <- AllKinds
INVARIANTS
  TypeOK
  LeaseLedger
  AtMostOnceUnsafe
  OutcomeHonest
  ProjectionAgrees
  SingleOwner
PROPERTIES
  ImplementsJobLife
  EventuallySettled
