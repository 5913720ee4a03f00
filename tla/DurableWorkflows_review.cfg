SPECIFICATION FairSpec
CONSTANTS
  r1 = r1
  a = a
  b = b
  Runs = {r1}
  Steps = {a, b}
  RunOf <- OneRun
  DependsOn <- Apart
  Kinds <- Redactable
  Concurrency = 1
  MaxAttempts = 2
  Misses = FALSE
  MaxClaims = 2
  MaxFaults = 0
PROPERTIES
  ReviewStays
