SPECIFICATION SumSpec
CONSTANTS
  Parts = {"sandbox"}
  MaxExecutions = 1
  MaxFaults = 0
  Nodes = {"n1", "n2", "n3"}
  DependsOn <- OneWaits
  Concurrency = 2
  Slots = 2
  GraphFaults = 1
  Calls = {"c1", "c2"}
  MaxConcurrency = 1
  Versions = {1, 2}
  MaxChanges = 1
  MaxDiscoveries = 2
  HostFaults = 1
INVARIANTS AmbiguityKept
CHECK_DEADLOCK FALSE
