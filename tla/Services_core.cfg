SPECIFICATION FairSpec
CONSTANTS
  Parts = {"graph", "mcp", "process", "sandbox"}
  MaxExecutions = 3
  MaxFaults = 3
  Nodes = {"n1", "n2", "n3"}
  DependsOn <- OneWaits
  Concurrency = 2
  Slots = 2
  GraphFaults = 1
  Calls = {"c1", "c2"}
  MaxConcurrency = 1
  Versions = {1, 2}
  MaxChanges = 1
  MaxDiscoveries = 2
  HostFaults = 1
INVARIANTS TypesOK GraphTruth McpTruth NoStray BoxesKnown
PROPERTIES GraphFenced StopsHold NobodyWaits
CHECK_DEADLOCK FALSE
