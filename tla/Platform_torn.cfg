SPECIFICATION FairSpec
CONSTANTS
  Parts = {"workspace"}
  Instances = {"a", "b", "c", "d"}
  Host <- HostOf
  MaxStalls = 2
  MaxTroubles = 2
  MaxStops = 1
  Approvers = {"a1", "a2"}
  Deniers = {"d1"}
  Cancellers = {"c1"}
  ApprovalFaults = 2
  Editors = {"p1", "p2"}
  Documents = {"f", "g"}
  MaxBoundaries = 2
  Lockers = {"l1", "l2", "l3", "l4"}
  MaxDeaths = 2
  MaxWrites = 2
  DirectGateway = TRUE
  MaxQueue = 2
  MaxBatch = 2
  Flushers = {"f1"}
  MaxRecords = 3
  Messages = {"m", "n"}
  Conversations = {"m", "n"}
  ConversationOf <- OwnConversation
  MaxConcurrency = 1
  MaxPendingPerConversation = 2
  MaxAttempts = 2
  MaxDeliveries = 3
  MaxMishaps = 2
  Commands = {"i1", "i2"}
  Tokens = {"t1", "t2"}
  UnixVersions = {1, 2}
  UnixFirst = 0
  UnixRuns = 2
  WindowsVersions = {1, 2, 3}
  WindowsFirst = 2
  WindowsRuns = 1
  InstallFaults = 1
  ActivationAttempts = 1
PROPERTIES HalfDoneReviewed
CHECK_DEADLOCK FALSE
