SPECIFICATION SumSpec
CONSTANTS
  Parts = {"workflow", "chain", "ingress", "cron", "lanes"}
  r1 = r1
  a = a
  b = b
  Runs = {r1}
  Steps = {a, b}
  RunOf <- OneRun
  DependsOn <- Apart
  Kinds <- Mixed
  Concurrency = 2
  MaxAttempts = 2
  Misses = FALSE
  MaxClaims = 2
  MaxFaults = 1
  MaxTroubles = 1
  Watches = {w1}
  Matches <- SecondEvent
  Schedules = {s1}
  Occurrences <- TwoInstants
  MaxWatches = 2
  MaxEvents = 2
  MaxInstant = 3
  Crons = {c1}
  p1 = p1
  Plans = {p1, p2}
  Occurs <- OneShared
  MaxSchedules = 1
  MaxClock = 3
  MaxChanges = 2
  Jobs = {j1, j2}
  LaneNames = {l1, l2}
  NoLane = NoLane
  Workers = 1
  MaxPending = 2
  MaxPendingPerLane = 2
  MaxPendingBytes = 2
  Sizes = {1}
INVARIANTS TypesOK NothingLost EffectfulOnce OutcomeKnown RunAgrees
PROPERTIES OutcomesTrue AllSettles NoneForgotten
CHECK_DEADLOCK FALSE
