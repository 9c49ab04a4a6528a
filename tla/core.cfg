SPECIFICATION Spec
CONSTANTS
  Keys = {1, 2}
  PodSets = {"a"}
  MaxReplicas = 2
  Uids = {0}
  Priorities <- mcNil
  Callers = {loop, d1, d2}
  Loop = loop
  Dequeuers = {d1, d2}
  loop = loop
  d1 = d1
  d2 = d2
  MaxInfos = 6
  Quotas = {"q1"}
  QuotaOf <- mcSameQuota
  Confs <- mcAll
  QueueUnitActive = FALSE
  ReclaimProtect = TRUE
  ResetTimeouts = TRUE
  MaxEvents = 2
  InitCounts <- mcOneOfA
  Env = {"delete", "podDeleted"}
INVARIANTS TypeOK OneDequeueInFlight  QueueMatchesIndex
  PendingUnitsQueued QueueCopyIsCurrent NotStuckUpdating  AssumedCoversStarting
CONSTRAINT mcBounded
SYMMETRY mcSymmetry
