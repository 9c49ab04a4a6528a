SPECIFICATION Spec
CONSTANTS
  Keys = {1}
  PodSets = {"a"}
  MaxReplicas = 2
  Uids = {0}
  Priorities <- mcNil
  Callers = {loop, d1}
  Loop = loop
  Dequeuers = {d1}
  loop = loop
  d1 = d1
  MaxInfos = 6
  Quotas = {"q1"}
  QuotaOf <- mcSameQuota
  Confs <- mcPriority
  QueueUnitActive = TRUE
  ReclaimProtect = FALSE
  ResetTimeouts = FALSE
  MaxEvents = 1
  InitCounts <- mcTwo
  Env = {"deadline", "partialRun", "running", "finished", "backoff", "timeout", "restart"}
INVARIANTS QueueMatchesIndex PendingUnitsQueued
CONSTRAINT mcBounded
