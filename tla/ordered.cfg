SPECIFICATION Spec
CONSTANTS
  Keys = {1, 2}
  PodSets = {"a"}
  MaxReplicas = 2
  Uids = {0}
  Priorities <- mcTwoPriorities
  Callers = {loop}
  Loop = loop
  Dequeuers = {}
  loop = loop
  MaxInfos = 6
  Quotas = {"q1"}
  QuotaOf <- mcSameQuota
  Confs <- mcBothPolicies
  QueueUnitActive = TRUE
  ReclaimProtect = FALSE
  ResetTimeouts = FALSE
  MaxEvents = 1
  InitCounts <- mcOneOfA
  Env = {"apiErrors", "priority", "activation", "settings"}
INVARIANTS IndexedUnitsListed PendingUnitsQueued
CONSTRAINT mcListed
