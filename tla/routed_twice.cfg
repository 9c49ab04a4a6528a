SPECIFICATION Spec
CONSTANTS
  Keys = {1}
  PodSets = {"a"}
  MaxReplicas = 2
  Uids = {0}
  Priorities <- mcTwoPriorities
  Callers = {loop, d1, d2}
  Loop = loop
  Dequeuers = {d1, d2}
  loop = loop
  d1 = d1
  d2 = d2
  MaxInfos = 6
  Quotas = {"q1"}
  QuotaOf <- mcSameQuota
  Confs <- mcPriority
  QueueUnitActive = FALSE
  ReclaimProtect = FALSE
  ResetTimeouts = FALSE
  MaxEvents = 2
  InitCounts <- mcOneOfA
  Env = {}
INVARIANT OneDequeueInFlight
CONSTRAINT mcBounded
SYMMETRY mcSymmetry
