SPECIFICATION FairSpec
CONSTANTS
  Keys = {1, 2}
  PodSets = {"a"}
  MaxReplicas = 2
  Uids = {0}
  Priorities <- mcNil
  Callers = {loop, d1}
  Loop = loop
  Dequeuers = {d1}
  loop = loop
  d1 = d1
  MaxInfos = 6
  Quotas = {"q1"}
  QuotaOf <- mcSameQuota
  Confs <- mcLive
  QueueUnitActive = FALSE
  ReclaimProtect = FALSE
  ResetTimeouts = FALSE
  MaxEvents = 1
  InitCounts <- mcOneOfA
  Env = {"delete"}
PROPERTY PendingUnitsAreTried
