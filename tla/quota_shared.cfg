SPECIFICATION Spec
CONSTANTS
  UnitIds = {"u1", "u2"}
  Quotas = {"root", "top", "a", "b"}
  Root = "root"
  Resources = {"cpu"}
  Amounts <- mcAmounts
  Limits <- mcLimits
  Oversell = 100
  Loops = {1, 2}
  QueueOf <- mcTwoQueues
  Request <- mcRequest
  InitLabels <- mcOwnLeaf
  InitTree <- mcTree
  QuotaWrites <- mcNoWrites
  MaxEvents = 2
  Env = {}
INVARIANT AdmittedWithinMax
CHECK_DEADLOCK FALSE
