SPECIFICATION Spec
CONSTANTS
  UnitIds = {"u1", "u2"}
  Quotas = {"root", "top", "a", "b"}
  Root = "root"
  Resources = {"cpu"}
  Amounts <- mcAmounts
  Limits <- mcLimits
  Oversell = 100
  Loops = {1}
  QueueOf <- mcOneQueue
  Request <- mcRequest
  InitLabels <- mcLeaves
  InitTree <- mcTree
  QuotaWrites <- mcNoWrites
  MaxEvents = 2
  Env = {"apiErrors", "wait", "delete", "finish"}
INVARIANTS PathConsistent LevelsAgree ParentCountsChildren UsedIsSum  AdmittedWithinMax
 
CHECK_DEADLOCK FALSE
