SPECIFICATION Spec
CONSTANTS
  UnitIds = {"u1"}
  Quotas = {"root", "top", "a"}
  Root = "root"
  Resources = {"cpu"}
  Amounts <- mcAmounts
  Limits <- mcLimits
  Oversell = 100
  Loops = {1}
  QueueOf <- mcOneQueue
  Request <- mcTwoEach
  InitLabels <- mcMoves
  InitTree <- mcTree
  QuotaWrites <- mcWrites
  MaxEvents = 1
  Env = {"apiErrors", "finish", "relabel", "release", "quotas", "restart"}
CONSTRAINT mcBounded
INVARIANTS TypeOK UsedIsSum UsedIsSelfAndChildren
CHECK_DEADLOCK FALSE
