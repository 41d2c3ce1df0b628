SPECIFICATION Spec
SYMMETRY Interchangeable
CONSTANTS
  c1 = c1
  c2 = c2
  c3 = c3
  Calls = {c1, c2, c3}
  Options = {"stream"}
  Costs = {2}
  Actual = {3}
  Budgets = {4}
  None = None
  ProviderConcurrency = 2
  FailureThreshold = 1
  OpenTime = 1
  PermitTime = 2
  MonthLength = 2
  RequestLimit = 3
  MaxOutputs = 1
  MaxTime = 2
  MaxRequests = 3
  MaxEvents = 1
INVARIANTS
  LedgerSound
  NothingLeft
PROPERTIES
  ChannelSound
CHECK_DEADLOCK FALSE
