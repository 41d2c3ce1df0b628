SPECIFICATION MCSpec
CONSTANTS
  p1 = p1
  p2 = p2
  w1 = w1
  NRuns = 2
  NHeads = 2
  Procs = {p1, p2}
  WorkerIds = {w1}
  WorkerOf <- SharedId
  NoWorker = NoWorker
  MaxAttempts = 1
  RepoLimit = 1
  MaxPolls = 1
  MaxFaults = 1
  MaxOps = 0
  OpKinds = {}
  ResumeTargets = {}
  LateDelivery = FALSE
  review = review
  builder1 = builder1
  reader1 = reader1
  config1 = config1
  config2 = config2
  None = None
INVARIANTS
  RepoLimitHeld

  
CHECK_DEADLOCK FALSE
