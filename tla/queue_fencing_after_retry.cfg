SPECIFICATION Spec
CONSTANTS
  p1 = p1
  p2 = p2
  w1 = w1
  NRuns = 1
  NHeads = 1
  Procs = {p1, p2}
  WorkerIds = {w1}
  WorkerOf <- SharedId
  NoWorker = NoWorker
  MaxAttempts = 2
  RepoLimit = 1
  MaxPolls = 2
  MaxFaults = 1
  MaxOps = 1
  OpKinds = {"retry"}
  ResumeTargets = {}
  LateDelivery = FALSE
INVARIANTS
  Fencing
CHECK_DEADLOCK FALSE
