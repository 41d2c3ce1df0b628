SPECIFICATION Spec
CONSTANTS
  p1 = p1
  p2 = p2
  w1 = w1
  NRuns = 1
  NHeads = 1
  Procs = {p1, p2}
  WorkerIds = {w1}
  WorkerOf <- SharedId
  NoWorker = NoWorker
  MaxAttempts = 2
  RepoLimit = 1
  MaxPolls = 2
  MaxFaults = 3
  MaxOps = 2
  OpKinds = {"start", "pause", "resume", "retry_failed_node", "approve",
             "reject", "cancel", "expedite", "budget"}
  ResumeTargets = {}
  LateDelivery = FALSE
INVARIANTS
  TypeOK
  LeaseConsistent
  Fencing
  RetriesSound
  PublishGate
PROPERTIES
  OperatorsDecide
  LockRefined
CHECK_DEADLOCK FALSE
