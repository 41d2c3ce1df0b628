SPECIFICATION Spec
CONSTANTS
  p1 = p1
  p2 = p2
  w1 = w1
  NRuns = 2
  NHeads = 2
  Procs = {p1}
  WorkerIds = {w1}
  WorkerOf <- OneId
  NoWorker = NoWorker
  MaxAttempts = 1
  RepoLimit = 1
  MaxPolls = 1
  MaxFaults = 0
  MaxOps = 2
  OpKinds = {"retry", "retry_failed_node", "retry_stage", "pause", "resume",
             "review_snapshot", "new_review"}
  ResumeTargets = {"planning"}
  LateDelivery = FALSE
INVARIANTS
  HeadsRespected
CHECK_DEADLOCK FALSE
