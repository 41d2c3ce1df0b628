SPECIFICATION MCSpec
CONSTANTS
  p1 = p1
  p2 = p2
  review = review
  s1 = s1
  s2 = s2
  t1 = t1
  c1 = c1
  c2 = c2
  b1 = b1
  b2 = b2
  r1 = r1
  r2 = r2
  Task = review
  Procs = {p1, p2}
  NoProc = NoProc
  NAgents = 1
  MaxBatches = 2
  Confs <- TwoConfs
  Splits <- EitherSplit
  MaxRequests = 2
  MaxModels = 2
  MaxFaults = 1
  MaxOps = 2
  OpKinds = {"configure", "pause", "resume", "retry", "retry_stage", "retry_failed_node"}
  Starts = {s1, s2}
  Roles = {"review", "index", "mixed"}
  Claimed = {t1}
  MaxTurns = 2
  MaxWrites = 1
  Configs = {c1, c2}
  Chunks = 2
  Readers = 2
  Builders = {b1, b2}
  Reviewers = {r1, r2}
  LeaseTime = 1
  LaneTime = 2
  BlockTime = 1
  RetryTime = 1
  PrepTime = 1
  RequestLimit = 2
  MaxFailures = 2
  Operations = 2
  MaxChanges = 1
  MaxErrors = 2
  AgentOrder <- ThreeAgents
  Domains <- TwoUnits
  ReviewerSets <- WithAndWithoutSecurity
  HasSummary = TRUE
  Candidates <- Reported
  SummaryCandidates <- Summarised
  Patch <- SmallPatch
  Source <- SmallSource
  MaxConcurrency = 2
  MaxModelFindings = 2
  MaxBlobs = 1
  MaxAnswer = 1
  MaxRounds = 3
  None = None
INVARIANTS
  AnswersBelong
  OneRequest
  TakeoverSound
  IndexSound
  OneIndexPerReview
  CompleteCovered
  ReportsStored
PROPERTIES
  RetryCures
  AnswersKept
CHECK_DEADLOCK FALSE
