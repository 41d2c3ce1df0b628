SPECIFICATION MCSpec
CONSTANTS
  f1 = f1
  f2 = f2
  a1 = a1
  a2 = a2
  q1 = q1
  q2 = q2
  x1 = x1
  x2 = x2
  m1 = m1
  m2 = m2
  e1 = e1
  e2 = e2
  k1 = k1
  Attempts = {a1, a2}
  Requests = {q1, q2}
  Findings = {f1, f2}
  Order <- TwoInOrder
  Inlineable <- BothInline
  Size <- SizeOne
  MaxRequest = 1
  MaxBatches = 2
  MaxInline = 2
  MaxTime = 2
  MaxFaults = 1
  MaxEdits = 1
  NoAttempt = NoAttempt
  Reviews = {1, 2}
  Heads = {1, 2}
  Fingerprints = {x1, x2}
  DecisionKeys = {1}
  High = {x1, x2}
  MinSamples = 1
  RecentLimit = 2
  MaxStores = 3
  MaxDecisions = 3
  Members = {m1, m2}
  Sampled = {1, 2}
  Results <- ResultsOf
  Independent = {1, 2}
  Defects = {k1}
  Decisions <- DecisionsOf
  Modes = {"single", "dual"}
  MaxPages = 2
  None = None
INVARIANTS
  GitHubTruthful
  FixedIsFixed
  JudgementsCount
  PairsComparable
PROPERTIES
  OwnApprovalOnly
  SavedAsRead
CHECK_DEADLOCK FALSE
