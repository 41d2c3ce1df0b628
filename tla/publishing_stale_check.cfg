SPECIFICATION Spec
SYMMETRY Interchangeable
CONSTANTS
  f1 = f1
  f2 = f2
  a1 = a1
  a2 = a2
  q1 = q1
  q2 = q2
  Attempts = {a1, a2}
  Requests = {q1, q2}
  Findings = {f1, f2}
  Order <- TwoInOrder
  Inlineable <- BothInline
  Size <- SizeOne
  MaxRequest = 1
  MaxBatches = 2
  MaxInline = 2
  MaxTime = 2
  MaxFaults = 1
  MaxEdits = 1
  NoAttempt = NoAttempt
PROPERTIES
  CompletedIsCurrent
CHECK_DEADLOCK FALSE
