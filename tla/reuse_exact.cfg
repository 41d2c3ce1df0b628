SPECIFICATION ReuseSpec
CONSTANTS
  f1 = f1
  c1 = c1
  c2 = c2
  p1 = p1
  d1 = d1
  h1 = h1
  h2 = h2
  Files = {f1}
  Contents = {c1, c2}
  Profiles = {p1}
  Documents = {d1}
  Heads = {h1, h2}
  MaxRuns = 3
  MaxAge = 1
  MaxDays = 2
  None = None
INVARIANTS
  ReuseExact
CHECK_DEADLOCK FALSE
