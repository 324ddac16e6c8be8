CONSTANTS
  Jobs <- MCJobs
  Nil = Nil
  d1 = d1
  d2 = d2
  bad = bad
  t1 = t1
  t2 = t2
  Unreadable = {bad}
  MaxConcurrent = 2
  MaxClaims = 3
  MaxLog = 4
SPECIFICATION ResearchSpec
INVARIANTS CitationsHold
PROPERTIES SeenNeverGoesBack QueueDrains
CHECK_DEADLOCK FALSE
