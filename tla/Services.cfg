SPECIFICATION PartsSpec
CONSTANTS
  c1 = c1
  c2 = c2
  c3 = c3
  c4 = c4
  p1 = p1
  p2 = p2
  Call = {c1, c2, c3, c4}
  Pool = {p1, p2}
  PoolOf <- Pools
  Owner = p1
  Threads = 2
  Limit = 2
  MaxCrashes = 1
  Request = {q1, q2, q3}
  Worker = {w1, w2}
  NoWorker = NoWorker
  MaxAttempts = 2
  Sample = {s1, s2}
  NumCases = 2
  Manager = {"dapo", "prime"}
  MaxCases = {0, 1}
  MaxConcurrent = 1
  PoolSize = 2
  MaxRetries = 2
  Batches = 2
  Unscored = Unscored
CHECK_DEADLOCK FALSE
INVARIANTS
  PermitsKept
  ScoresJustly
PROPERTIES
  LeastLoaded
  EveryRequestEnds
