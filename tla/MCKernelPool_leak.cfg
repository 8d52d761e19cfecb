\* A start() that raises keeps the permit.
CONSTANTS
  t1 = t1  t2 = t2  t3 = t3
  w1 = w1  w2 = w2  w3 = w3  w4 = w4  w5 = w5  w6 = w6
  Thread <- TwoThreads
  Worker <- FiveWorkers
  NoWorker = NoWorker
  PoolSize = 1
  PoolMinIdle = 1
  MaxRequests = 0
  IdleTimeout = 0
  StartMayFail = TRUE
  CountCap = 1
SPECIFICATION ServingSpec
SYMMETRY ThreadSymmetry
CHECK_DEADLOCK FALSE
INVARIANT BlocksOnlyAtCapacity
