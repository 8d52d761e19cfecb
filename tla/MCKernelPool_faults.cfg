\* Any start() may raise; the system blocks for good once every permit is leaked.
CONSTANTS
  t1 = t1  t2 = t2  t3 = t3
  w1 = w1  w2 = w2  w3 = w3  w4 = w4  w5 = w5  w6 = w6
  Thread <- ThreeThreads
  Worker <- FiveWorkers
  NoWorker = NoWorker
  PoolSize = 2
  PoolMinIdle = 1
  MaxRequests = 0
  IdleTimeout = 1
  StartMayFail = TRUE
  CountCap = 1
SPECIFICATION FairServingSpec
CHECK_DEADLOCK FALSE
INVARIANTS TypeOK PermitsAccounted
PROPERTIES LeaseSpec PermitsRecirculate ExcessReclaimed
