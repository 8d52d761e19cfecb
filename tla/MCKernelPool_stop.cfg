\* stop() at any moment of two calls, of the recycling of their workers and of the reaper.
CONSTANTS
  t1 = t1  t2 = t2  t3 = t3
  w1 = w1  w2 = w2  w3 = w3  w4 = w4  w5 = w5  w6 = w6
  Thread <- TwoThreads
  Worker <- SixWorkers
  NoWorker = NoWorker
  PoolSize = 2
  PoolMinIdle = 1
  MaxRequests = 1
  IdleTimeout = 1
  StartMayFail = FALSE
  CountCap = 1
SPECIFICATION PoolSpec
SYMMETRY ThreadSymmetry
INVARIANTS ExclusiveUse NoForgottenKernel RecycledInTime WithinPoolSize LiveKernelBound ReaperSurvives
