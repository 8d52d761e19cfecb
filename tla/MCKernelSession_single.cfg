\* A caller, an owner and the health thread, crashes, hangs, failing starts, idle stops and pings.
CONSTANTS
  c1 = c1  c2 = c2  o1 = o1  h1 = h1  h2 = h2
  s1 = s1  s2 = s2  s3 = s3  s4 = s4  s5 = s5
  Caller <- OneCaller
  Owner <- OneOwner
  Health <- OneHealth
  Session <- FiveSessions
  NoProc = NoProc  NoSession = NoSession  Unstarted = Unstarted
  Pings = TRUE
  IdleTimeout = 1
  HardTimeout = TRUE
  StartMayFail = TRUE
  MaxFaults = 2
SPECIFICATION SessionSpec
INVARIANTS TypeOK SingleKernel CallsCleanUp
