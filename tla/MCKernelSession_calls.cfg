\* One caller, as in the pool: crashes and hangs under a hard timeout.
CONSTANTS
  c1 = c1  c2 = c2  o1 = o1  h1 = h1  h2 = h2
  s1 = s1  s2 = s2  s3 = s3  s4 = s4  s5 = s5
  Caller <- OneCaller
  Owner <- NoOne
  Health <- NoOne
  Session <- ThreeSessions
  NoProc = NoProc  NoSession = NoSession  Unstarted = Unstarted
  Pings = FALSE
  IdleTimeout = 0
  HardTimeout = TRUE
  StartMayFail = FALSE
  MaxFaults = 3
SPECIFICATION FairSessionSpec
INVARIANT FaultsMasked
PROPERTY CallsEnd
