\* A call by a role with a hard timeout of its own.
CONSTANTS
  q1 = q1  q2 = q2  q3 = q3  admin = admin  reader = reader  gone = gone  plot = plot  run = run  sysPlot = sysPlot
  Short <- ShortNames
  Request <- OneRequest
  Role <- Roles
  Tool <- Tools
  Expr <- Exprs
  Limit <- Limits
  Length <- Lengths
  Runtimes <- RuntimesOf
  Global <- Defaults
  None = None
  Threads = 2
  PoolSize = 2
  MaxLeaks = 1
SPECIFICATION Spec
CHECK_DEADLOCK FALSE
INVARIANT HardTimeoutOfRole
