\* Two calls of any role, cancelled at will, that queue for one thread, over two workers
\* of which one may be lost.
CONSTANTS
  q1 = q1  q2 = q2  q3 = q3  admin = admin  reader = reader  gone = gone  plot = plot  run = run  sysPlot = sysPlot
  Short <- ShortNames
  Request <- TwoRequests
  Role <- Roles
  Tool <- Tools
  Expr <- Exprs
  Limit <- Limits
  Length <- Lengths
  Runtimes <- RuntimesOf
  Global <- Defaults
  None = None
  Threads = 1
  PoolSize = 2
  MaxLeaks = 1
SPECIFICATION FairSpec
CHECK_DEADLOCK FALSE
INVARIANTS TypeOK EvaluatedAsAllowed WithinResultSize WorkersAccounted OwnOutcome
PROPERTY Answered
