\* One file of each kind, two threads, three lines and two replies.
SPECIFICATION MCSpec
CONSTANTS
  main = main
  other = other
  x = x
  y = y
  z = z
  sysX = sysX
  ctxN = ctxN
  n = n
  Short <- ShortNames
  Thread <- TwoThreads
  Main <- main
  Standalone <- StandaloneFiles
  Pyproject <- PyprojectFiles
  Option <- Options
  MaxFails = 1
  PipeSize = 1
  MaxLines = 3
  MaxReplies = 2
  Tool <- Tools
  Provider = {"dnspod"}
  Kernel = {"opt", "which"}
  Candidates <- Paths
  CpuCount = 2
  Groups <- ThreeGroups
  Dangerous <- TwoDangerous
  Safe <- OneSafe
  Star = Star
  NotATable = NotATable
  Absent = Absent
  Broken = Broken
INVARIANTS TypeOK OneOfEach 
PROPERTIES AccessReturns Delivery TransportEnds
CHECK_DEADLOCK FALSE
