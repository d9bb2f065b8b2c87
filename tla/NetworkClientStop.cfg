\* The lost wake-up of stop(): one job is enough.
SPECIFICATION FairSpec
CONSTANTS
  MaxJobs = 1
  MaxConns = 2
  MaxFd = 1
  LongJobs = {}
  MaxRepeats = 0
  MaxCrashes = 0
  NoConn = NoConn
  NoFd = NoFd
PROPERTY StopReturns
CHECK_DEADLOCK FALSE
