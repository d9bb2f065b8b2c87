SPECIFICATION FairSpec
CONSTANTS
  MaxJobs = 3
  MaxConns = 2
  MaxFd = 2
  LongJobs = {2}
  MaxRepeats = 1
  MaxCrashes = 1
  NoConn = NoConn
  NoFd = NoFd
INVARIANTS TypeOK OneSocket PairedWhileCalm ShownInOrder
PROPERTIES ImplementsPump PushedIsTaken StopWhileBusyReturns
CHECK_DEADLOCK FALSE
