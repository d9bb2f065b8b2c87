\* Two requests, two connections, and a service that may die and restart once.
SPECIFICATION Spec
CONSTANTS
  MaxJobs = 2
  MaxConns = 2
  MaxFd = 1
  LongJobs = {}
  NoFd = NoFd
  Kind <- MCKind
  Backlog = 2
  MaxCards = 2
  Blank = {2}
  MaxRestarts = 1
  NoConn = NoConn
INVARIANTS NeverMergedWhileCalm
PROPERTIES CarriedOutInOrder
CHECK_DEADLOCK FALSE
