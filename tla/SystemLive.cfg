\* Two requests, two connections, one card each; a service that dies is not restarted.
SPECIFICATION FairSpec
CONSTANTS
  MaxJobs = 2
  MaxConns = 2
  MaxFd = 1
  LongJobs = {}
  NoFd = NoFd
  Kind <- MCKind
  Backlog = 2
  MaxCards = 1
  Blank = {2}
  MaxRestarts = 0
  NoConn = NoConn
PROPERTIES SentIsCarriedOut ServerIsPeer ClientIsClient
CHECK_DEADLOCK FALSE
