SPECIFICATION Spec
CONSTANTS
  c1 = c1
  c2 = c2
  none = none
  Client <- MCOne
  Fd <- MCFd
  server_sockfd = 4
  NoFd = none
  DEFAULT_FINDS = 2
  MaxRequests = 2
  MaxHeartbeats = 0
  Impatient = TRUE
  Leaves = FALSE
CHECK_DEADLOCK FALSE
INVARIANT ReportedMeansExecuted
