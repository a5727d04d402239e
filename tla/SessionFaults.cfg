SPECIFICATION Spec
CONSTANTS
  c1 = c1
  c2 = c2
  none = none
  Client <- MCTwo
  Fd <- MCFewFd
  server_sockfd = 4
  NoFd = none
  DEFAULT_FINDS = 1
  MaxRequests = 2
  MaxHeartbeats = 2
  Impatient = TRUE
  Leaves = TRUE
SYMMETRY Clients
CHECK_DEADLOCK FALSE
INVARIANTS ExecutedOnceInOrder InStep ReportedInStep
