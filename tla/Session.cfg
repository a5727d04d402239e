SPECIFICATION Spec
CONSTANTS
  c1 = c1
  c2 = c2
  none = none
  Client <- MCTwo
  Fd <- MCFd
  server_sockfd = 4
  NoFd = none
  DEFAULT_FINDS = 2
  MaxRequests = 1
  MaxHeartbeats = 1
  Impatient = FALSE
  Leaves = TRUE
CHECK_DEADLOCK FALSE
INVARIANTS RecordedExactly NeverBlocks
PROPERTIES EveryRequestAnswered DescriptorReleased
