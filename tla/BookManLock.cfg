SPECIFICATION Spec
CONSTANTS
  MAX_FLOORS = 5
  MAX_DEPTH = 2
  Letter <- MCLetter
  MaxConn = 3
  SelectShelf <- MCSelectShelf
  UserShelf <- MCUserShelf
  StackShelf <- MCStackShelf
CHECK_DEADLOCK FALSE
INVARIANT LockedByUser
