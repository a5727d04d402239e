SPECIFICATION Spec
CONSTANTS
  admin = admin
  u1 = u1
  u2 = u2
  p1 = p1
  p2 = p2
  Name <- MCName
  Password <- MCPassword
  ADMIN_DEFAULT_ACCOUNT = admin
  ADMIN_DEFAULT_PW = p1
  MAX_USER_NUM = 2
  Unreliable = TRUE
SYMMETRY Users
INVARIANTS TypeOK NamesUnique UsersWithinLimit VerifyExact LoginHasTables
