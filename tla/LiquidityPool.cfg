SPECIFICATION Spec
CONSTANTS
  U64Max = 7
  Users = {u1, u2}
  PoolStates <- MCPoolStates
  UserWsol = 3
SYMMETRY SymmetricUsers
INVARIANTS TypeOK
PROPERTIES SalesKeepValue WsolPerShareHolds
CHECK_DEADLOCK FALSE
