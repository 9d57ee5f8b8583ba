SPECIFICATION Spec
CONSTANTS
  U64Max = 7
  Users = {u1}
  Validators = {v1, v2}
  UserStakes = {a1}
  DepositAuthority = DepositAuthority
  WithdrawAuthority = WithdrawAuthority
  NoKey = NoKey
  RentReserve = 1
  OneSol = 1
  VoteLamports = 3
  MaxValidators = 2
  Fees <- MCFees
  Authorities = {u1, DepositAuthority, WithdrawAuthority}
  Stakers = {WithdrawAuthority}
  Cash = 5
  UserDeposits = {2}
  SplitSizes = {}
  OutsideTransfers = {1}
  Reward = 0
  MaxBurned = 0
  MaxEpoch = 0
SYMMETRY SymmetricValidators
INVARIANTS OneRecordPerValidator RecordsBacked
PROPERTIES PoolIsVault
CHECK_DEADLOCK FALSE
