SPECIFICATION Spec
CONSTANTS
  U64Max = 15
  Users = {u1, u2}
  Validators = {v1}
  UserStakes = {a1}
  DepositAuthority = DepositAuthority
  WithdrawAuthority = WithdrawAuthority
  NoKey = NoKey
  RentReserve = 1
  OneSol = 1
  VoteLamports = 3
  MaxValidators = 2
  Fees <- MCFees
  Authorities = {u1, u2, DepositAuthority}
  Stakers = {WithdrawAuthority}
  Cash = 5
  UserDeposits = {2}
  SplitSizes = {}
  OutsideTransfers = {}
  Reward = 1
  MaxBurned = 0
  MaxEpoch = 1
SYMMETRY SymmetricUsers
INVARIANTS RecordIsStakeBalance
CHECK_DEADLOCK FALSE
