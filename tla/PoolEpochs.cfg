SPECIFICATION Spec
CONSTANTS
  U64Max = 7
  Users = {u1}
  Validators = {v1}
  UserStakes = {a1}
  DepositAuthority = DepositAuthority
  WithdrawAuthority = WithdrawAuthority
  NoKey = NoKey
  RentReserve = 1
  OneSol = 1
  VoteLamports = 3
  MaxValidators = 2
  Fees <- MCFees
  Authorities = {u1, DepositAuthority, WithdrawAuthority}
  Stakers = {u1, WithdrawAuthority}
  Cash = 4
  UserDeposits = {1}
  SplitSizes = {1}
  OutsideTransfers = {1}
  Reward = 1
  MaxBurned = 1
  MaxEpoch = 1
INVARIANTS TypeOK PoolTotalIsSupply FreshPoolHasFreshRecords
PROPERTIES PoolIsVault ExitsArePaid TokensMoveWithStake SharePriceHolds
CHECK_DEADLOCK FALSE
