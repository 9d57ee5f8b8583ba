SPECIFICATION KeeperSpec
CONSTANTS
  u1 = u1
  u2 = u2
  v1 = v1
  v2 = v2
  a1 = a1
  a2 = a2
  t1 = t1
  t2 = t2
  t3 = t3
  U64Max = 31
  Users = {u1, u2}
  Validators = {v1, v2}
  UserStakes = {a1, a2}
  DepositAuthority = DepositAuthority
  WithdrawAuthority = WithdrawAuthority
  NoKey = NoKey
  RentReserve = 1
  OneSol = 4
  VoteLamports = 4
  MaxValidators = 2
  Fees <- MCFees
  Authorities = {u1, u2, DepositAuthority}
  Stakers = {WithdrawAuthority}
  Cash = 0
  UserDeposits = {}
  SplitSizes = {}
  OutsideTransfers = {}
  Reward = 1
  MaxBurned = 0
  MaxEpoch = 2
  TransactionFee = 0
  Rent <- MCRent
  NoTx = NoTx
  MAX_ACCOUNTS_TO_UPDATE = 1
  Terminals = {t1, t2}
  WalletOf <- OneEach
  Menus <- MCKeeperMenus
  Owner = u2
  Keeper = t1
  StartStake <- MCStartStake
  StartTokens <- MCKeeperTokens
  StartUserStake <- MCUserStake
  StartWsol = 2
PROPERTIES EventuallyUpToDate
CHECK_DEADLOCK FALSE
