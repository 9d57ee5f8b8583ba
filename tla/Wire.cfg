SPECIFICATION Spec
CONSTANTS
  Base = 18
  W = 2
  KeyLen = 2
  MAX_VALIDATOR_STAKE_ACCOUNTS = 2
  MAX_SIGNERS = 2
  Keys <- MCKeys
  Amounts <- MCAmounts
  Balances <- MCBalances
  NoMessage = NoMessage
INVARIANTS NeverMisread AccountsInPlace ListReadsBack
