SPECIFICATION Spec
CONSTANTS
  w1 = w1
  w2 = w2
  U64Max = 2
  Wallets = {w1, w2}
  Multisigs = {multi}
  Mints = {stsol}
  NativeMint = native
  Accounts = {a1, a2}
  NoKey = nokey
  MaxSigners = 2
  RentReserve = 1
  Owners = {w1, multi}
  Authorities = {multi}
  Issues = {1}
  Allowances = {2}
  Delegates = {w2}
  Closers = {w2}
  SignerLists <- MCSignerLists
  Cash = 3
SYMMETRY SymmetricAccounts
INVARIANTS TypeOK SupplyCoversAccounts NativeBacked
PROPERTIES SpendsAreAuthorized FrozenHoldsStill GivenUpForGood
