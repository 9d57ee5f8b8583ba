--------------------------- MODULE StakePoolProofs ---------------------------
(***************************************************************************)
(* Theorems about StakePool, for every value of its constants.             *)
(***************************************************************************)
EXTENDS StakePool, ArithmeticProofs

(***************************************************************************)
(* Lemmas about the operators the handlers are built from.                 *)
(***************************************************************************)

\* Moving one authority of a stake account changes that field only.
LEMMA AuthorizedFacts ==
  ASSUME NEW a \in StakeAccount, NEW k \in Keys \cup {NoKey}, NEW kind
  PROVE  LET b == Authorized(a, k, kind)
         IN  /\ b \in StakeAccount
             /\ b.lamports = a.lamports /\ b.state = a.state
             /\ b.voter = a.voter
             /\ b.withdrawer = IF kind = "Staker" THEN a.withdrawer ELSE k
             /\ b.staker = IF kind = "Staker" THEN k ELSE a.staker
  BY DEF Authorized, StakeAccount

\* Moving both leaves the account with the new key in both places.
LEMMA AuthorizedBothFacts ==
  ASSUME NEW a \in StakeAccount, NEW k \in Keys \cup {NoKey}
  PROVE  LET b == AuthorizedBoth(a, k)
         IN  /\ b \in StakeAccount
             /\ b.lamports = a.lamports /\ b.state = a.state
             /\ b.voter = a.voter /\ b.withdrawer = k /\ b.staker = k
  BY DEF AuthorizedBoth, Authorized, StakeAccount

\* An address without an account is a well-formed entry nobody controls.
LEMMA NoAccountFacts ==
  /\ NoAccount \in StakeAccount
  /\ NoAccount.withdrawer = NoKey /\ NoAccount.lamports = 0
  BY U64MaxAssumption DEF NoAccount, StakeAccount, U64

\* What a split that succeeds leaves behind, and what it creates.
LEMMA SplitFacts ==
  ASSUME NEW a \in StakeAccount, NEW k, NEW n \in U64, CanSplit(a, k, n)
  PROVE  /\ SplitSource(a, n) \in StakeAccount
         /\ SplitSource(a, n).lamports = a.lamports - n
         /\ SplitSource(a, n).withdrawer \in {a.withdrawer, NoKey}
         /\ n # a.lamports => SplitSource(a, n).withdrawer = a.withdrawer
         /\ SplitTarget(a, n) \in StakeAccount
         /\ SplitTarget(a, n).withdrawer = a.withdrawer
  BY NoAccountFacts, U64MaxAssumption, RentAssumption
     DEF CanSplit, SplitSource, SplitTarget, StakeAccount, U64, NoAccount

\* What a merge that succeeds leaves in the target account.
LEMMA MergedFacts ==
  ASSUME NEW a \in StakeAccount, NEW b \in StakeAccount, NEW k,
         CanMerge(a, b, k)
  PROVE  /\ Merged(a, b) \in StakeAccount
         /\ Merged(a, b).lamports = a.lamports + b.lamports
         /\ Merged(a, b).withdrawer = a.withdrawer
  BY DEF CanMerge, Merged, StakeAccount

\* The two counters after Credit and Debit; everything else is untouched.
LEMMA CreditFacts ==
  ASSUME NEW p \in StakePoolAccount, NEW t \in U64, NEW l \in U64
  PROVE  LET q == Credit(p, t, l)
         IN  /\ q \in StakePoolAccount
             /\ q.pool_total = Add64(p.pool_total, t)
             /\ q.stake_total = Add64(p.stake_total, l)
             /\ q.last_update_epoch = p.last_update_epoch
             /\ q.version = p.version
  <1>1. p.pool_total \in Int /\ p.stake_total \in Int /\ t \in Int /\ l \in Int
    BY U64MaxAssumption DEF StakePoolAccount, U64
  <1>2. Add64(p.pool_total, t) \in U64 /\ Add64(p.stake_total, l) \in U64
    BY <1>1, WrapType
  <1>3. QED BY <1>2 DEF Credit, StakePoolAccount

\* Debit, likewise.
LEMMA DebitFacts ==
  ASSUME NEW p \in StakePoolAccount, NEW t \in U64, NEW l \in U64
  PROVE  LET q == Debit(p, t, l)
         IN  /\ q \in StakePoolAccount
             /\ q.pool_total = Sub64(p.pool_total, t)
             /\ q.stake_total = Sub64(p.stake_total, l)
             /\ q.last_update_epoch = p.last_update_epoch
             /\ q.version = p.version
  <1>1. p.pool_total \in Int /\ p.stake_total \in Int /\ t \in Int /\ l \in Int
    BY U64MaxAssumption DEF StakePoolAccount, U64
  <1>2. Sub64(p.pool_total, t) \in U64 /\ Sub64(p.stake_total, l) \in U64
    BY <1>1, WrapType
  <1>3. QED BY <1>2 DEF Debit, StakePoolAccount

\* Rewriting balances, or dropping one validator, does not disturb the other
\* facts about the list.
LEMMA SetBalanceFacts ==
  ASSUME NEW l \in SUBSET ValidatorStakeInfo, NEW v \in Validators, NEW n \in U64
  PROVE  /\ SetBalance(l, v, n) \in SUBSET ValidatorStakeInfo
         /\ \A q \in SetBalance(l, v, n) :
              \E r \in l : /\ q.validator_account = r.validator_account
                           /\ q.last_update_epoch = r.last_update_epoch
         /\ \A r \in l : \E q \in SetBalance(l, v, n) :
              q.validator_account = r.validator_account
         /\ (\A r, q \in l : r.validator_account = q.validator_account => r = q)
            => \A r, q \in SetBalance(l, v, n) :
                 r.validator_account = q.validator_account => r = q
  <1> DEFINE F(r) == IF r.validator_account = v THEN [r EXCEPT !.balance = n]
                                                ELSE r
  <1>1. \A r \in l : /\ F(r) \in ValidatorStakeInfo
                     /\ F(r).validator_account = r.validator_account
                     /\ F(r).last_update_epoch = r.last_update_epoch
    BY DEF ValidatorStakeInfo
  <1>2. SetBalance(l, v, n) = {F(r) : r \in l}
    BY DEF SetBalance
  <1> HIDE DEF F
  <1>3. QED BY <1>1, <1>2

\* Dropping one validator keeps the records of all the others.
LEMMA RetainFacts ==
  ASSUME NEW l \in SUBSET ValidatorStakeInfo, NEW v
  PROVE  /\ Retain(l, v) \in SUBSET ValidatorStakeInfo
         /\ Retain(l, v) \subseteq l
         /\ \A r \in l : r.validator_account # v => r \in Retain(l, v)
         /\ ~Contains(Retain(l, v), v)
  BY DEF Retain, Contains

\* An update of a record keeps its key and stamps it with this epoch, or
\* leaves it alone.
LEMMA UpdatedRecordFacts ==
  ASSUME TypeOK, NEW accounts \in UpdateArguments, NEW r \in list
  PROVE  LET q == UpdatedRecord(r, accounts)
         IN  /\ q \in ValidatorStakeInfo
             /\ q.validator_account = r.validator_account
             /\ q = r \/ q.last_update_epoch = epoch
  <1> DEFINE k == CHOOSE x \in accounts : MatchesRecord(x, r)
  <1>1. r \in ValidatorStakeInfo /\ epoch \in Nat
    BY PoolAssumption DEF TypeOK
  <1>2. CASE /\ r.last_update_epoch < epoch
             /\ \E x \in accounts : MatchesRecord(x, r)
    <2>1. k \in accounts
      BY <1>2
    <2>2. k \in Validators \cup PoolStakes
      BY <2>1 DEF UpdateArguments
    <2>3. AccountLamports(k) \in U64
      BY <2>2, PoolAssumption
         DEF AccountLamports, TypeOK, StakeAccount, StakeAddrs
    <2>4. UpdatedRecord(r, accounts) =
            [r EXCEPT !.last_update_epoch = epoch,
                      !.balance = AccountLamports(k)]
      BY <1>2 DEF UpdatedRecord
    <2> HIDE DEF k
    <2>5. QED BY <1>1, <2>3, <2>4 DEF ValidatorStakeInfo
  <1>3. CASE ~(/\ r.last_update_epoch < epoch
               /\ \E x \in accounts : MatchesRecord(x, r))
    BY <1>1, <1>3 DEF UpdatedRecord
  <1>4. QED BY <1>2, <1>3

\* Program addresses of different validators differ, and are not user
\* addresses.
LEMMA AddressFacts ==
  /\ \A v \in Validators : StakeAddress(v) \in StakeAddrs
  /\ \A v, w \in Validators : StakeAddress(v) = StakeAddress(w) => v = w
  /\ \A v \in Validators : StakeAddress(v) \notin UserStakes
  /\ UserStakes \subseteq StakeAddrs
  BY KeyAssumption DEF StakeAddress, StakeAddrs, PoolStakes

-----------------------------------------------------------------------------
(***************************************************************************)
(* The inductive invariant: the four invariants, and an empty list as long *)
(* as the pool is not initialized (Initialize clears the list, which must  *)
(* not drop records).                                                      *)
(***************************************************************************)
IInv ==
  /\ TypeOK
  /\ PoolTotalIsSupply
  /\ FreshPoolHasFreshRecords
  /\ OneRecordPerValidator
  /\ pool.version = 0 => list = {}

\* Before Initialize there is nothing on the books.
LEMMA InitIInv == Init => IInv
  <1> SUFFICES ASSUME Init PROVE IInv
    OBVIOUS
  <1>1. TypeOK
    BY NoAccountFacts, PoolAssumption, U64MaxAssumption
       DEF Init, TypeOK, StakePoolAccount, U64
  <1>2. PoolTotalIsSupply
    BY U64MaxAssumption DEF Init, PoolTotalIsSupply, Add64
  <1>3. QED
    BY <1>1, <1>2 DEF Init, IInv, FreshPoolHasFreshRecords,
                      OneRecordPerValidator

\* Steps after which the records are those of before, up to their balances.
LEMMA BalancesOnly ==
  ASSUME IInv, NEW v \in Validators, NEW n \in U64,
         list' = SetBalance(list, v, n), UNCHANGED epoch,
         pool'.last_update_epoch = pool.last_update_epoch
  PROVE  /\ list' \in SUBSET ValidatorStakeInfo
         /\ FreshPoolHasFreshRecords'
         /\ OneRecordPerValidator'
         /\ \A r \in list : \E q \in list' :
              q.validator_account = r.validator_account
         /\ list = {} => list' = {}
  <1>1. list \in SUBSET ValidatorStakeInfo
    BY DEF IInv, TypeOK
  <1>2. QED
    BY <1>1, SetBalanceFacts
       DEF IInv, FreshPoolHasFreshRecords, OneRecordPerValidator

\* Initialize.
LEMMA InitializeStep ==
  ASSUME IInv, NEW u \in Users, NEW fee \in Fees, process_initialize(u, fee)
  PROVE  IInv'
  <1> USE DEF process_initialize
  <1>1. pool.version = 0 /\ list = {}
    BY DEF IInv, TypeOK, StakePoolAccount, IsInitialized
  <1>2. fee \in [numerator : Nat, denominator : Nat]
    BY PoolAssumption
  <1>3. TypeOK'
    <2>1. epoch \in Nat /\ pool \in StakePoolAccount
      BY PoolAssumption DEF IInv, TypeOK
    <2>2. pool' \in StakePoolAccount
      BY <1>2, <2>1 DEF StakePoolAccount
    <2>3. QED BY <2>2 DEF IInv, TypeOK
  <1>4. /\ pool'.pool_total = pool.pool_total
        /\ pool'.last_update_epoch = epoch /\ pool'.version = 1
    BY DEF IInv, TypeOK, StakePoolAccount
  <1>5. epoch \in Nat
    BY PoolAssumption DEF IInv, TypeOK
  <1>6. QED
    BY <1>1, <1>3, <1>4, <1>5
       DEF IInv, PoolTotalIsSupply, FreshPoolHasFreshRecords,
           OneRecordPerValidator

\* Minting n tokens keeps the counter equal to supply + burned, also where
\* the counter wraps and the supply does not.
LEMMA MintFacts ==
  ASSUME IInv, NEW u \in Users, NEW n \in U64, MintTo(u, n), UNCHANGED burned
  PROVE  /\ supply' \in U64 /\ token' \in [Users -> Nat]
         /\ Add64(pool.pool_total, n) = Add64(supply', burned')
  <1>1. pool.pool_total = Add64(supply, burned) /\ supply' = supply + n
    BY DEF IInv, PoolTotalIsSupply, MintTo
  <1>2. supply \in Nat /\ burned \in Nat /\ n \in Nat
        /\ token \in [Users -> Nat]
    BY U64MaxAssumption DEF IInv, TypeOK, U64
  <1>3. Add64(pool.pool_total, n) = Add64(supply + burned, n)
    BY <1>1, <1>2, WrapTwice
  <1>4. Add64(supply + burned, n) = Add64(supply', burned')
    BY <1>1, <1>2 DEF Add64
  <1>5. QED BY <1>1, <1>2, <1>3, <1>4 DEF MintTo

\* Burning n tokens of a holder, likewise.
LEMMA BurnFacts ==
  ASSUME IInv, NEW u \in Users, NEW n \in Nat, Burn(u, n), UNCHANGED burned
  PROVE  /\ supply' \in U64 /\ token' \in [Users -> Nat]
         /\ n \in U64
         /\ Sub64(pool.pool_total, n) = Add64(supply', burned')
  <1>1. /\ pool.pool_total = Add64(supply, burned)
        /\ n <= supply /\ n <= token[u] /\ supply' = supply - n
    BY DEF IInv, PoolTotalIsSupply, Burn
  <1>2. supply \in U64 /\ supply \in Nat /\ burned \in Nat
        /\ token \in [Users -> Nat]
    BY U64MaxAssumption DEF IInv, TypeOK, U64
  <1>3. supply' \in U64 /\ n \in U64
    BY <1>1, <1>2, U64MaxAssumption DEF U64
  <1>4. Sub64(pool.pool_total, n) = Sub64(supply + burned, n)
    BY <1>1, <1>2, WrapTwice
  <1>5. Sub64(supply + burned, n) = Add64(supply', burned')
    BY <1>1, <1>2 DEF Add64, Sub64
  <1>6. token' \in [Users -> Nat]
    BY <1>1, <1>2 DEF Burn
  <1>7. QED BY <1>3, <1>4, <1>5, <1>6

\* AddValidatorStakeAccount.
LEMMA AddStep ==
  ASSUME IInv, NEW u \in Users, NEW v \in Validators, NEW w \in Users,
         process_add_validator_stake_account(u, v, w)
  PROVE  IInv'
  <1> DEFINE addr == StakeAddress(v)
             lamports == stake[addr].lamports
             amount == calc_pool_deposit_amount(pool, lamports)
             rec == [validator_account |-> v, balance |-> lamports,
                     last_update_epoch |-> epoch]
  <1>1. /\ amount \in U64 /\ MintTo(w, amount)
        /\ ~Contains(list, v) /\ UpToDate /\ IsInitialized
        /\ stake' = [stake EXCEPT ![addr] =
                       AuthorizedBoth(stake[addr], WithdrawAuthority)]
        /\ list' = list \cup {rec}
        /\ pool' = Credit(pool, amount, lamports)
        /\ UNCHANGED <<epoch, cash, burned>>
    BY DEF process_add_validator_stake_account
  <1>2. /\ addr \in StakeAddrs /\ stake[addr] \in StakeAccount
        /\ lamports \in U64 /\ pool \in StakePoolAccount
        /\ epoch \in 0 .. MaxEpoch /\ epoch \in Nat
        /\ stake \in [StakeAddrs -> StakeAccount]
        /\ list \in SUBSET ValidatorStakeInfo /\ cash \in Nat /\ burned \in Nat
    BY AddressFacts, PoolAssumption DEF IInv, TypeOK, StakeAccount
  <1> HIDE DEF addr, lamports, amount
  <1>3. /\ pool' \in StakePoolAccount
        /\ pool'.pool_total = Add64(pool.pool_total, amount)
        /\ pool'.last_update_epoch = pool.last_update_epoch
        /\ pool'.version = pool.version
    BY <1>1, <1>2, CreditFacts
  <1>4. /\ supply' \in U64 /\ token' \in [Users -> Nat]
        /\ Add64(pool.pool_total, amount) = Add64(supply', burned')
    BY <1>1, MintFacts
  <1>5. rec \in ValidatorStakeInfo /\ rec.validator_account = v
        /\ rec.last_update_epoch = epoch
    BY <1>2 DEF ValidatorStakeInfo
  <1>6. stake' \in [StakeAddrs -> StakeAccount]
    BY <1>1, <1>2, AuthorizedBothFacts DEF Keys
  <1> HIDE DEF rec
  <1>7. TypeOK'
    BY <1>1, <1>2, <1>3, <1>4, <1>5, <1>6 DEF TypeOK
  <1>8. FreshPoolHasFreshRecords'
    BY <1>1, <1>2, <1>3, <1>5 DEF IInv, FreshPoolHasFreshRecords
  <1>9. OneRecordPerValidator'
    BY <1>1, <1>5 DEF IInv, OneRecordPerValidator, Contains
  <1>10. pool'.version # 0
    BY <1>1, <1>3 DEF IsInitialized
  <1>11. QED
    BY <1>3, <1>4, <1>7, <1>8, <1>9, <1>10 DEF IInv, PoolTotalIsSupply

\* RemoveValidatorStakeAccount.
LEMMA RemoveStep ==
  ASSUME IInv, NEW u \in Users, NEW w \in Users, NEW v \in Validators,
         NEW k \in Keys, process_remove_validator_stake_account(u, w, v, k)
  PROVE  IInv'
  <1> DEFINE addr == StakeAddress(v)
             lamports == stake[addr].lamports
             amount == calc_pool_withdraw_amount(pool, lamports)
  <1>1. /\ amount \in U64 /\ Burn(w, amount)
        /\ IsInitialized
        /\ stake' = [stake EXCEPT ![addr] = AuthorizedBoth(stake[addr], k)]
        /\ list' = Retain(list, v)
        /\ pool' = Debit(pool, amount, lamports)
        /\ UNCHANGED <<epoch, cash, burned>>
    BY DEF process_remove_validator_stake_account
  <1>2. /\ addr \in StakeAddrs /\ stake[addr] \in StakeAccount
        /\ lamports \in U64 /\ pool \in StakePoolAccount
        /\ epoch \in 0 .. MaxEpoch
        /\ stake \in [StakeAddrs -> StakeAccount]
        /\ list \in SUBSET ValidatorStakeInfo /\ cash \in Nat /\ burned \in Nat
    BY AddressFacts DEF IInv, TypeOK, StakeAccount
  <1> HIDE DEF addr, lamports, amount
  <1>3. /\ pool' \in StakePoolAccount
        /\ pool'.pool_total = Sub64(pool.pool_total, amount)
        /\ pool'.last_update_epoch = pool.last_update_epoch
        /\ pool'.version = pool.version
    BY <1>1, <1>2, DebitFacts
  <1>4. /\ supply' \in U64 /\ token' \in [Users -> Nat]
        /\ Sub64(pool.pool_total, amount) = Add64(supply', burned')
    <2>1. amount \in Nat
      BY <1>1, U64MaxAssumption DEF U64
    <2>2. QED BY <1>1, <2>1, BurnFacts
  <1>5. AuthorizedBoth(stake[addr], k) \in StakeAccount
    BY <1>2, AuthorizedBothFacts
  <1>6. stake' \in [StakeAddrs -> StakeAccount]
    BY <1>1, <1>2, <1>5
  <1>7. /\ list' \in SUBSET ValidatorStakeInfo /\ list' \subseteq list
        /\ \A r \in list : r.validator_account # v => r \in list'
    BY <1>1, <1>2, RetainFacts
  <1>8. TypeOK'
    BY <1>1, <1>2, <1>3, <1>4, <1>6, <1>7 DEF TypeOK
  <1>9. FreshPoolHasFreshRecords' /\ OneRecordPerValidator'
    BY <1>1, <1>3, <1>7
       DEF IInv, FreshPoolHasFreshRecords, OneRecordPerValidator
  <1>10. pool'.version # 0
    BY <1>1, <1>3 DEF IsInitialized
  <1>11. QED
    BY <1>3, <1>4, <1>8, <1>9, <1>10 DEF IInv, PoolTotalIsSupply

\* UpdateListBalance.
LEMMA UpdateListStep ==
  ASSUME IInv, NEW accounts \in UpdateArguments,
         process_update_list_balance(accounts)
  PROVE  IInv'
  <1> DEFINE F(r) == UpdatedRecord(r, accounts)
  <1>1. /\ list' = {F(r) : r \in list} /\ IsInitialized
        /\ UNCHANGED <<epoch, pool, stake, token, supply, cash, burned>>
    BY DEF process_update_list_balance
  <1>2. \A r \in list : /\ F(r) \in ValidatorStakeInfo
                        /\ F(r).validator_account = r.validator_account
                        /\ F(r) = r \/ F(r).last_update_epoch = epoch
    BY UpdatedRecordFacts DEF IInv
  <1> HIDE DEF F
  <1>3. TypeOK'
    BY <1>1, <1>2 DEF IInv, TypeOK
  <1>4. epoch \in Nat
    BY PoolAssumption DEF IInv, TypeOK
  <1>5. FreshPoolHasFreshRecords'
    BY <1>1, <1>2, <1>4 DEF IInv, FreshPoolHasFreshRecords
  <1>6. OneRecordPerValidator'
    BY <1>1, <1>2 DEF IInv, OneRecordPerValidator
  <1>7. QED
    BY <1>1, <1>3, <1>5, <1>6 DEF IInv, PoolTotalIsSupply, IsInitialized

\* UpdatePoolBalance: the check of every record's epoch is what lets the
\* pool be stamped with this one.
LEMMA UpdatePoolStep ==
  ASSUME IInv, process_update_pool_balance
  PROVE  IInv'
  <1> DEFINE total == SumBalances(list)
  <1>1. /\ IsInitialized
        /\ \A r \in list : r.last_update_epoch >= epoch
        /\ total \in U64
        /\ pool' = [pool EXCEPT !.stake_total = total,
                                !.last_update_epoch = epoch]
        /\ UNCHANGED <<epoch, list, stake, token, supply, cash, burned>>
    BY DEF process_update_pool_balance
  <1>2. pool \in StakePoolAccount /\ epoch \in Nat
    BY PoolAssumption DEF IInv, TypeOK
  <1> HIDE DEF total
  <1>3. /\ pool' \in StakePoolAccount
        /\ pool'.pool_total = pool.pool_total
        /\ pool'.last_update_epoch = epoch
        /\ pool'.version = pool.version
    BY <1>1, <1>2 DEF StakePoolAccount
  <1>4. TypeOK'
    BY <1>1, <1>3 DEF IInv, TypeOK
  <1>5. FreshPoolHasFreshRecords'
    <2>1. \A r \in list : r.last_update_epoch \in Nat
      BY DEF IInv, TypeOK, ValidatorStakeInfo
    <2>2. QED BY <1>1, <1>2, <1>3, <2>1 DEF IInv, FreshPoolHasFreshRecords
  <1>6. QED
    BY <1>1, <1>3, <1>4, <1>5
       DEF IInv, PoolTotalIsSupply, OneRecordPerValidator

\* The update command, with the records and the pool written in one step.
LEMMA UpdateTransactionStep ==
  ASSUME IInv, UpdateTransaction
  PROVE  IInv'
  <1> DEFINE F(r) == UpdatedRecord(r, Validators)
             total == SumBalances({F(r) : r \in list})
  <1>1. /\ list' = {F(r) : r \in list} /\ IsInitialized
        /\ \A r \in list' : r.last_update_epoch >= epoch
        /\ total \in U64
        /\ pool' = [pool EXCEPT !.stake_total = total,
                                !.last_update_epoch = epoch]
        /\ UNCHANGED <<epoch, stake, token, supply, cash, burned>>
    BY DEF UpdateTransaction
  <1>2. Validators \in UpdateArguments
    BY DEF UpdateArguments
  <1>3. \A r \in list : /\ F(r) \in ValidatorStakeInfo
                        /\ F(r).validator_account = r.validator_account
                        /\ F(r) = r \/ F(r).last_update_epoch = epoch
    BY <1>2, UpdatedRecordFacts DEF IInv
  <1> HIDE DEF F, total
  <1>4. pool \in StakePoolAccount /\ epoch \in Nat
    BY PoolAssumption DEF IInv, TypeOK
  <1>5. /\ pool' \in StakePoolAccount
        /\ pool'.pool_total = pool.pool_total
        /\ pool'.last_update_epoch = epoch
        /\ pool'.version = pool.version
    BY <1>1, <1>4 DEF StakePoolAccount
  <1>6. TypeOK'
    BY <1>1, <1>3, <1>5 DEF IInv, TypeOK
  <1>7. FreshPoolHasFreshRecords'
    BY <1>1, <1>3, <1>4, <1>5 DEF IInv, FreshPoolHasFreshRecords
  <1>8. OneRecordPerValidator'
    BY <1>1, <1>3 DEF IInv, OneRecordPerValidator
  <1>9. QED
    BY <1>1, <1>5, <1>6, <1>7, <1>8
       DEF IInv, PoolTotalIsSupply, IsInitialized

\* Deposit: the merged account keeps its withdrawer, the deposited one is
\* gone.
LEMMA DepositStep ==
  ASSUME IInv, NEW addr \in StakeAddrs, NEW v \in Validators, NEW u \in Users,
         process_deposit(addr, v, u)
  PROVE  IInv'
  <1> DEFINE target == StakeAddress(v)
             joined == AuthorizedBoth(stake[addr], WithdrawAuthority)
             lamports == stake[addr].lamports
             amount == calc_pool_deposit_amount(pool, lamports)
             merged == Merged(stake[target], joined)
  <1>1. /\ IsInitialized /\ addr # target
        /\ amount \in U64 /\ MintTo(u, amount)
        /\ CanMerge(stake[target], joined, WithdrawAuthority)
        /\ stake' = [stake EXCEPT ![target] = merged, ![addr] = NoAccount]
        /\ pool' = Credit(pool, amount, lamports)
        /\ list' = SetBalance(list, v, stake'[target].lamports)
        /\ UNCHANGED <<epoch, cash, burned>>
    BY DEF process_deposit
  <1>2. /\ target \in StakeAddrs /\ stake[addr] \in StakeAccount
        /\ stake[target] \in StakeAccount
        /\ lamports \in U64 /\ pool \in StakePoolAccount
        /\ stake \in [StakeAddrs -> StakeAccount]
    BY AddressFacts DEF IInv, TypeOK, StakeAccount
  <1>3. joined \in StakeAccount
    BY <1>2, AuthorizedBothFacts DEF Keys
  <1> HIDE DEF target, joined, lamports, amount
  <1>4. merged \in StakeAccount /\ merged.withdrawer = stake[target].withdrawer
    BY <1>1, <1>2, <1>3, MergedFacts
  <1> HIDE DEF merged
  <1>5. /\ pool' \in StakePoolAccount
        /\ pool'.pool_total = Add64(pool.pool_total, amount)
        /\ pool'.last_update_epoch = pool.last_update_epoch
        /\ pool'.version = pool.version
    BY <1>1, <1>2, CreditFacts
  <1>6. /\ supply' \in U64 /\ token' \in [Users -> Nat]
        /\ Add64(pool.pool_total, amount) = Add64(supply', burned')
    BY <1>1, MintFacts
  <1>7. /\ stake' \in [StakeAddrs -> StakeAccount]
        /\ stake'[target] = merged /\ stake'[addr] = NoAccount
        /\ \A x \in StakeAddrs \ {target, addr} : stake'[x] = stake[x]
    BY <1>1, <1>2, <1>4, NoAccountFacts
  <1>8. stake'[target].lamports \in U64
    BY <1>4, <1>7 DEF StakeAccount
  <1>9. /\ list' \in SUBSET ValidatorStakeInfo
        /\ FreshPoolHasFreshRecords' /\ OneRecordPerValidator'
        /\ \A r \in list : \E q \in list' :
             q.validator_account = r.validator_account
    BY <1>1, <1>5, <1>8, BalancesOnly
  <1>10. TypeOK'
    BY <1>1, <1>5, <1>6, <1>7, <1>9 DEF IInv, TypeOK
  <1>11. QED
    BY <1>1, <1>5, <1>6, <1>9, <1>10
       DEF IInv, PoolTotalIsSupply, IsInitialized

\* Withdraw: also when the split takes everything and the validator account
\* disappears.
LEMMA WithdrawStep ==
  ASSUME IInv, NEW u \in Users, NEW v \in Validators, NEW addr \in UserStakes,
         NEW k \in Keys, NEW n \in Nat, process_withdraw(u, v, addr, k, n)
  PROVE  IInv'
  <1> DEFINE source == StakeAddress(v)
             amount == calc_lamports_amount(pool, n)
             rest == SplitSource(stake[source], amount)
             split == SplitTarget(stake[source], amount)
             out == AuthorizedBoth(split, k)
  <1>1. /\ IsInitialized /\ amount \in U64 /\ Burn(u, n)
        /\ CanSplit(stake[source], WithdrawAuthority, amount)
        /\ stake' = [stake EXCEPT ![source] = rest, ![addr] = out]
        /\ pool' = Debit(pool, n, amount)
        /\ list' = SetBalance(list, v, stake'[source].lamports)
        /\ cash' = cash - RentReserve /\ RentReserve <= cash
        /\ UNCHANGED <<epoch, burned>>
    BY DEF process_withdraw
  <1>2. /\ source \in StakeAddrs /\ addr \in StakeAddrs /\ source # addr
        /\ stake[source] \in StakeAccount /\ pool \in StakePoolAccount
        /\ stake \in [StakeAddrs -> StakeAccount]
    BY AddressFacts DEF IInv, TypeOK
  <1> HIDE DEF source, amount
  <1>3. rest \in StakeAccount /\ split \in StakeAccount
    BY <1>1, <1>2, SplitFacts
  <1> HIDE DEF rest, split
  <1>4. out \in StakeAccount
    BY <1>3, AuthorizedBothFacts
  <1> HIDE DEF out
  <1>5. /\ supply' \in U64 /\ token' \in [Users -> Nat] /\ n \in U64
        /\ Sub64(pool.pool_total, n) = Add64(supply', burned')
    BY <1>1, BurnFacts
  <1>6. /\ pool' \in StakePoolAccount
        /\ pool'.pool_total = Sub64(pool.pool_total, n)
        /\ pool'.last_update_epoch = pool.last_update_epoch
        /\ pool'.version = pool.version
    BY <1>1, <1>2, <1>5, DebitFacts
  <1>7. /\ stake' \in [StakeAddrs -> StakeAccount]
        /\ stake'[source] = rest /\ stake'[addr] = out
        /\ \A x \in StakeAddrs \ {source, addr} : stake'[x] = stake[x]
    BY <1>1, <1>2, <1>3, <1>4
  <1>8. stake'[source].lamports \in U64
    BY <1>3, <1>7 DEF StakeAccount
  <1>9. /\ list' \in SUBSET ValidatorStakeInfo
        /\ FreshPoolHasFreshRecords' /\ OneRecordPerValidator'
        /\ \A r \in list : \E q \in list' :
             q.validator_account = r.validator_account
    BY <1>1, <1>6, <1>8, BalancesOnly
  <1>10. cash' \in Nat
    BY <1>1, RentAssumption DEF IInv, TypeOK
  <1>11. TypeOK'
    BY <1>1, <1>5, <1>6, <1>7, <1>9, <1>10 DEF IInv, TypeOK
  <1>12. QED
    BY <1>1, <1>5, <1>6, <1>9, <1>11
       DEF IInv, PoolTotalIsSupply, IsInitialized

\* A step that rewrites stake accounts, and neither the list nor the pool,
\* keeps the invariant.
LEMMA AccountsStep ==
  ASSUME IInv, stake' \in [StakeAddrs -> StakeAccount],
         cash' \in Nat, UNCHANGED <<epoch, pool, list, token, supply, burned>>
  PROVE  IInv'
  BY DEF IInv, TypeOK, PoolTotalIsSupply, FreshPoolHasFreshRecords,
         OneRecordPerValidator

\* One that rewrites one account.
LEMMA OneAccountStep ==
  ASSUME IInv, NEW addr \in StakeAddrs, NEW new \in StakeAccount,
         stake' = [stake EXCEPT ![addr] = new],
         cash' \in Nat, UNCHANGED <<epoch, pool, list, token, supply, burned>>
  PROVE  IInv'
  <1>1. stake' \in [StakeAddrs -> StakeAccount]
    BY DEF IInv, TypeOK
  <1>2. QED BY <1>1, AccountsStep

\* CreateValidatorStakeAccount, for any staker and withdrawer.
LEMMA CreateStep ==
  ASSUME IInv, NEW v \in Validators, NEW k \in Keys, NEW w \in Keys,
         process_create_validator_stake_account(v, k, w)
  PROVE  IInv'
  <1> DEFINE addr == StakeAddress(v)
             new == [state |-> "Initialized", lamports |-> OneSol + RentReserve,
                     staker |-> k, withdrawer |-> w, voter |-> NoKey]
  <1>1. new \in StakeAccount
    BY PoolAssumption DEF StakeAccount
  <1>2. addr \in StakeAddrs
    BY AddressFacts
  <1>3. /\ stake' = [stake EXCEPT ![addr] = new]
        /\ OneSol + RentReserve <= cash /\ cash' = cash - (OneSol + RentReserve)
        /\ UNCHANGED <<epoch, pool, list, token, supply, burned>>
    BY DEF process_create_validator_stake_account
  <1>4. cash' \in Nat
    BY <1>3, PoolAssumption, RentAssumption DEF IInv, TypeOK
  <1> HIDE DEF new, addr
  <1>5. QED BY <1>1, <1>2, <1>3, <1>4, OneAccountStep

\* SetStakingAuthority, on any account and for any key.
LEMMA SetStakingAuthStep ==
  ASSUME IInv, NEW u \in Users, NEW addr \in StakeAddrs, NEW k \in Keys,
         process_set_staking_auth(u, addr, k)
  PROVE  IInv'
  <1> DEFINE new == Authorized(stake[addr], k, "Staker")
  <1>1. /\ stake' = [stake EXCEPT ![addr] = new]
        /\ UNCHANGED <<epoch, pool, list, token, supply, cash, burned>>
    BY DEF process_set_staking_auth
  <1>2. stake[addr] \in StakeAccount /\ k \in Keys \cup {NoKey}
    BY DEF IInv, TypeOK
  <1>3. new \in StakeAccount
    BY <1>2, AuthorizedFacts
  <1>4. cash' \in Nat
    BY <1>1 DEF IInv, TypeOK
  <1> HIDE DEF new
  <1>5. QED BY <1>1, <1>3, <1>4, OneAccountStep

\* SetOwner.
LEMMA SetOwnerStep ==
  ASSUME IInv, NEW u \in Users, NEW w \in Users, NEW f \in Users,
         process_set_owner(u, w, f)
  PROVE  IInv'
  <1> USE DEF process_set_owner
  <1>1. /\ pool' \in StakePoolAccount
        /\ pool'.pool_total = pool.pool_total
        /\ pool'.last_update_epoch = pool.last_update_epoch
        /\ pool'.version = pool.version
    BY DEF IInv, TypeOK, StakePoolAccount
  <1>2. TypeOK'
    BY <1>1 DEF IInv, TypeOK
  <1>3. QED
    BY <1>1, <1>2 DEF IInv, PoolTotalIsSupply, FreshPoolHasFreshRecords,
                      OneRecordPerValidator

\* What wallets do to stake accounts.
LEMMA UserStakeStep ==
  ASSUME IInv, NEW u \in Users, NEW addr \in StakeAddrs,
         \/ \E v \in Validators, n \in UserDeposits :
              UserCreatesStake(u, addr, v, n)
         \/ \E v \in Validators : UserDelegates(u, addr, v)
         \/ \E key \in Keys, kind \in {"Staker", "Withdrawer"} :
              UserAuthorizes(u, addr, key, kind)
         \/ UserClosesStake(u, addr)
  PROVE  IInv'
  <1>1. /\ stake \in [StakeAddrs -> StakeAccount]
        /\ stake[addr] \in StakeAccount /\ cash \in Nat
    BY DEF IInv, TypeOK
  <1>2. ASSUME NEW v \in Validators, NEW n \in UserDeposits,
               UserCreatesStake(u, addr, v, n)
        PROVE  IInv'
    <2> DEFINE new == [state |-> "Stake", lamports |-> n, staker |-> u,
                       withdrawer |-> u, voter |-> v]
    <2>1. n \in U64 /\ n \in Nat
      BY PoolAssumption, U64MaxAssumption DEF U64
    <2>2. new \in StakeAccount
      BY <1>1, <2>1 DEF StakeAccount, Keys
    <2>3. cash' \in Nat
      BY <1>1, <1>2, <2>1 DEF UserCreatesStake
    <2>4. /\ stake' = [stake EXCEPT ![addr] = new]
          /\ UNCHANGED <<epoch, pool, list, token, supply, burned>>
      BY <1>2 DEF UserCreatesStake
    <2> HIDE DEF new
    <2>5. QED BY <2>2, <2>3, <2>4, OneAccountStep
  <1>3. ASSUME NEW v \in Validators, UserDelegates(u, addr, v)
        PROVE  IInv'
    <2> DEFINE new == [stake[addr] EXCEPT !.state = "Stake", !.voter = v]
    <2>1. new \in StakeAccount
      BY <1>1 DEF StakeAccount
    <2>2. /\ stake' = [stake EXCEPT ![addr] = new]
          /\ UNCHANGED <<epoch, pool, list, token, supply, cash, burned>>
      BY <1>1, <1>3 DEF UserDelegates
    <2> HIDE DEF new
    <2>3. QED BY <1>1, <2>1, <2>2, OneAccountStep
  <1>4. ASSUME NEW key \in Keys, NEW kind \in {"Staker", "Withdrawer"},
               UserAuthorizes(u, addr, key, kind)
        PROVE  IInv'
    <2> DEFINE new == Authorized(stake[addr], key, kind)
    <2>1. new \in StakeAccount
      BY <1>1, AuthorizedFacts
    <2>2. /\ stake' = [stake EXCEPT ![addr] = new]
          /\ UNCHANGED <<epoch, pool, list, token, supply, cash, burned>>
      BY <1>4 DEF UserAuthorizes
    <2> HIDE DEF new
    <2>3. QED BY <1>1, <2>1, <2>2, OneAccountStep
  <1>5. ASSUME UserClosesStake(u, addr)
        PROVE  IInv'
    <2>1. /\ stake' = [stake EXCEPT ![addr] = NoAccount]
          /\ cash' = cash + stake[addr].lamports
          /\ UNCHANGED <<epoch, pool, list, token, supply, burned>>
      BY <1>5 DEF UserClosesStake
    <2>2. cash' \in Nat
      BY <1>1, <2>1, U64MaxAssumption DEF StakeAccount, U64
    <2>3. QED BY <1>1, <2>1, <2>2, NoAccountFacts, OneAccountStep
  <1>6. QED BY <1>2, <1>3, <1>4, <1>5

\* What a staker does with two accounts.
LEMMA StakerStep ==
  ASSUME IInv, NEW u \in Users, NEW addr \in StakeAddrs,
         \/ \E dest \in UserStakes, n \in SplitSizes :
              UserSplits(u, addr, dest, n)
         \/ \E source \in StakeAddrs : UserMerges(u, addr, source)
  PROVE  IInv'
  <1>1. /\ stake \in [StakeAddrs -> StakeAccount]
        /\ stake[addr] \in StakeAccount /\ cash \in Nat
    BY DEF IInv, TypeOK
  <1>2. ASSUME NEW dest \in UserStakes, NEW n \in SplitSizes,
               UserSplits(u, addr, dest, n)
        PROVE  IInv'
    <2> DEFINE rest == SplitSource(stake[addr], n)
               split == SplitTarget(stake[addr], n)
    <2>1. n \in U64 /\ dest \in StakeAddrs
      BY PoolAssumption, AddressFacts
    <2>2. /\ CanSplit(stake[addr], u, n)
          /\ stake' = [stake EXCEPT ![addr] = rest, ![dest] = split]
          /\ RentReserve <= cash /\ cash' = cash - RentReserve
          /\ UNCHANGED <<epoch, pool, list, token, supply, burned>>
      BY <1>2 DEF UserSplits
    <2>3. rest \in StakeAccount /\ split \in StakeAccount
      BY <1>1, <2>1, <2>2, SplitFacts
    <2>4. cash' \in Nat
      BY <1>1, <2>2, RentAssumption
    <2> HIDE DEF rest, split
    <2>5. stake' \in [StakeAddrs -> StakeAccount]
      BY <1>1, <2>1, <2>2, <2>3
    <2>6. QED BY <2>2, <2>4, <2>5, AccountsStep
  <1>3. ASSUME NEW source \in StakeAddrs, UserMerges(u, addr, source)
        PROVE  IInv'
    <2> DEFINE merged == Merged(stake[addr], stake[source])
    <2>1. /\ CanMerge(stake[addr], stake[source], u)
          /\ stake' = [stake EXCEPT ![addr] = merged, ![source] = NoAccount]
          /\ UNCHANGED <<epoch, pool, list, token, supply, cash, burned>>
      BY <1>3 DEF UserMerges
    <2>2. stake[source] \in StakeAccount
      BY <1>1
    <2>3. merged \in StakeAccount
      BY <1>1, <2>1, <2>2, MergedFacts
    <2> HIDE DEF merged
    <2>4. stake' \in [StakeAddrs -> StakeAccount]
      BY <1>1, <2>1, <2>3, NoAccountFacts
    <2>5. cash' \in Nat
      BY <1>1, <2>1
    <2>6. QED BY <2>1, <2>4, <2>5, AccountsStep
  <1>4. QED BY <1>2, <1>3

\* Lamports that arrive from outside.
LEMMA OutsideTransferStep ==
  ASSUME IInv, NEW addr \in StakeAddrs, NEW n \in OutsideTransfers,
         OutsideTransfer(addr, n)
  PROVE  IInv'
  <1> DEFINE new == [stake[addr] EXCEPT !.lamports = @ + n]
  <1>1. n \in Nat /\ stake[addr] \in StakeAccount /\ cash \in Nat
        /\ stake \in [StakeAddrs -> StakeAccount]
    BY PoolAssumption DEF IInv, TypeOK
  <1>2. new \in StakeAccount
    BY <1>1 DEF OutsideTransfer, StakeAccount
  <1>3. /\ stake' = [stake EXCEPT ![addr] = new]
        /\ UNCHANGED <<epoch, pool, list, token, supply, burned>>
    BY <1>1 DEF OutsideTransfer
  <1>4. cash' \in Nat
    BY <1>1 DEF OutsideTransfer
  <1> HIDE DEF new
  <1>5. QED BY <1>2, <1>3, <1>4, OneAccountStep

\* A holder that burns tokens without the pool moves them from supply to
\* burned.
LEMMA UserBurnsStep ==
  ASSUME IInv, NEW u \in Users, NEW n \in Nat, UserBurns(u, n)
  PROVE  IInv'
  <1>1. /\ n <= supply /\ n <= token[u]
        /\ supply' = supply - n /\ burned' = burned + n
        /\ token' = [token EXCEPT ![u] = @ - n]
        /\ UNCHANGED <<epoch, pool, list, stake, cash>>
    BY DEF UserBurns, Burn
  <1>2. /\ supply \in U64 /\ supply \in Nat /\ burned \in Nat
        /\ token \in [Users -> Nat]
    BY U64MaxAssumption DEF IInv, TypeOK, U64
  <1>3. supply' \in U64 /\ burned' \in Nat /\ supply' + burned' = supply + burned
    BY <1>1, <1>2, U64MaxAssumption DEF U64
  <1>4. token' \in [Users -> Nat]
    BY <1>1, <1>2
  <1>5. TypeOK'
    BY <1>1, <1>3, <1>4 DEF IInv, TypeOK
  <1>6. PoolTotalIsSupply'
    BY <1>1, <1>3 DEF IInv, PoolTotalIsSupply, Add64
  <1>7. QED
    BY <1>1, <1>5, <1>6 DEF IInv, FreshPoolHasFreshRecords,
                            OneRecordPerValidator

\* A new epoch pays rewards and leaves the pool behind.
LEMMA NextEpochStep ==
  ASSUME IInv, NEW paid \in SUBSET StakeAddrs, NextEpoch(paid)
  PROVE  IInv'
  <1>1. /\ epoch < MaxEpoch /\ epoch' = epoch + 1
        /\ \A x \in paid : stake[x].lamports + Reward \in U64
        /\ stake' = [x \in StakeAddrs |->
                       IF x \in paid
                       THEN [stake[x] EXCEPT !.lamports = @ + Reward]
                       ELSE stake[x]]
        /\ UNCHANGED <<pool, list, token, supply, cash, burned>>
    BY DEF NextEpoch
  <1>2. /\ epoch \in Nat /\ epoch' \in 0 .. MaxEpoch /\ epoch <= epoch'
        /\ stake \in [StakeAddrs -> StakeAccount]
    BY <1>1, PoolAssumption DEF IInv, TypeOK
  <1>3. \A x \in StakeAddrs : stake'[x] \in StakeAccount
    <2> SUFFICES ASSUME NEW x \in StakeAddrs PROVE stake'[x] \in StakeAccount
      OBVIOUS
    <2>1. stake[x] \in StakeAccount
      BY <1>2
    <2>2. stake'[x] = IF x \in paid
                      THEN [stake[x] EXCEPT !.lamports = @ + Reward]
                      ELSE stake[x]
      BY <1>1
    <2>3. CASE x \in paid
      BY <1>1, <2>1, <2>2, <2>3 DEF StakeAccount
    <2>4. CASE x \notin paid
      BY <2>1, <2>2, <2>4
    <2>5. QED BY <2>3, <2>4
  <1>4. TypeOK'
    BY <1>1, <1>2, <1>3 DEF IInv, TypeOK
  <1>5. FreshPoolHasFreshRecords'
    <2>1. /\ pool.last_update_epoch \in Nat
          /\ \A r \in list : r.last_update_epoch \in Nat
      BY DEF IInv, TypeOK, StakePoolAccount, ValidatorStakeInfo
    <2>2. epoch' \in Nat
      BY <1>1, <1>2
    <2>3. QED BY <1>1, <1>2, <2>1, <2>2 DEF IInv, FreshPoolHasFreshRecords
  <1>6. QED
    BY <1>1, <1>4, <1>5 DEF IInv, PoolTotalIsSupply, OneRecordPerValidator

-----------------------------------------------------------------------------
\* Every step of the system keeps the invariant.
LEMMA NextIInv == IInv /\ [Next]_vars => IInv'
  <1> SUFFICES ASSUME IInv, [Next]_vars PROVE IInv'
    OBVIOUS
  <1>1. token \in [Users -> Nat]
    BY DEF IInv, TypeOK
  <1>2. CASE OwnerNext
    BY <1>2, InitializeStep, AddStep, RemoveStep, SetStakingAuthStep,
       SetOwnerStep, PoolAssumption DEF OwnerNext
  <1>3. CASE AnyoneNext
    <2>1. ASSUME NEW v \in Validators, NEW k \in Authorities,
                 NEW w \in Authorities,
                 process_create_validator_stake_account(v, k, w)
          PROVE  IInv'
      BY <2>1, CreateStep, PoolAssumption
    <2>2. ASSUME NEW accounts \in UpdateArguments,
                 process_update_list_balance(accounts)
          PROVE  IInv'
      BY <2>2, UpdateListStep
    <2>3. CASE process_update_pool_balance
      BY <2>3, UpdatePoolStep
    <2>4. ASSUME NEW addr \in StakeAddrs, NEW v \in Validators, NEW u \in Users,
                 process_deposit(addr, v, u)
          PROVE  IInv'
      BY <2>4, DepositStep
    <2>5. ASSUME NEW u \in Users, NEW v \in Validators, NEW addr \in UserStakes,
                 NEW k \in Authorities, NEW n \in 1 .. token[u],
                 process_withdraw(u, v, addr, k, n)
          PROVE  IInv'
      <3>1. n \in Nat /\ k \in Keys
        BY <1>1, PoolAssumption
      <3>2. QED BY <2>5, <3>1, WithdrawStep
    <2>6. CASE CliUpdate \/ \E force \in BOOLEAN : MetacliUpdate(force)
      BY <2>6, UpdateTransactionStep DEF CliUpdate, MetacliUpdate
    <2>7. QED BY <1>3, <2>1, <2>2, <2>3, <2>4, <2>5, <2>6 DEF AnyoneNext
  <1>4. CASE EnvironmentNext
    <2>1. ASSUME NEW u \in Users, NEW addr \in UserStakes, NEW v \in Validators,
                 NEW n \in UserDeposits, UserCreatesStake(u, addr, v, n)
          PROVE  IInv'
      <3>1. addr \in StakeAddrs
        BY AddressFacts
      <3>2. QED BY <2>1, <3>1, UserStakeStep
    <2>2. ASSUME NEW u \in Users, NEW addr \in StakeAddrs, UserNext(u, addr)
          PROVE  IInv'
      <3>1. Authorities \subseteq Keys
        BY PoolAssumption
      <3>2. QED BY <2>2, <3>1, UserStakeStep, StakerStep DEF UserNext
    <2>3. ASSUME NEW addr \in StakeAddrs, NEW n \in OutsideTransfers,
                 OutsideTransfer(addr, n)
          PROVE  IInv'
      BY <2>3, OutsideTransferStep
    <2>4. ASSUME NEW u \in Users, NEW n \in 1 .. token[u], UserBurns(u, n)
          PROVE  IInv'
      <3>1. n \in Nat
        BY <1>1
      <3>2. QED BY <2>4, <3>1, UserBurnsStep
    <2>5. ASSUME NEW paid \in SUBSET StakeAddrs, NextEpoch(paid)
          PROVE  IInv'
      BY <2>5, NextEpochStep
    <2>6. QED BY <1>4, <2>1, <2>2, <2>3, <2>4, <2>5 DEF EnvironmentNext
  <1>5. CASE UNCHANGED vars
    BY <1>5 DEF vars, IInv, TypeOK, PoolTotalIsSupply, FreshPoolHasFreshRecords,
                OneRecordPerValidator
  <1>6. QED BY <1>2, <1>3, <1>4, <1>5 DEF Next

\* The inductive invariant holds in every reachable state.
THEOREM Invariance == Spec => []IInv
  BY InitIInv, NextIInv, PTL DEF Spec

\* No account of the pool ever leaves the shape state.rs and stake.rs give
\* it: the wrapped counters, the merged and split balances are u64.
THEOREM TypeCorrect == Spec => []TypeOK
  <1>1. IInv => TypeOK
    BY DEF IInv
  <1>2. QED BY <1>1, Invariance, PTL

\* pool_total and the supply of the mint never drift apart, except by what
\* holders burn themselves.
THEOREM CounterFollowsMint == Spec => []PoolTotalIsSupply
  <1>1. IInv => PoolTotalIsSupply
    BY DEF IInv
  <1>2. QED BY <1>1, Invariance, PTL

\* A pool that deposits and withdrawals accept as up to date has no stale
\* record.
THEOREM FreshnessSound == Spec => []FreshPoolHasFreshRecords
  <1>1. IInv => FreshPoolHasFreshRecords
    BY DEF IInv
  <1>2. QED BY <1>1, Invariance, PTL

\* No validator is ever counted twice by UpdatePoolBalance.
THEOREM RecordsUnique == Spec => []OneRecordPerValidator
  <1>1. IInv => OneRecordPerValidator
    BY DEF IInv
  <1>2. QED BY <1>1, Invariance, PTL

=============================================================================
