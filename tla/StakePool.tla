------------------------------ MODULE StakePool ------------------------------
(***************************************************************************)
(* The stake pool program (program/src/processor.rs): one pool, its        *)
(* validator stake list, the stake accounts it manages and the mint of its *)
(* token, with every instruction of the pool as one action.                *)
(*                                                                         *)
(* An instruction is atomic: when a check or an invoked program fails, the *)
(* runtime discards all of its writes.  So an action has the conjunction   *)
(* of the handler's checks as its guard, and a failing call is no step.    *)
(* The transactions of many wallets interleave freely, the clock moves     *)
(* between them, and stake accounts change without the pool being told     *)
(* (staking rewards, plain transfers, the native program called by whoever *)
(* is staker or withdrawer of an account).                                 *)
(*                                                                         *)
(* Deposit and Withdraw do not compare the mint they are given with        *)
(* pool_mint, as Add and Remove do.  The model covers calls that pass the  *)
(* pool's own mint.                                                        *)
(***************************************************************************)
EXTENDS StakeAccounts, FiniteSetsExt

CONSTANTS
  OneSol,            \* sol_to_lamports(1.0)
  VoteLamports,      \* lamports a vote account holds
  MaxValidators,     \* MAX_VALIDATOR_STAKE_ACCOUNTS, 1000 in the code
  Fees,              \* fees an owner may pass to Initialize
  \* Bounds on the environment.
  Authorities,       \* keys that callers name as staker and withdrawer
  Stakers,           \* keys the owner passes to SetStakingAuthority
  Cash,              \* lamports outside stake accounts at the start
  UserDeposits,      \* sizes of the stake accounts users create
  SplitSizes,        \* lamports that users split off an account
  OutsideTransfers,  \* sizes of plain transfers into stake accounts
  Reward,            \* lamports an account earns at an epoch boundary
  MaxBurned,         \* tokens that holders burn by themselves
  MaxEpoch           \* last epoch of the model

ASSUME PoolAssumption ==
  /\ OneSol \in Nat \ {0} /\ OneSol + RentReserve \in U64
  /\ VoteLamports \in U64
  /\ MaxValidators \in Nat
  /\ Fees \subseteq [numerator : Nat, denominator : Nat]
  /\ Authorities \subseteq Keys /\ Stakers \subseteq Keys
  /\ Cash \in Nat /\ Reward \in Nat /\ MaxBurned \in Nat /\ MaxEpoch \in Nat
  /\ UserDeposits \subseteq U64 \ {0} /\ OutsideTransfers \subseteq Nat \ {0}
  /\ SplitSizes \subseteq U64

VARIABLES
  epoch,    \* the Clock sysvar
  pool,     \* the StakePool account
  list,     \* the ValidatorStakeList account: its records
  stake,    \* every stake account, by address
  token,    \* pool tokens, by the wallet that owns the token account
  supply,   \* supply of the pool mint
  cash,     \* lamports outside stake accounts
  burned    \* history: pool tokens that holders burned by themselves

vars == <<epoch, pool, list, stake, token, supply, cash, burned>>

(***************************************************************************)
(* struct StakePool and struct ValidatorStakeInfo.  Bump seeds and the     *)
(* keys of the list, the mint and the token program are fixed when the     *)
(* pool is initialized and every client passes the right ones.  version    *)
(* also stands for the list's: Initialize sets both, nothing else does.    *)
(***************************************************************************)
StakePoolAccount ==
  [version : {0, 1}, owner : Users \cup {NoKey},
   owner_fee_account : Users \cup {NoKey},
   stake_total : U64, pool_total : U64, last_update_epoch : Nat,
   fee : [numerator : Nat, denominator : Nat]]

ValidatorStakeInfo ==
  [validator_account : Validators, balance : U64, last_update_epoch : Nat]

\* The order of the records is never observable: every lookup is by key and
\* every pass visits all of them, so the list is the set of its records.
\* Mutant of Contains: a record with a zero balance counts as absent.
ContainsFunded(l, v) == \E r \in l : r.validator_account = v /\ r.balance > 0

Contains(l, v) == \E r \in l : r.validator_account = v

Retain(l, v) == {r \in l : r.validator_account # v}

\* Mutant of SetBalance: the record is looked up but not written back.
SetBalanceLost(l, v, n) == l

SetBalance(l, v, n) ==
  {IF r.validator_account = v THEN [r EXCEPT !.balance = n] ELSE r : r \in l}

SumBalances(l) == SumFunctionOnSet([r \in l |-> r.balance], l)

-----------------------------------------------------------------------------
(***************************************************************************)
(* Checks that several handlers share.                                     *)
(***************************************************************************)
IsInitialized == pool.version > 0

\* check_owner: the owner's key, and its signature on the transaction.
CheckOwner(signer) == pool.owner = signer

\* last_update_epoch < clock.epoch is StakeListAndPoolOutOfDate.
UpToDate == pool.last_update_epoch >= epoch

\* get_validator_checked: the account is delegated, and its address is the
\* program address of the validator it is delegated to.
DelegatedTo(addr, v) ==
  /\ stake[addr].state = "Stake"
  /\ stake[addr].voter = v
  /\ addr = StakeAddress(v)

(***************************************************************************)
(* The two counters of the pool account, which every handler that moves    *)
(* stake writes with += and -=.                                            *)
(***************************************************************************)
Credit(p, tokens, lamports) ==
  [p EXCEPT !.pool_total = Add64(@, tokens),
            !.stake_total = Add64(@, lamports)]

\* Mutant of Debit: the two amounts are swapped.
DebitSwapped(p, tokens, lamports) ==
  [p EXCEPT !.pool_total = Sub64(@, lamports),
            !.stake_total = Sub64(@, tokens)]

Debit(p, tokens, lamports) ==
  [p EXCEPT !.pool_total = Sub64(@, tokens),
            !.stake_total = Sub64(@, lamports)]

(***************************************************************************)
(* The pool mint, driven by the token program (external), which refuses to *)
(* let the supply overflow.                                                *)
(***************************************************************************)
MintTo(holder, n) ==
  /\ supply + n \in U64
  /\ supply' = supply + n
  /\ token' = [token EXCEPT ![holder] = @ + n]

\* Mutant of Burn: the tokens stay with the holder.
BurnSkipped(holder, n) ==
  /\ n <= token[holder]
  /\ UNCHANGED <<supply, token>>

\* Burn through the allowance the holder approves in the same transaction.
Burn(holder, n) ==
  /\ n <= token[holder] /\ n <= supply
  /\ supply' = supply - n
  /\ token' = [token EXCEPT ![holder] = @ - n]

-----------------------------------------------------------------------------
(***************************************************************************)
(* Instructions of the pool.                                               *)
(***************************************************************************)

\* The pool account is fresh, so stake_total and pool_total are zero and
\* stay what they are.
process_initialize(owner, fee) ==
  /\ ~IsInitialized
  /\ fee.numerator <= fee.denominator
  /\ pool' = [pool EXCEPT !.version = 1,
                          !.owner = owner,
                          !.owner_fee_account = owner,
                          !.last_update_epoch = epoch,
                          !.fee = fee]
  /\ list' = {}
  /\ UNCHANGED <<epoch, stake, token, supply, cash, burned>>

\* No check of the pool or its owner: any funder may create the account, for
\* any staker and withdrawer, the pool's own withdraw authority included.
process_create_validator_stake_account(v, staker, withdrawer) ==
  LET addr == StakeAddress(v)
      required_lamports == OneSol + RentReserve
  IN /\ stake[addr].state = "None"
     /\ required_lamports <= cash
     /\ stake' = [stake EXCEPT ![addr] =
                    [state |-> "Initialized", lamports |-> required_lamports,
                     staker |-> staker, withdrawer |-> withdrawer,
                     voter |-> NoKey]]
     /\ cash' = cash - required_lamports
     /\ UNCHANGED <<epoch, pool, list, token, supply, burned>>

process_add_validator_stake_account(signer, v, dest_user) ==
  LET addr == StakeAddress(v)
      stake_lamports == stake[addr].lamports
      token_amount == calc_pool_deposit_amount(pool, stake_lamports)
  IN /\ IsInitialized /\ CheckOwner(signer) /\ UpToDate
     /\ DelegatedTo(addr, v)
     /\ ~Contains(list, v)
     /\ CanAuthorizeBoth(stake[addr], DepositAuthority, WithdrawAuthority)
     /\ token_amount \in U64
     /\ MintTo(dest_user, token_amount)
     /\ Cardinality(list) < MaxValidators
     /\ stake' = [stake EXCEPT ![addr] = AuthorizedBoth(@, WithdrawAuthority)]
     /\ list' = list \cup {[validator_account |-> v,
                            balance |-> stake_lamports,
                            last_update_epoch |-> epoch]}
     /\ pool' = Credit(pool, token_amount, stake_lamports)
     /\ UNCHANGED <<epoch, cash, burned>>

\* The tokens may come from any account that approved the withdraw authority.
process_remove_validator_stake_account(signer, burn_from, v, new_authority) ==
  LET addr == StakeAddress(v)
      stake_lamports == stake[addr].lamports
      token_amount == calc_pool_withdraw_amount(pool, stake_lamports)
  IN /\ IsInitialized /\ CheckOwner(signer) /\ UpToDate
     /\ DelegatedTo(addr, v)
     /\ Contains(list, v)
     /\ CanAuthorizeBoth(stake[addr], WithdrawAuthority, new_authority)
     /\ token_amount \in U64
     /\ Burn(burn_from, token_amount)
     /\ stake' = [stake EXCEPT ![addr] = AuthorizedBoth(@, new_authority)]
     /\ list' = Retain(list, v)
     /\ pool' = Debit(pool, token_amount, stake_lamports)
     /\ UNCHANGED <<epoch, cash, burned>>

\* The accounts callers pass: some vote accounts of the list, as the clients
\* do (in chunks), or stake accounts, as the instruction documents.
UpdateArguments == (SUBSET Validators) \cup {PoolStakes}

AccountLamports(k) == IF k \in Validators THEN VoteLamports
                                          ELSE stake[k].lamports

\* An account updates the record whose validator_account is its own key.
MatchesRecord(k, r) == k = r.validator_account

UpdatedRecord(r, accounts) ==
  IF r.last_update_epoch < epoch /\ \E k \in accounts : MatchesRecord(k, r)
  THEN [r EXCEPT !.last_update_epoch = epoch,
                 !.balance = AccountLamports(CHOOSE k \in accounts :
                                                MatchesRecord(k, r))]
  ELSE r

process_update_list_balance(accounts) ==
  /\ IsInitialized
  /\ list' = {UpdatedRecord(r, accounts) : r \in list}
  /\ UNCHANGED <<epoch, pool, stake, token, supply, cash, burned>>

\* Mutant of process_update_pool_balance: no check of the records' epochs.
UpdatePoolUnchecked ==
  /\ IsInitialized
  /\ pool' = [pool EXCEPT !.stake_total = SumBalances(list),
                          !.last_update_epoch = epoch]
  /\ UNCHANGED <<epoch, list, stake, token, supply, cash, burned>>

\* Lamports are never more than the native supply, which fits a u64, so the
\* running total does not wrap; the conjunct states the bound.
process_update_pool_balance ==
  /\ IsInitialized
  /\ \A r \in list : r.last_update_epoch >= epoch
  /\ SumBalances(list) \in U64
  /\ pool' = [pool EXCEPT !.stake_total = SumBalances(list),
                          !.last_update_epoch = epoch]
  /\ UNCHANGED <<epoch, list, stake, token, supply, cash, burned>>

(***************************************************************************)
(* The update command of the clients: one transaction that updates the     *)
(* records with the vote accounts of the list, in chunks, and then the     *)
(* pool.  What the client reads over RPC is taken to be current: when the  *)
(* epoch changes in between, the last instruction fails and the command is *)
(* run again.                                                              *)
(***************************************************************************)
UpdateTransaction ==
  LET updated == {UpdatedRecord(r, Validators) : r \in list}
  IN /\ IsInitialized
     /\ \A r \in updated : r.last_update_epoch >= epoch
     /\ SumBalances(updated) \in U64
     /\ list' = updated
     /\ pool' = [pool EXCEPT !.stake_total = SumBalances(updated),
                             !.last_update_epoch = epoch]
     /\ UNCHANGED <<epoch, stake, token, supply, cash, burned>>

\* No record is out of date: "Stake pool balances are up to date, no update
\* required."
NothingToUpdate == \A r \in list : r.last_update_epoch >= epoch

\* command_update of cli.
CliUpdate == ~NothingToUpdate /\ UpdateTransaction

\* command_update of metacli, with or without --force.
MetacliUpdate(force) ==
  /\ force \/ ~NothingToUpdate \/ list = {}
  /\ UpdateTransaction

\* The fee on deposits is disabled: fee_amount is the constant 0.
process_deposit(addr, v, dest_user) ==
  LET target == StakeAddress(v)
      joined == AuthorizedBoth(stake[addr], WithdrawAuthority)
      stake_lamports == stake[addr].lamports
      pool_amount == calc_pool_deposit_amount(pool, stake_lamports)
  IN /\ IsInitialized /\ UpToDate
     /\ addr # target
     /\ DelegatedTo(target, v)
     /\ Contains(list, v)
     /\ pool_amount \in U64
     /\ CanAuthorizeBoth(stake[addr], DepositAuthority, WithdrawAuthority)
     /\ CanMerge(stake[target], joined, WithdrawAuthority)
     /\ stake' = [stake EXCEPT ![target] = Merged(@, joined),
                               ![addr] = NoAccount]
     /\ MintTo(dest_user, pool_amount)
     /\ pool' = Credit(pool, pool_amount, stake_lamports)
     /\ list' = SetBalance(list, v, stake'[target].lamports)
     /\ UNCHANGED <<epoch, cash, burned>>

\* Nobody signs but the withdraw authority: whoever sends the transaction may
\* name any approved token account and any new authority.  The client creates
\* the receiving account, with its rent reserve, in the same transaction.
process_withdraw(burn_from, v, addr, new_authority, pool_amount) ==
  LET source == StakeAddress(v)
      stake_amount == calc_lamports_amount(pool, pool_amount)
      target == SplitTarget(stake[source], stake_amount)
  IN /\ IsInitialized /\ UpToDate
     /\ DelegatedTo(source, v)
     /\ Contains(list, v)
     /\ stake_amount \in U64
     /\ stake[addr].state = "None" /\ RentReserve <= cash
     /\ CanSplit(stake[source], WithdrawAuthority, stake_amount)
     /\ CanAuthorizeBoth(target, WithdrawAuthority, new_authority)
     /\ stake' = [stake EXCEPT ![source] = SplitSource(@, stake_amount),
                               ![addr] = AuthorizedBoth(target, new_authority)]
     /\ Burn(burn_from, pool_amount)
     /\ pool' = Debit(pool, pool_amount, stake_amount)
     /\ list' = SetBalance(list, v, stake'[source].lamports)
     /\ cash' = cash - RentReserve
     /\ UNCHANGED <<epoch, burned>>

\* Mutant of process_set_staking_auth: hands over the withdrawer.
SetWithdrawer(signer, addr, staker) ==
  /\ IsInitialized /\ CheckOwner(signer)
  /\ CanAuthorize(stake[addr], WithdrawAuthority, "Staker")
  /\ stake' = [stake EXCEPT ![addr] = Authorized(@, staker, "Withdrawer")]
  /\ UNCHANGED <<epoch, pool, list, token, supply, cash, burned>>

\* Any account on which the withdraw authority may set the staker; the list
\* is not consulted.
process_set_staking_auth(signer, addr, staker) ==
  /\ IsInitialized /\ CheckOwner(signer)
  /\ CanAuthorize(stake[addr], WithdrawAuthority, "Staker")
  /\ stake' = [stake EXCEPT ![addr] = Authorized(@, staker, "Staker")]
  /\ UNCHANGED <<epoch, pool, list, token, supply, cash, burned>>

\* Token accounts are named by their wallet and all belong to the pool mint.
process_set_owner(signer, new_owner, new_owner_fee) ==
  /\ IsInitialized /\ CheckOwner(signer)
  /\ pool' = [pool EXCEPT !.owner = new_owner,
                          !.owner_fee_account = new_owner_fee]
  /\ UNCHANGED <<epoch, list, stake, token, supply, cash, burned>>

-----------------------------------------------------------------------------
(***************************************************************************)
(* The environment: what wallets and the cluster do without the pool.      *)
(***************************************************************************)

\* A user creates a stake account and delegates it.
UserCreatesStake(user, addr, v, n) ==
  /\ stake[addr].state = "None" /\ n <= cash
  /\ stake' = [stake EXCEPT ![addr] =
                 [state |-> "Stake", lamports |-> n, staker |-> user,
                  withdrawer |-> user, voter |-> v]]
  /\ cash' = cash - n
  /\ UNCHANGED <<epoch, pool, list, token, supply, burned>>

\* DelegateStake, signed by the staker.
UserDelegates(user, addr, v) ==
  /\ stake[addr].state # "None" /\ stake[addr].staker = user
  /\ stake' = [stake EXCEPT ![addr].state = "Stake", ![addr].voter = v]
  /\ UNCHANGED <<epoch, pool, list, token, supply, cash, burned>>

\* Authorize, signed by a user, to any key: the way to the deposit authority,
\* and also straight to the withdraw authority.
UserAuthorizes(user, addr, key, kind) ==
  /\ CanAuthorize(stake[addr], user, kind)
  /\ stake' = [stake EXCEPT ![addr] = Authorized(@, key, kind)]
  /\ UNCHANGED <<epoch, pool, list, token, supply, cash, burned>>

\* Split, signed by the staker, who need not be the withdrawer: the part that
\* goes to the new account keeps both authorities.
UserSplits(user, addr, dest, n) ==
  /\ stake[dest].state = "None" /\ RentReserve <= cash
  /\ CanSplit(stake[addr], user, n)
  /\ stake' = [stake EXCEPT ![addr] = SplitSource(@, n),
                            ![dest] = SplitTarget(stake[addr], n)]
  /\ cash' = cash - RentReserve
  /\ UNCHANGED <<epoch, pool, list, token, supply, burned>>

\* Merge, signed by the staker of both accounts.
UserMerges(user, target, source) ==
  /\ target # source
  /\ CanMerge(stake[target], stake[source], user)
  /\ stake' = [stake EXCEPT ![target] = Merged(@, stake[source]),
                            ![source] = NoAccount]
  /\ UNCHANGED <<epoch, pool, list, token, supply, cash, burned>>

\* The withdrawer takes everything out; the account is gone.
UserClosesStake(user, addr) ==
  /\ stake[addr].state # "None" /\ stake[addr].withdrawer = user
  /\ cash' = cash + stake[addr].lamports
  /\ stake' = [stake EXCEPT ![addr] = NoAccount]
  /\ UNCHANGED <<epoch, pool, list, token, supply, burned>>

\* A plain transfer into a stake account: nobody can refuse lamports.
OutsideTransfer(addr, n) ==
  /\ stake[addr].state # "None" /\ n <= cash
  /\ stake[addr].lamports + n \in U64
  /\ stake' = [stake EXCEPT ![addr].lamports = @ + n]
  /\ cash' = cash - n
  /\ UNCHANGED <<epoch, pool, list, token, supply, burned>>

\* A holder burns tokens of its own with the token program.
UserBurns(user, n) ==
  /\ burned + n <= MaxBurned
  /\ Burn(user, n)
  /\ burned' = burned + n
  /\ UNCHANGED <<epoch, pool, list, stake, cash>>

\* The next epoch starts and pays rewards to some of the delegated accounts.
NextEpoch(paid) ==
  /\ epoch < MaxEpoch
  /\ \A addr \in paid : /\ stake[addr].state = "Stake"
                        /\ stake[addr].lamports + Reward \in U64
  /\ epoch' = epoch + 1
  /\ stake' = [addr \in StakeAddrs |->
                 IF addr \in paid
                 THEN [stake[addr] EXCEPT !.lamports = @ + Reward]
                 ELSE stake[addr]]
  /\ UNCHANGED <<pool, list, token, supply, cash, burned>>

-----------------------------------------------------------------------------
Init ==
  /\ epoch = 0
  /\ pool = [version |-> 0, owner |-> NoKey, owner_fee_account |-> NoKey,
             stake_total |-> 0, pool_total |-> 0, last_update_epoch |-> 0,
             fee |-> [numerator |-> 0, denominator |-> 0]]
  /\ list = {}
  /\ stake = [addr \in StakeAddrs |-> NoAccount]
  /\ token = [u \in Users |-> 0]
  /\ supply = 0
  /\ cash = Cash
  /\ burned = 0

OwnerNext ==
  \E u \in Users :
    \/ \E fee \in Fees : process_initialize(u, fee)
    \/ \E v \in Validators, w \in Users :
         process_add_validator_stake_account(u, v, w)
    \/ \E w \in Users, v \in Validators, k \in Authorities :
         process_remove_validator_stake_account(u, w, v, k)
    \/ \E addr \in StakeAddrs, k \in Stakers :
         process_set_staking_auth(u, addr, k)
    \/ \E w, f \in Users : process_set_owner(u, w, f)

AnyoneNext ==
  \/ \E v \in Validators, staker, withdrawer \in Authorities :
       process_create_validator_stake_account(v, staker, withdrawer)
  \/ \E accounts \in UpdateArguments : process_update_list_balance(accounts)
  \/ process_update_pool_balance
  \/ CliUpdate
  \/ \E force \in BOOLEAN : MetacliUpdate(force)
  \/ \E addr \in StakeAddrs, v \in Validators, u \in Users :
       process_deposit(addr, v, u)
  \/ \E u \in Users, v \in Validators, addr \in UserStakes, k \in Authorities :
       \E n \in 1 .. token[u] : process_withdraw(u, v, addr, k, n)

\* What the staker or the withdrawer of an account does to it.
UserNext(u, addr) ==
  \/ \E v \in Validators : UserDelegates(u, addr, v)
  \/ \E key \in Authorities, kind \in {"Staker", "Withdrawer"} :
       UserAuthorizes(u, addr, key, kind)
  \/ \E dest \in UserStakes, n \in SplitSizes : UserSplits(u, addr, dest, n)
  \/ \E source \in StakeAddrs : UserMerges(u, addr, source)
  \/ UserClosesStake(u, addr)

EnvironmentNext ==
  \/ \E u \in Users, addr \in UserStakes, v \in Validators :
       \E n \in UserDeposits : UserCreatesStake(u, addr, v, n)
  \/ \E u \in Users, addr \in StakeAddrs : UserNext(u, addr)
  \/ \E addr \in StakeAddrs, n \in OutsideTransfers : OutsideTransfer(addr, n)
  \/ \E u \in Users : \E n \in 1 .. token[u] : UserBurns(u, n)
  \/ \E paid \in SUBSET StakeAddrs : NextEpoch(paid)

Next == OwnerNext \/ AnyoneNext \/ EnvironmentNext

Spec == Init /\ [][Next]_vars

-----------------------------------------------------------------------------
(***************************************************************************)
(* Properties.                                                             *)
(***************************************************************************)

\* Every account of the pool has the shape the structs of state.rs and
\* stake.rs give it, and no counter leaves the u64 range.
TypeOK ==
  /\ epoch \in 0 .. MaxEpoch
  /\ pool \in StakePoolAccount
  /\ list \in SUBSET ValidatorStakeInfo
  /\ stake \in [StakeAddrs -> StakeAccount]
  /\ token \in [Users -> Nat]
  /\ supply \in U64
  /\ cash \in Nat
  /\ burned \in Nat

\* pool_total, the counter the handlers maintain by hand, is the supply of
\* the mint plus what holders burned without the pool (as a u64, for the
\* counter wraps), through every interleaving of Add, Remove, Deposit and
\* Withdraw.
PoolTotalIsSupply == pool.pool_total = Add64(supply, burned)

\* A pool that passes the last_update_epoch check has no record that would
\* fail it: the handlers check only the pool's epoch, and the records are
\* stamped by two other instructions.
FreshPoolHasFreshRecords ==
  /\ pool.last_update_epoch <= epoch
  /\ \A r \in list : /\ pool.last_update_epoch <= r.last_update_epoch
                     /\ r.last_update_epoch <= epoch

\* A validator has one record, also when its stake account was drained by a
\* withdrawal and created again while the record was still there.
OneRecordPerValidator ==
  \A r, q \in list : r.validator_account = q.validator_account => r = q

\* Lamports of an account that the pool controls.
CustodyLamports(addr) ==
  IF stake[addr].withdrawer = WithdrawAuthority THEN stake[addr].lamports
                                                ELSE 0

\* Stake leaves the pool's control only in exchange for tokens: what an
\* account of the pool loses goes to another account of the pool (a staker
\* split or merged it), or the tokens burned in the step are worth, at the
\* price before it, what left, up to the rounding of less than one token.
ExitsArePaid ==
  [][\A addr \in StakeAddrs :
       LET lost == CustodyLamports(addr) - CustodyLamports(addr)'
       IN lost > 0 =>
            \/ \E other \in StakeAddrs \ {addr} :
                 CustodyLamports(other)' - CustodyLamports(other) >= lost
            \/ lost * pool.pool_total
                 < (supply - supply' + 1) * pool.stake_total]_vars

\* Lamports the pool controls at a validator of its list.
Booked(v) ==
  IF Contains(list, v) THEN CustodyLamports(StakeAddress(v)) ELSE 0

\* When pool_total moves, stake_total moves by the lamports that really came
\* on or went off the books at one validator in the same step, and a record
\* that stays is their new amount; lamports that reached the account without
\* the pool are not counted twice.
TokensMoveWithStake ==
  [][pool.pool_total' # pool.pool_total =>
       \E v \in Validators :
         /\ pool.stake_total' = Add64(pool.stake_total, Booked(v)' - Booked(v))
         /\ \A r \in list' : r.validator_account = v => r.balance = Booked(v)'
         /\ \A w \in Validators \ {v} : Booked(w)' = Booked(w)]_vars

\* Rounding never favours the one who enters or leaves: Add, Deposit and
\* Withdraw do not lower stake_total / pool_total for the holders who stay;
\* Remove rounds the burned tokens down and lowers it by less than the price
\* of one token.  Steps in which a counter wraps are excluded: an entry that
\* leaves it smaller, an exit that leaves pool_total larger.
SharePriceHolds ==
  [][LET S == pool.stake_total   P == pool.pool_total
         removed == \E r \in list : ~Contains(list', r.validator_account)
     IN /\ supply' > supply /\ P' > P /\ S' >= S => S * P' <= S' * P
        /\ supply' < supply /\ P' < P /\ ~removed => S * P' <= S' * P
        /\ removed /\ P' <= P => S * P' < S' * P + S]_vars

\* No record of the first epoch promises more than the pool controls at its
\* validator, whatever is transferred to the account from outside and whoever
\* creates a drained account again, and with which authorities.  It takes an
\* owner who gives no other key the staking authority: a staker may split
\* lamports off a listed account and the record is not told.
RecordsBacked ==
  epoch = 0 =>
    \A r \in list :
      r.balance <= CustodyLamports(StakeAddress(r.validator_account))

\* What the vault holds, by account.
Custody == [addr \in StakeAddrs |-> CustodyLamports(addr)]

Vault == INSTANCE ShareVault
  WITH Places <- StakeAddrs,
       assets <- pool.stake_total, shares <- pool.pool_total,
       holding <- token, custody <- Custody

\* The pool implements the vault: the lamports it controls, its two counters
\* and the holders' tokens change only as ShareVault allows, whatever is done
\* to stake accounts, records, authorities, owners and epochs.  Stake leaves
\* only for tokens, tokens appear only for stake, both at the pool's price.
PoolIsVault == Vault!Spec

-----------------------------------------------------------------------------
(***************************************************************************)
(* Liveness.  Somebody keeps running cli's update command.                 *)
(***************************************************************************)
CliFairSpec == Spec /\ WF_vars(CliUpdate)

\* A pool left behind by a new epoch is brought up to date: deposits and
\* withdrawals do not stay refused with StakeListAndPoolOutOfDate.
EventuallyUpToDate ==
  \A e \in 0 .. MaxEpoch :
    (IsInitialized /\ epoch = e) ~> pool.last_update_epoch >= e

-----------------------------------------------------------------------------
(***************************************************************************)
(* What documents and comments say, and the code does not do.              *)
(***************************************************************************)

\* ValidatorStakeInfo.balance is the "Account balance in lamports" of the
\* validator stake account, brought up to date by UpdateListBalance: a record
\* of this epoch does not claim more than the account holds.
RecordIsStakeBalance ==
  \A r \in list :
    r.last_update_epoch = epoch =>
      r.balance <= stake[StakeAddress(r.validator_account)].lamports

=============================================================================
