---------------------------- MODULE Transactions ----------------------------
(***************************************************************************)
(* The chain as a client sees it: the stake pool and the liquidity pool    *)
(* side by side, the token allowances, and transactions, which are         *)
(* sequences of instructions that take effect all together or not at all.  *)
(*                                                                         *)
(* A transaction runs one instruction at a time, alone.  The instruction   *)
(* that cannot be executed ends it, and the runtime (external) puts back   *)
(* every account except for the fee.  Instructions are the actions of      *)
(* StakePool and LiquidityPool, or those of the system, stake and token    *)
(* programs the clients put around them.                                   *)
(***************************************************************************)
EXTENDS StakePool, Sequences

CONSTANTS
  TransactionFee,  \* lamports a transaction costs
  Rent,            \* rent-exempt balance of an account, by its kind
  NoTx             \* no transaction is running

AccountKinds == {"Mint", "Account", "StakePool", "ValidatorStakeList"}

ASSUME TransactionAssumption ==
  /\ TransactionFee \in Nat
  /\ Rent \in [AccountKinds -> Nat]

(***************************************************************************)
(* The instructions the clients build, with the accounts and data they     *)
(* pass; keys that are the same in every transaction are left out.         *)
(***************************************************************************)
InstructionData ==
  [ix : {"Initialize"}, fee : Fees]
  \cup [ix : {"CreateValidatorStakeAccount"}, validator : Validators]
  \cup [ix : {"AddValidatorStakeAccount"}, stake : StakeAddrs, receiver : Users]
  \cup [ix : {"RemoveValidatorStakeAccount"}, stake : StakeAddrs,
        burn_from : Users, new_authority : Users]
  \cup [ix : {"UpdateListBalance"}, accounts : SUBSET Validators]
  \cup [ix : {"UpdatePoolBalance"}]
  \cup [ix : {"Deposit"}, stake : StakeAddrs, validator : Validators,
        receiver : Users]
  \cup [ix : {"Withdraw"}, stake : StakeAddrs, receiver : UserStakes,
        burn_from : Users, amount : U64]
  \cup [ix : {"SetStakingAuthority"}, stake : PoolStakes,
        staker : Users \cup {WithdrawAuthority}]
  \cup [ix : {"SetOwner"}, new_owner : Users, new_fee_receiver : Users]
  \cup [ix : {"AddLiquidity", "SellstSOL"}, amount : U64]
  \cup [ix : {"CreateAccount"}, kind : AccountKinds]
  \cup [ix : {"Authorize"}, stake : StakeAddrs, kind : {"Staker", "Withdrawer"}]
  \cup [ix : {"Approve"}, burn_from : Users, amount : U64]

\* What a transaction that fails puts back.
SavedAccounts ==
  [pool : StakePoolAccount, list : SUBSET ValidatorStakeInfo,
   stake : [StakeAddrs -> StakeAccount], token : [Users -> Nat],
   supply : U64, cash : Nat, allowance : [Users -> Nat]]

VARIABLES
  allowance,      \* pool tokens the withdraw authority may burn, by wallet
  liq,            \* the liquidity pool's wSOL and stSOL token accounts
  metalp_supply,  \* supply of the METALP mint
  metalp,         \* METALP by wallet
  wsol,           \* wSOL by wallet
  tx              \* the running transaction

liqVars == <<liq, metalp_supply, metalp, wsol>>
chainVars == <<vars, allowance, liqVars>>

\* What SellstSOL reads of the stake pool's account.
PricingAccount ==
  [version |-> pool.version, stake_total |-> pool.stake_total,
   pool_total |-> pool.pool_total, fee |-> pool.fee]

Liquidity == INSTANCE LiquidityPool
  WITH stake_pool <- PricingAccount, stsol <- token,
       PoolStates <- {}, UserWsol <- 0

-----------------------------------------------------------------------------
(***************************************************************************)
(* Instructions of other programs.  New accounts have fresh keys, so       *)
(* creating and initializing one only moves its rent.                      *)
(***************************************************************************)
create_account(kind) ==
  /\ Rent[kind] <= cash
  /\ cash' = cash - Rent[kind]
  /\ UNCHANGED <<epoch, pool, list, stake, token, supply, burned, allowance>>
  /\ UNCHANGED liqVars

\* Both clients name the deposit authority only.
authorize_stake(owner, account, kind) ==
  /\ UserAuthorizes(owner, account, DepositAuthority, kind)
  /\ UNCHANGED <<allowance, liqVars>>

\* Approve, signed by the owner of the token account; it replaces what was
\* approved before.
approve_token(owner, burn_from, n) ==
  /\ burn_from = owner
  /\ allowance' = [allowance EXCEPT ![owner] = n]
  /\ UNCHANGED <<vars, liqVars>>

\* Mutant of SpendsAllowance: the allowance is not checked.
SpendsUnchecked(holder) ==
  allowance' = [allowance EXCEPT ![holder] = @ - (token[holder] - token'[holder])]

\* The pool burns through the allowance of the token account, which sinks by
\* what is burned.
SpendsAllowance(holder) ==
  LET n == token[holder] - token'[holder]
  IN /\ n <= allowance[holder]
     /\ allowance' = [allowance EXCEPT ![holder] = @ - n]

-----------------------------------------------------------------------------
(***************************************************************************)
(* One instruction of a transaction of wallet w.                           *)
(***************************************************************************)
PoolInstruction(w, i) ==
  \/ /\ i.ix = "Initialize" /\ process_initialize(w, i.fee)
     /\ UNCHANGED <<allowance, liqVars>>
  \/ /\ i.ix = "CreateValidatorStakeAccount"
     /\ process_create_validator_stake_account(i.validator, w, w)
     /\ UNCHANGED <<allowance, liqVars>>
  \/ /\ i.ix = "AddValidatorStakeAccount"
     /\ \E v \in Validators :
          /\ StakeAddress(v) = i.stake
          /\ process_add_validator_stake_account(w, v, i.receiver)
     /\ UNCHANGED <<allowance, liqVars>>
  \/ /\ i.ix = "RemoveValidatorStakeAccount"
     /\ \E v \in Validators :
          /\ StakeAddress(v) = i.stake
          /\ process_remove_validator_stake_account(w, i.burn_from, v, i.new_authority)
     /\ SpendsAllowance(i.burn_from)
     /\ UNCHANGED liqVars
  \/ /\ i.ix = "UpdateListBalance" /\ process_update_list_balance(i.accounts)
     /\ UNCHANGED <<allowance, liqVars>>
  \/ /\ i.ix = "UpdatePoolBalance" /\ process_update_pool_balance
     /\ UNCHANGED <<allowance, liqVars>>
  \/ /\ i.ix = "Deposit" /\ process_deposit(i.stake, i.validator, i.receiver)
     /\ UNCHANGED <<allowance, liqVars>>
  \/ /\ i.ix = "Withdraw"
     /\ \E v \in Validators :
          /\ StakeAddress(v) = i.stake
          /\ process_withdraw(i.burn_from, v, i.receiver, w, i.amount)
     /\ SpendsAllowance(i.burn_from)
     /\ UNCHANGED liqVars
  \/ /\ i.ix = "SetStakingAuthority"
     /\ process_set_staking_auth(w, i.stake, i.staker)
     /\ UNCHANGED <<allowance, liqVars>>
  \/ /\ i.ix = "SetOwner"
     /\ process_set_owner(w, i.new_owner, i.new_fee_receiver)
     /\ UNCHANGED <<allowance, liqVars>>

LiquidityInstruction(w, i) ==
  /\ UNCHANGED <<epoch, pool, list, stake, supply, cash, burned, allowance>>
  /\ \/ /\ i.ix = "AddLiquidity"
        /\ UNCHANGED token
        /\ Liquidity!process_add_liquidity(w, i.amount)
     \/ /\ i.ix = "SellstSOL"
        /\ Liquidity!process_sell_stsol(w, i.amount)

OtherInstruction(w, i) ==
  \/ i.ix = "CreateAccount" /\ create_account(i.kind)
  \/ i.ix = "Authorize" /\ authorize_stake(w, i.stake, i.kind)
  \/ i.ix = "Approve" /\ approve_token(w, i.burn_from, i.amount)

Execute(w, i) ==
  PoolInstruction(w, i) \/ LiquidityInstruction(w, i) \/ OtherInstruction(w, i)

-----------------------------------------------------------------------------
(***************************************************************************)
(* Transactions.  tx holds the command it belongs to, what the client had  *)
(* seen of the pool, the instructions left, and the accounts as they were  *)
(* when it started.                                                        *)
(***************************************************************************)
Idle == tx = NoTx

Accounts ==
  [pool |-> pool, list |-> list, stake |-> stake, token |-> token,
   supply |-> supply, cash |-> cash - TransactionFee, allowance |-> allowance]

\* The fee is paid first, and also by a transaction that fails.
BeginTransaction(cmd, seen, instructions) ==
  /\ Idle /\ TransactionFee <= cash
  /\ tx' = [cmd |-> cmd, seen |-> seen, left |-> instructions,
            saved |-> Accounts]
  /\ cash' = cash - TransactionFee
  /\ UNCHANGED <<epoch, pool, list, stake, token, supply, burned, allowance>>
  /\ UNCHANGED liqVars

Instruction ==
  /\ ~Idle /\ tx.left # <<>>
  /\ Execute(tx.cmd.owner, Head(tx.left))
  /\ tx' = [tx EXCEPT !.left = Tail(@)]

Commit ==
  /\ ~Idle /\ tx.left = <<>>
  /\ tx' = NoTx
  /\ UNCHANGED chainVars

\* Liquidity instructions come last in their transactions, so there is
\* nothing of the liquidity pool to put back.
RollBack ==
  /\ ~Idle /\ tx.left # <<>> /\ ~ENABLED Instruction
  /\ pool' = tx.saved.pool /\ list' = tx.saved.list
  /\ stake' = tx.saved.stake
  /\ token' = tx.saved.token /\ supply' = tx.saved.supply
  /\ cash' = tx.saved.cash /\ allowance' = tx.saved.allowance
  /\ tx' = NoTx
  /\ UNCHANGED <<epoch, burned, liqVars>>

=============================================================================
