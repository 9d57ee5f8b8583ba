------------------------------- MODULE Metacli -------------------------------
(***************************************************************************)
(* The commands of metacli (metacli/src/main.rs), a copy of cli that works *)
(* on one fixed pool and adds the commands of the liquidity pool.  What it *)
(* copies is defined by cli's definition, what differs is written out.     *)
(***************************************************************************)
EXTENDS Transactions

CONSTANT MAX_ACCOUNTS_TO_UPDATE

cli == INSTANCE Cli

CreateAccount(kind) == cli!CreateAccount(kind)

check_fee_payer_balance(required_balance, transactions) ==
  cli!check_fee_payer_balance(required_balance, transactions)

get_authority_accounts(authority) == cli!get_authority_accounts(authority)

unwrap_create_token_account(c) == cli!unwrap_create_token_account(c)

command_vsa_create(c, seen) == cli!command_vsa_create(c, seen)
command_vsa_add(c, seen) == cli!command_vsa_add(c, seen)
command_vsa_remove(c, seen) == cli!command_vsa_remove(c, seen)
command_list(c, seen) == cli!command_list(c, seen)
command_set_staking_auth(c, seen) == cli!command_set_staking_auth(c, seen)
command_set_owner(c, seen) == cli!command_set_owner(c, seen)

stake_amount_to_pool_tokens(p, n) == cli!stake_amount_to_pool_tokens(p, n)
pool_tokens_to_stake_amount(p, n) == cli!pool_tokens_to_stake_amount(p, n)

pick_withdraw_accounts(accounts, amount, min_balance) ==
  cli!pick_withdraw_accounts(accounts, amount, min_balance)
prepare_withdraw_accounts(amount) == cli!prepare_withdraw_accounts(amount)
command_withdraw(c, seen) == cli!command_withdraw(c, seen)

-----------------------------------------------------------------------------
(***************************************************************************)
(* What differs.                                                           *)
(***************************************************************************)

\* The authorities of the stake account are not touched: it must have been
\* handed to the deposit authority before.
command_deposit(c, seen) ==
  LET validator == stake[c.stake].voter
  IN IF stake[c.stake].state # "Stake" \/ ~Contains(list, validator)
     THEN {}
     ELSE check_fee_payer_balance(cli!TokenAccountRent(c),
            {unwrap_create_token_account(c)
               \o <<[ix |-> "Deposit", stake |-> c.stake,
                     validator |-> validator,
                     receiver |-> cli!TokenReceiver(c)]>>})

\* Mutant of command_update: nothing is sent for an empty list, as in cli.
UpdateUnlessEmpty(c, seen, force) ==
  LET accounts_to_update ==
        IF force THEN {r.validator_account : r \in list} ELSE cli!OutOfDate
  IN IF accounts_to_update = {} THEN {}
     ELSE {cli!UpdateChunks(accounts_to_update) \o cli!UpdatePoolBalance}

\* Every validator with force, and the pool also when the list is empty.
command_update(c, seen, force) ==
  LET accounts_to_update ==
        IF force THEN {r.validator_account : r \in list} ELSE cli!OutOfDate
  IN IF accounts_to_update = {} /\ list # {} THEN {}
     ELSE check_fee_payer_balance(0,
            {cli!UpdateChunks(accounts_to_update) \o cli!UpdatePoolBalance})

-----------------------------------------------------------------------------
(***************************************************************************)
(* The liquidity pool.  Sources must belong to the fee payer.              *)
(***************************************************************************)

\* Both sides of the pool are token accounts; the check counts one.
command_create_liquidity_pool(c, seen) ==
  check_fee_payer_balance(
    Rent["Mint"] + Rent["Account"] + Rent["StakePool"],
    {<<CreateAccount("StakePool"), CreateAccount("Account"),
       CreateAccount("Account"), CreateAccount("Mint")>>})

\* The shares go to a token account that is always new.
command_add_liquidity(c, seen) ==
  check_fee_payer_balance(Rent["Account"],
    {<<CreateAccount("Account"), [ix |-> "AddLiquidity", amount |-> c.amount]>>})

command_sell_st_sol(c, seen) ==
  check_fee_payer_balance(Rent["Account"],
    {<<CreateAccount("Account"), [ix |-> "SellstSOL", amount |-> c.amount]>>})

\* main: the subcommand.
Subcommand(c, seen) ==
  CASE c.op = "create-liq-pool" -> command_create_liquidity_pool(c, seen)
    [] c.op = "create-validator-stake" -> command_vsa_create(c, seen)
    [] c.op = "add-validator-stake" -> command_vsa_add(c, seen)
    [] c.op = "remove-validator-stake" -> command_vsa_remove(c, seen)
    [] c.op = "deposit" -> command_deposit(c, seen)
    [] c.op = "list" -> command_list(c, seen)
    [] c.op = "update" -> command_update(c, seen, FALSE)
    [] c.op = "update-force" -> command_update(c, seen, TRUE)
    [] c.op = "withdraw" -> command_withdraw(c, seen)
    [] c.op = "add-liquidity" -> command_add_liquidity(c, seen)
    [] c.op = "sell" -> command_sell_st_sol(c, seen)
    [] c.op = "set-staking-auth" -> command_set_staking_auth(c, seen)
    [] c.op = "set-owner" -> command_set_owner(c, seen)

=============================================================================
