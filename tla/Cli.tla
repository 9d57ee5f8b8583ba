--------------------------------- MODULE Cli ---------------------------------
(***************************************************************************)
(* The commands of the stake pool's command line client                    *)
(* (cli/src/main.rs).                                                      *)
(*                                                                         *)
(* A command c is run by the wallet c.owner, which also pays the fees.     *)
(* Every command_... is the set of transactions it may send: empty when it *)
(* stops with an error or has nothing to send, and with several members    *)
(* where the order in which the RPC node lists accounts decides.  seen is  *)
(* the pool account as the command read it, before anything else it looks  *)
(* at, which it sees as it is when the transaction is built.               *)
(***************************************************************************)
EXTENDS Transactions

CONSTANT MAX_ACCOUNTS_TO_UPDATE  \* validators per UpdateListBalance

Seqs == INSTANCE SequencesExt

CreateAccount(kind) == [ix |-> "CreateAccount", kind |-> kind]
Authorize(account, kind) ==
  [ix |-> "Authorize", stake |-> account, kind |-> kind]
Approve(holder, n) == [ix |-> "Approve", burn_from |-> holder, amount |-> n]

\* The transactions are signed and sent only when the fee payer can pay what
\* the command adds up.
check_fee_payer_balance(required_balance, transactions) ==
  IF required_balance + TransactionFee <= cash THEN transactions ELSE {}

\* Stake accounts by their withdrawer.
get_authority_accounts(authority) ==
  {addr \in DOMAIN stake : stake[addr].withdrawer = authority}

\* An option that is not given is NoKey: a new token account is created.
TokenReceiver(c) == IF c.receiver = NoKey THEN c.owner ELSE c.receiver

unwrap_create_token_account(c) ==
  IF c.receiver = NoKey THEN <<CreateAccount("Account")>> ELSE <<>>

TokenAccountRent(c) == IF c.receiver = NoKey THEN Rent["Account"] ELSE 0

-----------------------------------------------------------------------------
command_create_pool(c, seen) ==
  check_fee_payer_balance(
    Rent["Mint"] + Rent["Account"] + Rent["StakePool"]
      + Rent["ValidatorStakeList"],
    {<<CreateAccount("Mint"), CreateAccount("Account"),
       CreateAccount("StakePool"), CreateAccount("ValidatorStakeList"),
       [ix |-> "Initialize", fee |-> c.fee]>>})

\* The balance of the new stake account is not part of the check.
command_vsa_create(c, seen) ==
  check_fee_payer_balance(0,
    {<<[ix |-> "CreateValidatorStakeAccount", validator |-> c.validator]>>})

\* Set both authorities of the account to the pool's deposit authority, the
\* withdrawer first, so that the pool can take it over.
HandOver(account) ==
  <<Authorize(account, "Withdrawer"), Authorize(account, "Staker")>>

command_vsa_add(c, seen) ==
  check_fee_payer_balance(TokenAccountRent(c),
    {unwrap_create_token_account(c) \o HandOver(c.stake)
       \o <<[ix |-> "AddValidatorStakeAccount", stake |-> c.stake,
             receiver |-> TokenReceiver(c)]>>})

\* u128 products; unwrap() panics on a zero divisor, "as u64" truncates.
stake_amount_to_pool_tokens(p, amount) ==
  ((amount * p.pool_total) \div p.stake_total) % (U64Max + 1)

pool_tokens_to_stake_amount(p, tokens) ==
  ((tokens * p.stake_total) \div p.pool_total) % (U64Max + 1)

\* What to burn is computed, checked and approved at the price that was read.
command_vsa_remove(c, seen) ==
  LET tokens_to_burn ==
        stake_amount_to_pool_tokens(seen, stake[c.stake].lamports)
      new_authority ==
        IF c.new_authority = NoKey THEN c.owner ELSE c.new_authority
  IN IF \/ stake[c.stake].state = "None" \/ seen.stake_total = 0
        \/ token[c.burn_from] < tokens_to_burn
     THEN {}
     ELSE check_fee_payer_balance(0,
            {<<Approve(c.burn_from, tokens_to_burn),
               [ix |-> "RemoveValidatorStakeAccount", stake |-> c.stake,
                burn_from |-> c.burn_from, new_authority |-> new_authority]>>})

\* Mutant of command_deposit: the deposit is left to another transaction.
DepositInTwoSteps(c, seen) ==
  IF stake[c.stake].state = "Stake" /\ Contains(list, stake[c.stake].voter)
  THEN {HandOver(c.stake)} ELSE {}

command_deposit(c, seen) ==
  LET validator == stake[c.stake].voter
  IN IF stake[c.stake].state # "Stake" \/ ~Contains(list, validator)
     THEN {}
     ELSE check_fee_payer_balance(TokenAccountRent(c),
            {unwrap_create_token_account(c) \o HandOver(c.stake)
               \o <<[ix |-> "Deposit", stake |-> c.stake,
                     validator |-> validator,
                     receiver |-> TokenReceiver(c)]>>})

\* Prints the accounts the withdraw authority holds; nothing is sent.
command_list(c, seen) == {}

\* One UpdateListBalance for every MAX_ACCOUNTS_TO_UPDATE validators.
UpdateChunks(validators) ==
  LET s == Seqs!SetToSeq(validators)
      size == MAX_ACCOUNTS_TO_UPDATE
  IN [i \in 1 .. (Len(s) + size - 1) \div size |->
        [ix |-> "UpdateListBalance",
         accounts |-> {s[k] : k \in {j \in DOMAIN s : (j - 1) \div size = i - 1}}]]

OutOfDate == {r.validator_account : r \in {r \in list : r.last_update_epoch < epoch}}

UpdatePoolBalance == <<[ix |-> "UpdatePoolBalance"]>>

command_update(c, seen) ==
  IF OutOfDate = {} THEN {}
  ELSE check_fee_payer_balance(0, {UpdateChunks(OutOfDate) \o UpdatePoolBalance})

-----------------------------------------------------------------------------
(***************************************************************************)
(* Withdraw.                                                               *)
(***************************************************************************)
\* Mutant of Available: the minimum balance is not kept back.
AllOfIt(account) == stake[account].lamports

\* What an account can give: all but MIN_STAKE_BALANCE.  A build with
\* overflow checks stops where this one wraps.
Available(account) == Sub64(stake[account].lamports, OneSol)

\* One pass of the loop; plan.done stands for its break.
WithdrawFrom(plan, account, min_balance) ==
  LET n == Min({Available(account), plan.remaining})
  IN IF plan.done \/ stake[account].lamports <= min_balance THEN plan
     ELSE [from |-> Append(plan.from, [stake |-> account, amount |-> n]),
           remaining |-> plan.remaining - n,
           done |-> n = plan.remaining]

LargestFirst(accounts) ==
  {s \in Seqs!SetToSeqs(accounts) :
     \A i, j \in DOMAIN s : i < j => stake[s[i]].lamports >= stake[s[j]].lamports}

pick_withdraw_accounts(accounts, amount, min_balance) ==
  LET plans == {Seqs!FoldLeft(LAMBDA p, a : WithdrawFrom(p, a, min_balance),
                              [from |-> <<>>, remaining |-> amount, done |-> FALSE],
                              s) : s \in LargestFirst(accounts)}
  IN {p.from : p \in {p \in plans : p.remaining = 0}}

prepare_withdraw_accounts(amount) ==
  LET accounts == get_authority_accounts(WithdrawAuthority)
  IN IF accounts = {} THEN {}
     ELSE pick_withdraw_accounts(accounts, amount, RentReserve + 1)

\* A receiver that is not given is a new account with the rent reserve.
StakeReceivers(c) ==
  IF c.stake_receiver = NoKey THEN {a \in UserStakes : stake[a].state = "None"}
  ELSE {c.stake_receiver}

ReceiverRent(c, plan) ==
  IF c.stake_receiver = NoKey /\ plan # <<>> THEN RentReserve ELSE 0

Withdrawals(c, plan, receiver) ==
  [i \in DOMAIN plan |->
     [ix |-> "Withdraw", stake |-> plan[i].stake, receiver |-> receiver,
      burn_from |-> c.burn_from, amount |-> plan[i].amount]]

WithdrawPlans(c, seen) ==
  IF token[c.burn_from] < c.amount \/ seen.pool_total = 0 THEN {}
  ELSE prepare_withdraw_accounts(pool_tokens_to_stake_amount(seen, c.amount))

\* Mutant of command_withdraw: everything the account holds is approved.
WithdrawApprovingAll(c, seen) ==
  {<<Approve(c.burn_from, U64Max)>> \o Withdrawals(c, plan, receiver) :
     plan \in WithdrawPlans(c, seen), receiver \in StakeReceivers(c)}

\* One receiving account, created before the first withdrawal if need be,
\* serves all of them; the lamports of the plan are passed as the amounts of
\* tokens.
command_withdraw(c, seen) ==
  UNION {check_fee_payer_balance(ReceiverRent(c, plan),
           {<<Approve(c.burn_from, c.amount)>> \o Withdrawals(c, plan, receiver) :
              receiver \in StakeReceivers(c)}) : plan \in WithdrawPlans(c, seen)}

-----------------------------------------------------------------------------
command_set_staking_auth(c, seen) ==
  check_fee_payer_balance(0,
    {<<[ix |-> "SetStakingAuthority", stake |-> c.stake,
        staker |-> c.new_staker]>>})

\* "If new accounts are missing in the arguments use the old ones": the ones
\* that were read.
command_set_owner(c, seen) ==
  check_fee_payer_balance(0,
    {<<[ix |-> "SetOwner",
        new_owner |-> IF c.new_owner = NoKey THEN seen.owner ELSE c.new_owner,
        new_fee_receiver |-> IF c.new_fee_receiver = NoKey
                             THEN seen.owner_fee_account
                             ELSE c.new_fee_receiver]>>})

\* main: the subcommand.
Subcommand(c, seen) ==
  CASE c.op = "create-pool" -> command_create_pool(c, seen)
    [] c.op = "create-validator-stake" -> command_vsa_create(c, seen)
    [] c.op = "add-validator-stake" -> command_vsa_add(c, seen)
    [] c.op = "remove-validator-stake" -> command_vsa_remove(c, seen)
    [] c.op = "deposit" -> command_deposit(c, seen)
    [] c.op = "list" -> command_list(c, seen)
    [] c.op = "update" -> command_update(c, seen)
    [] c.op = "withdraw" -> command_withdraw(c, seen)
    [] c.op = "set-staking-auth" -> command_set_staking_auth(c, seen)
    [] c.op = "set-owner" -> command_set_owner(c, seen)

=============================================================================
