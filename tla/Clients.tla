------------------------------- MODULE Clients -------------------------------
(***************************************************************************)
(* Wallets that use the stake pool and the liquidity pool through cli and  *)
(* metacli, on one chain.                                                  *)
(*                                                                         *)
(* A command reads the pool account over RPC, then whatever else it needs, *)
(* builds and signs a transaction, and sends it.  In between, transactions *)
(* of other wallets commit and the epoch changes: what a command has read  *)
(* may be out of date when its transaction runs.  Nothing keeps a wallet   *)
(* from running several commands at a time, each in a terminal of its own. *)
(* A transaction whose blockhash expires, or which the network loses, is   *)
(* never executed; the command fails and may be run again.                 *)
(***************************************************************************)
EXTENDS Transactions

CONSTANTS
  MAX_ACCOUNTS_TO_UPDATE,  \* validators per UpdateListBalance
  Terminals,               \* where commands run
  WalletOf,                \* the wallet whose keys a terminal uses
  Menus,                   \* what wallets and others do in the instance
  Owner,                   \* owner of the pool that exists at the start
  Keeper,                  \* terminal that keeps the pool up to date
  StartStake,              \* its validators' balances
  StartTokens,             \* who holds its tokens
  StartUserStake,          \* the users' stake accounts at the start
  StartWsol                \* wSOL by wallet at the start

(***************************************************************************)
(* Command lines: the subcommand of a tool with its arguments.  owner is   *)
(* the wallet that runs it and pays; an option that is not given is NoKey. *)
(***************************************************************************)
Tools == {"cli", "metacli"}

Commands ==
  [tool : {"cli"}, op : {"create-pool"}, owner : Users, fee : Fees]
  \cup [tool : Tools, op : {"create-validator-stake"}, owner : Users,
        validator : Validators]
  \cup [tool : Tools, op : {"add-validator-stake", "deposit"}, owner : Users,
        stake : StakeAddrs, receiver : Users \cup {NoKey}]
  \cup [tool : Tools, op : {"remove-validator-stake"}, owner : Users,
        stake : StakeAddrs, burn_from : Users,
        new_authority : Users \cup {NoKey}]
  \cup [tool : Tools, op : {"list", "update"}, owner : Users]
  \cup [tool : Tools, op : {"withdraw"}, owner : Users, amount : U64,
        burn_from : Users, stake_receiver : UserStakes \cup {NoKey}]
  \cup [tool : Tools, op : {"set-staking-auth"}, owner : Users,
        stake : PoolStakes, new_staker : Users \cup {WithdrawAuthority}]
  \cup [tool : Tools, op : {"set-owner"}, owner : Users,
        new_owner : Users \cup {NoKey}, new_fee_receiver : Users \cup {NoKey}]
  \cup [tool : {"metacli"}, op : {"update-force", "create-liq-pool"},
        owner : Users]
  \cup [tool : {"metacli"}, op : {"add-liquidity", "sell"}, owner : Users,
        amount : U64]

\* A transaction: see BeginTransaction.  A command that does not use what it
\* read of the pool keeps nothing of it.
Transaction ==
  [cmd : Commands, seen : StakePoolAccount \cup {NoKey},
   left : Seq(InstructionData), saved : SavedAccounts]

\* commands: what is run, by whom.  running: whether the pool exists at the
\* start.  cash: lamports outside stake accounts at the start.  outside: the
\* steps of others that may happen.  epochs: the last epoch.
OutsideSteps == {"Delegate", "HandOver", "UpdateList"}

ASSUME ClientAssumption ==
  /\ MAX_ACCOUNTS_TO_UPDATE \in Nat \ {0}
  /\ \A m \in Menus : /\ m.running \in BOOLEAN /\ m.cash \in Nat
                     /\ m.outside \subseteq OutsideSteps /\ m.epochs <= MaxEpoch
                     /\ m.commands \subseteq Commands
  /\ NoTx \notin Transaction
  /\ Owner \in Users /\ Keeper \in Terminals
  /\ WalletOf \in [Terminals -> Users]
  \* The pool starts as validator accounts have been added one to one.
  /\ IsFiniteSet(Validators) /\ IsFiniteSet(UserStakes)
  /\ StartStake \in [Validators -> U64]
  /\ StartTokens \in [Users -> Nat]
  /\ SumFunction(StartStake) = SumFunction(StartTokens)
  /\ SumFunction(StartStake) \in U64
  \* The users' stake accounts are their own.
  /\ StartUserStake \in [UserStakes -> StakeAccount]
  /\ \A a \in UserStakes :
       {StartUserStake[a].staker, StartUserStake[a].withdrawer}
         \subseteq Users \cup {NoKey}

cli == INSTANCE Cli
metacli == INSTANCE Metacli

VARIABLES
  client,  \* the command that runs in every terminal
  menu     \* the instance's menu; it never changes

clientVars == <<client, menu>>
allVars == <<chainVars, tx, clientVars>>

Free == [step |-> "free"]

Subcommand(c, seen) ==
  IF c.tool = "cli" THEN cli!Subcommand(c, seen) ELSE metacli!Subcommand(c, seen)

\* Commands that compute with the pool account they read.
UsesPool(c) == c.op \in {"withdraw", "remove-validator-stake", "set-owner"}

\* Commands that stop when there is no pool account to read.
NeedsPool(c) ==
  c.op \notin {"create-pool", "create-validator-stake", "create-liq-pool"}

-----------------------------------------------------------------------------
(***************************************************************************)
(* Commands.                                                               *)
(***************************************************************************)

\* get_account_data(pool) of a command that will compute with it.
ReadPool(t, c) ==
  /\ Idle /\ client[t] = Free /\ WalletOf[t] = c.owner
  /\ UsesPool(c) /\ IsInitialized
  /\ client' = [client EXCEPT ![t] =
                  [step |-> "read", cmd |-> c, seen |-> pool]]
  /\ UNCHANGED <<chainVars, tx, menu>>

Signed(c, seen, instructions) ==
  [step |-> "signed", cmd |-> c, seen |-> seen, instructions |-> instructions]

\* The rest of the command: its checks, the transaction, the signatures.
Sign(t) ==
  /\ Idle /\ client[t].step = "read"
  /\ \E instructions \in Subcommand(client[t].cmd, client[t].seen) :
       client' = [client EXCEPT ![t] = Signed(@.cmd, @.seen, instructions)]
  /\ UNCHANGED <<chainVars, tx, menu>>

\* A command stops with an error.
Refuse(t) ==
  /\ Idle /\ client[t].step = "read"
  /\ Subcommand(client[t].cmd, client[t].seen) = {}
  /\ client' = [client EXCEPT ![t] = Free]
  /\ UNCHANGED <<chainVars, tx, menu>>

\* A command that looks at the chain at one moment only.
ReadAndSign(t, c) ==
  /\ Idle /\ client[t] = Free /\ WalletOf[t] = c.owner
  /\ ~UsesPool(c) /\ (NeedsPool(c) => IsInitialized)
  /\ \E instructions \in Subcommand(c, pool) :
       client' = [client EXCEPT ![t] = Signed(c, NoKey, instructions)]
  /\ UNCHANGED <<chainVars, tx, menu>>

\* send_and_confirm_transaction: the cluster takes the transaction.
Send(t) ==
  /\ client[t].step = "signed"
  /\ BeginTransaction(client[t].cmd, client[t].seen, client[t].instructions)
  /\ client' = [client EXCEPT ![t] = Free]
  /\ UNCHANGED menu

\* The transaction never runs.
Expire(t) ==
  /\ Idle /\ client[t].step = "signed"
  /\ client' = [client EXCEPT ![t] = Free]
  /\ UNCHANGED <<chainVars, tx, menu>>

RunTransaction == (Instruction \/ Commit \/ RollBack) /\ UNCHANGED clientVars

-----------------------------------------------------------------------------
(***************************************************************************)
(* What happens without the clients.                                       *)
(***************************************************************************)
Outside ==
  /\ Idle
  /\ \/ /\ epoch < menu.epochs
        /\ \E paid \in {{}, {a \in StakeAddrs : stake[a].state = "Stake"}} :
             NextEpoch(paid)
     \/ /\ "Delegate" \in menu.outside
        /\ \E u \in Users, v \in Validators :
             UserDelegates(u, StakeAddress(v), v)
     \/ /\ "HandOver" \in menu.outside
        /\ \E u \in Users, a \in UserStakes, kind \in {"Staker", "Withdrawer"} :
             UserAuthorizes(u, a, DepositAuthority, kind)
     \/ /\ "UpdateList" \in menu.outside
        /\ \E v \in Validators : process_update_list_balance({v})
  /\ UNCHANGED <<allowance, liqVars, tx, clientVars>>

Start ==
  /\ epoch = 0 /\ burned = 0 /\ cash = menu.cash
  /\ \/ /\ ~menu.running
        /\ pool = [version |-> 0, owner |-> NoKey, owner_fee_account |-> NoKey,
                   stake_total |-> 0, pool_total |-> 0, last_update_epoch |-> 0,
                   fee |-> [numerator |-> 0, denominator |-> 0]]
        /\ list = {}
        /\ stake = [a \in StakeAddrs |-> IF a \in UserStakes
                                         THEN StartUserStake[a] ELSE NoAccount]
        /\ token = [u \in Users |-> 0]
     \/ /\ menu.running
        /\ \E fee \in Fees :
             pool = [version |-> 1, owner |-> Owner, owner_fee_account |-> Owner,
                     stake_total |-> SumFunction(StartStake),
                     pool_total |-> SumFunction(StartStake),
                     last_update_epoch |-> 0, fee |-> fee]
        /\ list = {[validator_account |-> v, balance |-> StartStake[v],
                    last_update_epoch |-> 0] : v \in Validators}
        /\ stake = [a \in StakeAddrs |->
                      IF a \in UserStakes THEN StartUserStake[a]
                      ELSE [state |-> "Stake", lamports |-> StartStake[a[1]],
                            staker |-> WithdrawAuthority,
                            withdrawer |-> WithdrawAuthority, voter |-> a[1]]]
        /\ token = StartTokens
  /\ supply = pool.pool_total

ClientInit ==
  /\ menu \in Menus
  /\ client = [t \in Terminals |-> Free]
  /\ Start
  /\ allowance = [u \in Users |-> 0]
  /\ liq = [wsol |-> 0, stsol |-> 0]
  /\ metalp_supply = 0 /\ metalp = [u \in Users |-> 0]
  /\ wsol = [u \in Users |-> StartWsol]
  /\ tx = NoTx

ClientNext ==
  \/ \E t \in Terminals, c \in menu.commands : ReadPool(t, c) \/ ReadAndSign(t, c)
  \/ \E t \in Terminals : Sign(t) \/ Refuse(t) \/ Send(t) \/ Expire(t)
  \/ RunTransaction
  \/ Outside

ClientSpec == ClientInit /\ [][ClientNext]_allVars

-----------------------------------------------------------------------------
(***************************************************************************)
(* Properties.                                                             *)
(***************************************************************************)

\* Between any two instructions, and whatever is rolled back, the accounts
\* of the pool keep their shape, an allowance never sinks below zero, and a
\* transaction holds only instructions with arguments the programs accept.
ClientTypeOK ==
  /\ TypeOK
  /\ allowance \in [Users -> Nat]
  /\ menu \in Menus
  /\ client \in [Terminals ->
       {Free}
       \cup [step : {"read"}, cmd : Commands, seen : StakePoolAccount]
       \cup [step : {"signed"}, cmd : Commands,
             seen : StakePoolAccount \cup {NoKey},
             instructions : Seq(InstructionData)]]
  /\ tx \in Transaction \cup {NoTx}

Finished(op) == ~Idle /\ tx.left = <<>> /\ tx.cmd.op = op

\* Whatever happens to the price and the balances after a command has looked
\* at them, its transaction takes tokens of the wallet that ran it only, only
\* for withdraw, remove-validator-stake and sell, and for withdraw never more
\* than the amount the user gave.
SpendsAreCapped ==
  ~Idle => \A u \in Users :
    LET spent == tx.saved.token[u] - token[u]
        c == tx.cmd
    IN spent > 0 =>
         /\ u = c.owner
         /\ c.op \in {"withdraw", "remove-validator-stake", "sell"}
         /\ c.op # "remove-validator-stake" => spent <= c.amount

\* Deposit and add-validator-stake of cli hand a stake account to the deposit
\* authority, from which anybody's Deposit could take it: never beyond the
\* end of the transaction, also when one of its later instructions fails.
NothingInLimbo ==
  Idle /\ "HandOver" \notin menu.outside =>
    \A a \in StakeAddrs : DepositAuthority \notin {stake[a].staker,
                                                  stake[a].withdrawer}

\* An update command that commits leaves nothing out of date, although the
\* records it sends were chosen by an epoch and a list read earlier.
CommittedUpdateIsFresh ==
  Finished("update") \/ Finished("update-force") => UpToDate /\ NothingToUpdate

\* The withdrawal planner against its definition: accounts above the rent can
\* give all but one SOL; a plan takes the lamports wanted from distinct
\* accounts within what they can give, from the largest ones, and the
\* command gives up only when they cannot give enough (or the wallet lacks
\* tokens or lamports).  Accounts below one SOL are left out: see Available.
PlansAreRight ==
  [][\A t \in Terminals :
       LET c == client[t].cmd
           held == cli!get_authority_accounts(WithdrawAuthority)
           usable == {a \in held : stake[a].lamports > RentReserve + 1}
           CanGive(a) == stake[a].lamports - OneSol
           wanted == cli!pool_tokens_to_stake_amount(client[t].seen, c.amount)
           plan == Tail(client'[t].instructions)
           picked == {plan[i].stake : i \in DOMAIN plan}
       IN /\ client[t].step = "read" /\ client'[t] # client[t]
          /\ c.op = "withdraw" /\ \A a \in usable : CanGive(a) >= 0
          => IF client'[t] = Free
             THEN \/ MapThenSumSet(CanGive, usable) < wanted
                  \/ token[c.burn_from] < c.amount
                  \/ cash < TransactionFee
                       + IF c.stake_receiver = NoKey THEN RentReserve ELSE 0
                  \/ c.stake_receiver = NoKey
                       /\ \A a \in UserStakes : stake[a].state # "None"
             ELSE /\ Cardinality(picked) = Len(plan) /\ picked \subseteq usable
                  /\ SumFunction([i \in DOMAIN plan |-> plan[i].amount]) = wanted
                  /\ \A i \in DOMAIN plan : plan[i].amount <= CanGive(plan[i].stake)
                  /\ \A a \in usable \ picked, b \in picked : CanGive(a) <= CanGive(b)
    ]_allVars

\* The liquidity pool was studied with a stake pool that moves as it likes
\* (StakePoolMoves of LiquidityPool).  The real one, driven by both clients,
\* with failed transactions rolled back, never does anything else: stSOL
\* changes hands one wallet at a time and never exceeds pool_total.
LiquidityEnvironment ==
  [][\/ Liquidity!AddLiquidity
     \/ Liquidity!SellstSOL
     \/ \E u \in Users :
          Liquidity!StakePoolMoves(PricingAccount', u, token'[u] - token[u])
    ]_(Liquidity!vars)

-----------------------------------------------------------------------------
(***************************************************************************)
(* Liveness.  Keeper keeps running metacli update-force: it starts the     *)
(* command whenever it has none running, and not every transaction it      *)
(* sends gets lost.  Others cannot keep it from reading or sending for     *)
(* ever: a node answers and takes transactions while others run.  A        *)
(* transaction that has started ends.                                      *)
(***************************************************************************)
KeeperCommand ==
  [tool |-> "metacli", op |-> "update-force", owner |-> WalletOf[Keeper]]

KeeperSpec ==
  /\ ClientSpec
  /\ SF_allVars(ReadAndSign(Keeper, KeeperCommand))
  /\ SF_allVars(Send(Keeper))
  /\ WF_allVars(RunTransaction)

-----------------------------------------------------------------------------
(***************************************************************************)
(* What documents and comments say, and the code does not do.              *)
(***************************************************************************)

\* withdraw's argument is the "Amount of pool tokens to burn and get
\* rewards."
WithdrawBurnsAmount ==
  Finished("withdraw") =>
    tx.saved.token[tx.cmd.burn_from] - token[tx.cmd.burn_from] = tx.cmd.amount

\* Withdraw needs an "Unitialized stake account to receive withdrawal".  The
\* receiver a command passes is one, if it was when the command started.
ReceiverIsUninitialized ==
  ~Idle /\ tx.left # <<>> /\ tx.cmd.op = "withdraw" /\ Head(tx.left).ix = "Withdraw" =>
    LET receiver == Head(tx.left).receiver
    IN tx.saved.stake[receiver].state = "None" => stake[receiver].state = "None"

\* "If new accounts are missing in the arguments use the old ones": a
\* set-owner with one of its two arguments leaves the other field of the
\* pool as it was, when the wallet was the owner already as it looked.
OmittedFieldKept ==
  Finished("set-owner") /\ tx.seen.owner = tx.cmd.owner =>
    /\ tx.cmd.new_owner = NoKey => pool.owner = tx.saved.pool.owner
    /\ tx.cmd.new_fee_receiver = NoKey =>
         pool.owner_fee_account = tx.saved.pool.owner_fee_account

=============================================================================
