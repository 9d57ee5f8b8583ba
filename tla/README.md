# A TLA+ model of the MetaPool stake pool program

This directory models the on-chain program of `program/` (a stake pool that
extends the SPL stake pool with a wSOL/stSOL liquidity pool), its two command
line clients `cli` and `metacli`, the token program of `token/program/`, and the
bytes in which they talk to each other. The models are checked with TLC. All
properties of the passing runs but three are also proved with TLAPS for every
value of the constants (`RecordsBacked` under a hypothesis, see Proofs).

## The system

| Part | State | Operations | Module |
|---|---|---|---|
| Pool arithmetic (`program/src/state.rs`, end of `processor.rs`) | none | price of a deposit, of a withdrawal, of a share | `PoolMath` |
| Stake accounts (`program/src/stake.rs`, native stake program) | lamports, staker, withdrawer, validator | Authorize, Split, Merge | `StakeAccounts` |
| Stake pool (`program/src/processor.rs`) | pool account, validator list, mint | Initialize, Create/Add/RemoveValidatorStakeAccount, UpdateListBalance, UpdatePoolBalance, Deposit, Withdraw, SetStakingAuthority, SetOwner | `StakePool` |
| Liquidity pool (`processor.rs`, 1076-1307) | a wSOL and an stSOL token account, the METALP mint | AddLiquidity, SellstSOL | `LiquidityPool` |
| `cli`, `metacli` | none on chain; what a command has read, and a signed transaction | one command each: read accounts, check, build and send a transaction | `Cli`, `Metacli`, run by `Clients` |
| SPL token program (`token/program`) | mints, token accounts, multisigs | Initialize..., Transfer, Approve, Revoke, SetAuthority, MintTo, Burn, CloseAccount, Freeze/ThawAccount | `SplToken` |
| Encoding (`instruction.rs` of both programs, lists in `state.rs`) | bytes of the validator list account | constructors, pack/unpack, serialize/deserialize | `Codec`, `Wire` |

Everything interacts through accounts. An instruction reads and writes several
of them and invokes the stake and the token program; the runtime makes it
atomic. Between instructions anything may happen: transactions of other
wallets, an epoch change that pays rewards, plain transfers of lamports or
tokens into accounts that the pool keeps a copy of the balance of.

What is hard about it:

* *Redundant counters.* `stake_total` copies the balances of the list, the list
  copies balances of accounts, `pool_total` copies the supply of the mint. They
  are kept in step by hand with `+=` and `-=` (which wrap), and the originals
  also change without the program.
* *Freshness.* Handlers check the pool's `last_update_epoch` only; records are
  stamped by other instructions that anyone may send, in chunks, in any order.
* *Custody.* The pool's authorities are handed around between users, the owner
  and the program, one authority at a time; accounts disappear when drained and
  can be created again by anyone.
* *Prices.* Integer division at every exchange, zero totals, a price that an
  update moves between two exchanges.
* *Reuse.* A closed token account can be used again in the transaction that
  closed it; a transfer may name one account twice; authorities, delegates and
  close authorities outlive a change of owner.
* *Progress.* After an epoch change nothing works until the updates have run.
* *Stale reads.* A client computes with a pool account, balances and an epoch it
  has read over RPC; its transaction runs later, on another state, or never.
* *Encoding.* Tags, argument bytes and account positions are written twice, once
  for each direction; nothing but the code keeps the two in step.

## Modules

* `PoolMath`: u64 values, `None` for a failed checked operation, `Add64` and
  `Sub64` that wrap, and the pricing functions under their names in the code.
* `StakeAccounts`: the record of a stake account, and for each invocation of the
  native program a `Can...` predicate and the resulting account. The rules are
  those of the native program (outside the repository); a failed invocation
  fails the instruction.
* `StakePool`: one action per instruction, named as its handler. A guard is the
  conjunction of the handler's checks and of the success of what it invokes.
  The environment actions are wallets using the stake and token programs
  directly, the update command of the clients as one step, and the epoch change.
* `ShareVault`: what the pool promises, without stake accounts, records,
  authorities and epochs: a vault with a book value and shares, entered and left
  at their ratio, one place and one holder at a time, rounding by less than one
  unit. `StakePool` implements it (`PoolIsVault`): the book value is
  `stake_total`, the shares `pool_total`, the places are all stake accounts, in
  the list or not, and hold lamports as long as their withdrawer is the pool.
* `LiquidityPool`: the two instructions of the liquidity pool, with the stake
  pool reduced to what SellstSOL reads of it, moving freely.
* `SplToken`: every instruction of the token program, SetAuthority as one action
  per authority type. `tx` is the set of wallets that signed the running
  transaction, so that instructions of one transaction follow each other and
  accounts without lamports are removed at its end, as the runtime does.
  `validate_owner(k)` is the signature check for the key an instruction expects.
* `Transactions`: `StakePool` and `LiquidityPool` on one chain. `Liquidity` is an
  instance of `LiquidityPool` whose stake pool is the real one and whose stSOL
  are the pool's tokens. A transaction is a sequence of instructions, executed
  one by one and alone; `RollBack` puts everything but the fee back when one of
  them cannot be executed. Token allowances are explicit here.
* `Cli`: the commands of `cli`, each a definition under its function's name that
  gives the set of transactions it may send. The withdrawal planner
  (`pick_withdraw_accounts`) is a fold of the loop's body over the accounts
  sorted by balance. `Metacli` instantiates it and writes out what differs:
  deposit, update, and the commands of the liquidity pool.
* `Clients`: wallets that run commands, each command in a terminal, several
  terminals of one wallet at a time if need be (`WalletOf`), for neither tool
  locks anything. A command that computes with the pool account reads it in one
  step (`ReadPool`) and looks at everything else and signs in a later one
  (`Sign`); the transaction is sent (`Send`) or never executed (`Expire`) later
  still. `Outside` is the epoch and what others do.
* `Codec`: both instruction sets and the validator list as sequences of digits,
  an encoder and a decoder each, as the source has them. `Wire`: a message goes
  from a constructor, with its accounts, to a handler, and the handler's change
  of the list goes through the bytes of the account. `Reencode` is another
  encoder, which sends fewer bytes or appends one.
* `MCStakePool`, `MCLiquidityPool`, `MCSplToken`, `MCClients`, `MCWire`: values
  for TLC.
* `ArithmeticProofs`, `StakePoolProofs`, `VaultProofs`, `LiquidityPoolProofs`,
  `SplTokenProofs`, `CommandProofs`, `ClientsProofs`, `WireProofs`: the theorems
  and the lemmas they rest on (see Proofs).

How state corresponds to the code:

* `pool` has the fields of `StakePool` that a handler changes or computes with.
  Bump seeds, the mint and the list key are fixed by Initialize. The model
  covers calls that pass the documented sysvars, program ids, list and mint;
  the checks of those keys are then always passed and are left out. Deposit and
  Withdraw have no check of the mint (`processor.rs` 1309-1676; Add at 593 and
  Remove at 730 do): what they do with another mint than the pool's is outside
  this model.
* `list` is the *set* of records: lookups are by key and every pass visits all,
  so their order cannot be observed.
* `token` is indexed by wallet: one pool token account each. In `StakePool` a
  withdrawal's allowance is taken to be approved in the same transaction, so
  Burn needs only a balance; `Transactions` adds the allowance.
* `stake` maps addresses to accounts; a validator's program address is
  `StakeAddress(v)`, users use `UserStakes`. The account that receives a
  withdrawal is created with its rent reserve in the same transaction.
* `burned` is a history variable: tokens burned without the pool.
* The mint starts with no supply. `check_stake_activation` has an empty body,
  so activation is not modelled. The deposit fee is the constant 0 in the code.
* `Authorities` are the keys that callers name as staker and withdrawer, in
  Create, Remove, Withdraw and the native Authorize: wallets and the pool's own
  two authorities, for no handler looks at them. In Withdraw and Remove the
  holder whose tokens are burned, the receiver's new authority and the owner are
  independent arguments. SetStakingAuthority takes any stake account of which the
  pool's authority may change the staker, and any key of `Stakers`; a wallet that
  is staker delegates, splits and merges, a withdrawer also closes.
* In `SplToken`, mints and multisigs never close, so their lamports are left
  out; a transaction that fails has no effect and is no behaviour of its own;
  the ...Checked instructions do what the others do, or fail on the decimals.
  An address that is no token account counts as "elsewhere" (`cash`).
* In `Transactions`, Withdraw and Remove name the token account they burn from,
  which may be anybody's; what protects it is the allowance. Accounts that a
  command creates have fresh keys, so creating one only moves its rent. withdraw
  creates its receiver only when `stake_receiver` is not given. A new token
  account and the wallet's own are one entry of `token`. `cash` pools the
  lamports of all wallets.
* In `Clients`, a command whose RPC calls cannot be told apart reads and signs
  in one step; only those that compute with an earlier read of the pool account
  (withdraw, remove-validator-stake, set-owner) take two. `Available` wraps as
  the release build does.
* The sum of the records fits a u64 (guard of the two updates): lamports are
  bounded by the native supply. All other u64 effects, wrapping included, are
  kept, and `U64Max` is chosen so small that they occur.

## Runs

| Run | Instance | Checks |
|---|---|---|
| `PoolTwoValidators` | 2 validators, 1 wallet, 5 lamports, `U64Max` 7, one epoch, plain transfers, any authorities, the pool as the only staker | `OneRecordPerValidator`, `RecordsBacked`, `PoolIsVault` |
| `PoolEpochs` | 1 validator, 1 wallet, 4 lamports, `U64Max` 7, 2 epochs with rewards, plain transfers, burns, any authorities and stakers, splits and merges | `TypeOK`, `PoolTotalIsSupply`, `FreshPoolHasFreshRecords`, `PoolIsVault`, `ExitsArePaid`, `TokensMoveWithStake`, `SharePriceHolds` |
| `LiquidityPool` | 2 users, three stake pool states | `TypeOK`, `SalesKeepValue`, `WsolPerShareHolds` |
| `SplToken` | 2 token accounts, 1 mint and wrapped SOL, 2 wallets, 1 multisig, `U64Max` 2 | `TypeOK`, `SupplyCoversAccounts`, `NativeBacked`, `SpendsAreAuthorized`, `FrozenHoldsStill`, `GivenUpForGood` |
| `Clients` | 2 wallets, one of them in 2 terminals, 2 validators, 2 stake accounts, five menus of commands | `ClientTypeOK`, `SpendsAreCapped`, `NothingInLimbo`, `CommittedUpdateIsFresh`, `PlansAreRight`, `LiquidityEnvironment` |
| `ClientsLiveness` | a keeper, an owner who empties the pool, 3 epochs | `EventuallyUpToDate` under `KeeperSpec` |
| `Wire` | both instruction sets, 3 keys, lists of up to 2 records | `NeverMisread`, `AccountsInPlace`, `ListReadsBack` |

What the runs about the clients and the encoding show:

* `SpendsAreCapped`: whatever happens to the price between read and execution,
  a transaction takes tokens of its own wallet only, also when the command names
  another wallet's token account on which an allowance is left, and for withdraw
  at most the amount given (the allowance caps what the wrong unit could burn).
* `NothingInLimbo`: an account handed to the deposit authority, from which any
  Deposit could take it, is never left there by a command of `cli`, also when
  the deposit fails. `metacli deposit` expects an earlier handover; the scene
  that has one is left out of the property.
* `CommittedUpdateIsFresh`: an update that commits leaves nothing out of date
  although it was put together from an earlier list and epoch.
* `PlansAreRight`: the planner against a declarative definition of a plan.
* `LiquidityEnvironment`: the freely moving stake pool that `LiquidityPool` is
  checked with covers every step of the real one under both clients.
* `NeverMisread`, `AccountsInPlace`: bytes and accounts of every instruction mean
  the same to the constructor and to the handler; cut or lengthened data gives
  the same instruction or an error.
* `ListReadsBack`: the list survives its account's bytes, with leftovers of
  longer lists behind its end, and when it is full.

The bounds: two validators are needed for one account to be affected by an
instruction on another and for a withdrawal over two accounts, two wallets for
owner changes and for commands of different signers, two terminals for commands
of one wallet that overtake each other, two epochs for an update to move the
price. One wallet is enough in the runs of the pool alone: what an outsider may
do (create accounts, transfer, update, deposit) needs no second key there, and
the theorems hold for any number. `Cash` 4 or 5 lamports, with one lamport as
"one SOL" and one as the rent reserve, pay for two validator accounts, or for
one, a deposit or a split, and a plain transfer. With `U64Max` 7 Remove wraps
`stake_total` in both runs, and `pool_total` wraps in `PoolEpochs`. Vote accounts
hold 3 lamports, so that an update may raise or lower a balance; in `Clients`
they hold 9 where stake accounts hold 4 to 6 and one SOL is 4, so that balances
lie above, at and below what a withdrawal leaves. `RecordsBacked` is about the
time before the first update puts the vote account's lamports into a record: it
speaks of the first epoch, and its instance has the pool as the only staker, for
a staker may split lamports off a listed account without the record being told.
In `LiquidityPool` the prices lie below, at and above par, with the fee 1/3 and
the fee 0/0. In `SplToken` two accounts are enough for a transfer to another
account and to itself, three lamports fund both with one wrapped, an allowance of
2 is used up in parts, and `U64Max` 2 lets balances, supply and lamports meet
their limit; the multisig asks for one or for two of its signers. The menus of
`MCClients` put the commands together that can get in each other's way: exits,
owners, setup, updates, trade; `MAX_ACCOUNTS_TO_UPDATE` is 1, so that an update
has several chunks. In `Wire` a byte has 18 values (17 tags and one that is
none), a u64 and a key have two bytes, and keys look like option tags. Symmetry:
validators in `PoolTwoValidators`, users in `LiquidityPool`, token accounts in
`SplToken`, the two terminals of one wallet in the safety runs of `Clients`.
Deadlock is not checked for the pools and the clients: when there is no cash left
and the last epoch is reached, the modelled world may stop.

*Fairness.* On a chain nothing runs by itself. `KeeperSpec` assumes that the
keeper runs `metacli update --force` again and again: strong fairness of starting
the command, for other transactions keep making the chain busy, and of sending
the signed transaction, for not every one gets lost; and weak fairness of a
transaction that has started, which the runtime ends. Nothing is assumed of other
wallets or commands or of the clock. Transactions cost nothing in that run: a
keeper without lamports keeps nothing up to date. `CliFairSpec` (run
`DocCliUpdate`) assumes the same of `cli update`, as one step.

Runs in which a document and the code disagree (TLC finds the violation):

* `DocRecordBalance`: a fresh record claims more than its stake account holds,
  for UpdateListBalance stores the lamports of the vote account
  (`processor.rs:848-850`).
* `DocCliUpdate`: under fairness of `cli update` a pool without validators
  stays out of date forever (`cli/src/main.rs:679`); `metacli` has the fix.
* `DocSetOwner`: of two set-owner commands of one wallet in flight, the one given
  a single field puts the other field back to what it has read, over what the
  first one has set (`cli/src/main.rs:970`, and the same in `metacli`).
* `DocWithdrawAmount`: withdraw burns another number of tokens than its argument
  when the price is not 1 (`metacli/src/main.rs:1300`).
* `DocWithdrawReceiver`: a withdrawal over two stake accounts passes an
  initialized receiver the second time and fails (`metacli/src/main.rs:1294`).

Seen in the model and stated by no property, for no document says otherwise:

* With no token outstanding and stake left a deposit mints nothing
  (`state.rs:53-57`), and Remove's `stake_total -=` wraps when the account has
  gained lamports since the last update (`processor.rs:796`); `ShareVault` allows
  both.
* Anyone can create a validator's account with the pool as withdrawer, or hand an
  account to it (`processor.rs:516-522`): the pool then controls lamports that no
  record counts.
* A staker set by SetStakingAuthority can split, merge and delegate the account;
  its lamports stay the pool's, but the record is not told, and Deposit, Withdraw
  and Remove are refused until the staker is given back (`processor.rs:617`).
* Once the liquidity pool holds stSOL, adding wSOL dilutes the earlier providers,
  for METALP is priced by the wSOL account alone (`processor.rs:1155`). What a
  share is worth in the end is up to RemoveLiquidity, which does not exist.
* With the fee 0/0, which Initialize accepts, SellstSOL keeps everything as the
  fee (`processor.rs:1269`).
* AddLiquidity and SellstSOL do not mark the user's authority as a signer; it
  works because metacli pays the fee with that key (`instruction.rs:537`).
* A signature counts for every position of a multisig that holds its key, and
  InitializeMultisig accepts more required signatures than keys
  (`token/program/src/processor.rs:740-752`). A delegate and a close authority
  outlive a change of owner (`:365`).
* `metacli update` without `--force` reports a pool as up to date that is not,
  after somebody has updated the records alone (`metacli/src/main.rs:1080`).

## Proofs

| Module | Theorems about | What they state |
|---|---|---|
| `StakePoolProofs` | `StakePool` | `TypeOK`, `PoolTotalIsSupply`, `FreshPoolHasFreshRecords`, `OneRecordPerValidator` |
| `VaultProofs` | `StakePool` | `PoolIsVault`, `ExitsArePaid`, `TokensMoveWithStake`, `SharePriceHolds`, `RecordsBacked` |
| `LiquidityPoolProofs` | `LiquidityPool` | `TypeOK`, `SalesKeepValue`, `WsolPerShareHolds` |
| `SplTokenProofs` | `SplToken` | `TypeOK`, `NativeBacked`, `SupplyCoversAccounts`, `SpendsAreAuthorized`, `FrozenHoldsStill`, `GivenUpForGood` |
| `ClientsProofs` (and `CommandProofs`) | `Clients` | `ClientTypeOK`, the pool's invariants in mid-transaction, `SpendsAreCapped`, `NothingInLimbo`, `CommittedUpdateIsFresh` |
| `WireProofs` | `Codec`, `Wire` | `NeverMisread`, `AccountsInPlace`, `ListReadsBack` |

They hold for every number of wallets, validators, accounts, commands and epochs
and every width of the integers. What is assumed of the constants are the named
ASSUMEs of the modules, which TLC evaluates on its instances: the program
addresses differ from each other and from wallets, stake addresses are disjoint,
amounts are naturals or u64s, fees that reach the liquidity pool are at most one
(Initialize checks it), a wallet's stake accounts are its own when `Clients`
starts, and token accounts and validators are finitely many where they are summed
over. Nothing is assumed of the keys that callers name as authorities. One theorem
has a hypothesis of its own: `FirstEpochBooks` proves `RecordsBacked` where
`Stakers` holds at most the withdraw authority, as in the run, for another staker
could split lamports off a listed account.

*The toolkit* (`ArithmeticProofs`). Counters that wrap, quotients that round
down, and induction. Induction principles with an operator as parameter cannot be
used with these provers, but first-order ones can: `NatSetInduction` and
`SubsetInduction` take the *set* of numbers, or of subsets, with the property.
`FoldExists` derives from them what the recursive function beneath the community
modules' folds computes, and from it come the facts about sums over finite sets:
taking out one element, changing one value, comparing two sums.

*The pool.* The four invariants of `StakePoolProofs` are proved together as
`IInv`, with one more conjunct: the list is empty until the pool is initialized.
`VaultProofs` needs it, because Initialize clears the list and must not drop
records. `TypeOK` alone is not
inductive either: the u64 range of the supply rests on MintTo's check, and the
types of split and merged balances on the native program's. Each action has a
step lemma. That `pool_total` follows the mint also where the counter wraps and
the supply does not is `WrapTwice`, from the uniqueness of remainders.

*The vault.* `VaultProofs` reduces every step to one of seven shapes: someone
entered, withdrew, removed a validator, burned tokens, moved lamports between two
accounts (a staker's Split or Merge), lamports arrived, or an update revalued the
pool (`NextVaultStep`). The refinement and the three action
properties follow from the shapes alone. Besides `IInv` this needs
`EmptyIsNoAccount` (an address without an account holds no lamports and is
nobody's), for CreateValidatorStakeAccount and users write new accounts there.
`BackedInv`, for `RecordsBacked`, adds that the pool is staker and withdrawer of
the account of every record that promises anything: a drained account that
somebody creates again has a record of 0, whatever authorities it gets.

The attempt to prove `SharePriceHolds` refuted its earlier form: with enough
tokens burned outside the pool, `pool_total` wraps in an entry although the
supply does not. It now leaves out the steps in which a counter wraps.

*The liquidity pool.* `LInv` adds to `TypeOK` that the fee is at most one: with a
larger one the payment to the seller would be negative. The attempt showed that
the transfers and the minting of the model lacked the token program's overflow
checks; they are guards now.

*The token program.* `IInv` adds to `TypeOK` and `NativeBacked` that wrapped SOL
is never frozen (CloseAccount empties wrapped SOL without looking at freezing)
and that an account holds nothing before it is initialized (InitializeAccount
overwrites the amount); the action properties need them. `MintWriters` and
`AccountWriters` list which steps can touch a mint or an account, so that each
property looks at those only. `SupplyCovers` compares sums over the accounts of a
mint before and after a step in which at most two of them change; a transfer of
an account to itself is a case of its own, as in `process_transfer`.

*The clients.* `CommandProofs` proves the shape of what each command signs
(`Shape`): whatever state it sees and however the node orders the accounts, the
transaction consists of instructions of that command, in its order, with its
arguments, and every tail of it has the shape again. For the updates this is a
fact about chunking a list, for withdraw about the fold of the planner. `ClientInv`
then says of the running transaction what it has taken so far (tokens gone plus
allowance left are the amount on the command line), which account is handed
over, and that an update with nothing left has run UpdatePoolBalance; and of the
state a rollback would restore that it satisfies the pool's invariants too
(`BeforeIInv`, over the saved accounts). That one is what
makes RollBack preserve anything. Only the shape of RollBack's effect matters, so
its ENABLED is never expanded. That an allowance left by an earlier withdrawal is
no danger rests on the order of instructions: in every command that burns through
an allowance Approve comes first, and the token program refuses it unless the
token account belongs to the wallet that signs (`SpendInv`).

*The encoding.* `MessageInv`: every message carries the bytes of its own
encoding, or bytes that agree with it as far as both go, and the accounts of its
constructor. `BytesReadBack` is the theorem on positional numerals,
`PoolNeverMisread` and `TokenNeverMisread` go through the instructions. `ListInv`:
the bytes of the list account decode to the list last meant. `ListReadBack`
proves it for one store (records begin where `InfoPlaces` says, and the count
tells them from leftovers), `KeptRecords` for the retain loop of
RemoveValidatorStakeAccount.

Only model-checked:

* `EventuallyUpToDate`: liveness is out of the prover's reach.
* `PlansAreRight`: that the planner's fold finds a plan whenever there is one, and
  which. What is proved of the fold is the shape of its result.
* `LiquidityEnvironment`: it needs, beyond `ClientInv`, that the stSOL of the
  wallets and of the liquidity pool together are the supply of the pool's mint.
* That commands and instructions are enabled when they should be.

## Not modelled

* The bytes of the `StakePool` account (a flat copy of a packed struct), and of
  mints, token accounts and multisigs, which stay records.
* Calls with other accounts than the documented ones (sysvars, programs, list,
  mint), except for UpdateListBalance; so also what Deposit and Withdraw do with a
  mint that is not the pool's.
* `command_create_pool` of `metacli` (a copy of `cli`'s that nothing calls),
  argument parsing, printing and key files of the clients.
* The C header and the performance tests of the token program; lockups and the
  warm-up arithmetic of `stake.rs`, which no handler calls; `calc_fee_amount` and
  `value_from_shares`, which have no caller.
* That the lamports of different wallets are different: `cash` is one number, so
  a command is refused for lack of lamports only when nobody has any.

## Plan

1. Prove `LiquidityEnvironment`, from the sum of all stSOL as a further conjunct
   of `ClientInv`: then the theorems on `LiquidityPool` are about the pool that
   the clients use.
2. Prove `PlansAreRight`, with an invariant of the planner's loop over the prefix
   of the accounts it has seen.
3. `SplToken` beneath the pools: the mint and the accounts of `StakePool` and
   `LiquidityPool` as an instance of it.
