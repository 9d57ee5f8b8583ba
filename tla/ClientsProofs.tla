---------------------------- MODULE ClientsProofs ----------------------------
(***************************************************************************)
(* Theorems about Clients, for every value of its constants: any number of *)
(* wallets, validators, commands and epochs.                               *)
(***************************************************************************)
EXTENDS CommandProofs

(***************************************************************************)
(* The inductive invariant.                                                *)
(***************************************************************************)

\* What a rollback would bring back satisfies the pool's invariant, with the
\* epoch and the burned tokens as they are now.
BeforeIInv ==
  LET b == tx.saved
  IN /\ epoch \in 0 .. MaxEpoch /\ burned \in Nat
     /\ b.pool \in StakePoolAccount /\ b.list \in SUBSET ValidatorStakeInfo
     /\ b.stake \in [StakeAddrs -> StakeAccount]
     /\ b.token \in [Users -> Nat] /\ b.supply \in U64 /\ b.cash \in Nat
     /\ b.pool.pool_total = Add64(b.supply, burned)
     /\ b.pool.last_update_epoch <= epoch
     /\ \A r \in b.list : /\ b.pool.last_update_epoch <= r.last_update_epoch
                          /\ r.last_update_epoch <= epoch
     /\ \A r, q \in b.list : r.validator_account = q.validator_account => r = q
     /\ b.pool.version = 0 => b.list = {}

\* Commands between reading and sending.
ClientsInv ==
  \A t \in Terminals :
    client[t] # Free =>
      /\ client[t].cmd.owner = WalletOf[t]
      /\ client[t].step = "read" => client[t].seen.version = 1
                                    /\ OwnerGiven(client[t].seen)
      /\ client[t].step = "signed" =>
           SignedShape(client[t].cmd, client[t].instructions)

\* The running transaction: its shape, and what it would put back.
RunningInv ==
  ~Idle => /\ Shape(tx.cmd, tx.left)
           /\ BeforeIInv /\ OwnerGiven(tx.saved.pool)

\* What the running transaction has taken so far.  Nothing is burned through
\* an allowance before Approve has run, and Approve runs only for a token
\* account of the wallet that signs.
SpendInv ==
  ~Idle =>
    LET w == tx.cmd.owner
        op == tx.cmd.op
    IN /\ \A u \in Users : u # w => token[u] >= tx.saved.token[u]
       /\ op \notin {"withdraw", "remove-validator-stake", "sell"} =>
            token[w] >= tx.saved.token[w]
       /\ op = "sell" =>
            IF tx.left # <<>> THEN token[w] = tx.saved.token[w]
            ELSE tx.saved.token[w] - token[w] <= tx.cmd.amount
       /\ op \in Spending =>
            \/ /\ tx.left # <<>> /\ tx.left[1].ix = "Approve"
               /\ token = tx.saved.token
            \/ /\ \A k \in 1 .. Len(tx.left) : tx.left[k].ix # "Approve"
               /\ tx.cmd.burn_from = w
               /\ op = "withdraw" =>
                    tx.saved.token[w] - token[w] + allowance[w] = tx.cmd.amount

\* An update has nothing left only after UpdatePoolBalance.
UpdateInv ==
  ~Idle /\ tx.left = <<>> /\ tx.cmd.op \in {"update", "update-force"} =>
    UpToDate /\ NothingToUpdate

\* No stake account is handed over but, possibly, those in ex.
NotHandedOver(accounts, ex) ==
  \A a \in StakeAddrs \ ex :
    /\ accounts[a].staker # DepositAuthority
    /\ accounts[a].withdrawer # DepositAuthority

\* The account a running command may have handed over.
InTransit ==
  IF ~Idle /\ tx.left # <<>> /\ tx.cmd.op \in {"add-validator-stake", "deposit"}
  THEN {tx.cmd.stake} ELSE {}

LimboInv ==
  "HandOver" \notin menu.outside =>
    /\ NotHandedOver(stake, InTransit)
    /\ ~Idle => NotHandedOver(tx.saved.stake, {})

ClientInv ==
  /\ ClientTypeOK
  /\ IInv
  /\ OwnerGiven(pool)
  /\ ClientsInv
  /\ RunningInv
  /\ SpendInv
  /\ UpdateInv
  /\ LimboInv


-----------------------------------------------------------------------------
(***************************************************************************)
(* Instructions and what is left of a transaction.                         *)
(***************************************************************************)

\* The arguments of an instruction, by its kind.
LEMMA Arguments ==
  ASSUME NEW i \in InstructionData
  PROVE  /\ i.ix = "Initialize" => i.fee \in Fees
         /\ i.ix = "CreateValidatorStakeAccount" => i.validator \in Validators
         /\ i.ix = "AddValidatorStakeAccount" =>
              i.stake \in StakeAddrs /\ i.receiver \in Users
         /\ i.ix = "RemoveValidatorStakeAccount" =>
              /\ i.stake \in StakeAddrs /\ i.new_authority \in Users
              /\ i.burn_from \in Users
         /\ i.ix = "UpdateListBalance" => i.accounts \in SUBSET Validators
         /\ i.ix = "Deposit" => /\ i.stake \in StakeAddrs
                                /\ i.validator \in Validators
                                /\ i.receiver \in Users
         /\ i.ix = "Withdraw" => /\ i.receiver \in UserStakes
                                 /\ i.amount \in U64 /\ i.burn_from \in Users
         /\ i.ix = "SetStakingAuthority" =>
              /\ i.stake \in PoolStakes
              /\ i.staker \in Users \cup {WithdrawAuthority}
         /\ i.ix = "SetOwner" =>
              i.new_owner \in Users /\ i.new_fee_receiver \in Users
         /\ i.ix \in {"AddLiquidity", "SellstSOL"} => i.amount \in U64
         /\ i.ix = "CreateAccount" => i.kind \in AccountKinds
         /\ i.ix = "Authorize" =>
              i.stake \in StakeAddrs /\ i.kind \in {"Staker", "Withdrawer"}
         /\ i.ix = "Approve" => i.amount \in U64
  BY DEF InstructionData

\* The kinds there are.
LEMMA Kinds ==
  ASSUME NEW i \in InstructionData
  PROVE  i.ix \in {"Initialize", "CreateValidatorStakeAccount",
                   "AddValidatorStakeAccount", "RemoveValidatorStakeAccount",
                   "UpdateListBalance", "UpdatePoolBalance", "Deposit",
                   "Withdraw", "SetStakingAuthority", "SetOwner",
                   "AddLiquidity", "SellstSOL", "CreateAccount", "Authorize",
                   "Approve"}
  BY DEF InstructionData

\* Running the first instruction leaves a transaction of the same shape; the
\* one that leaves nothing is the completing one.
LEMMA TailShape ==
  ASSUME NEW c, NEW left, Shape(c, left), left # <<>>
  PROVE  /\ Head(left) = left[1] /\ left[1] \in InstructionData
         /\ Fits(c, left[1])
         /\ Shape(c, Tail(left))
         /\ \A k \in 1 .. Len(Tail(left)) : Tail(left)[k].ix # "Approve"
         /\ Tail(left) = <<>> => Completes(c, left[1])
         /\ left[1].ix \notin Early => Tail(left) = <<>>
  <1> DEFINE t == Tail(left)
  <1>1. /\ left \in Seq(InstructionData) /\ Len(left) \in Nat /\ Len(left) >= 1
        /\ left[1] \in InstructionData /\ Head(left) = left[1]
        /\ t \in Seq(InstructionData) /\ Len(t) = Len(left) - 1
        /\ \A k \in 1 .. Len(t) : k + 1 \in 1 .. Len(left) /\ t[k] = left[k + 1]
    BY DEF Shape
  <1> HIDE DEF t
  <1>2. t = <<>> <=> Len(left) = 1
    <2>1. t = <<>> <=> Len(t) = 0
      BY <1>1, EmptySeq
    <2>2. QED BY <1>1, <2>1
  <1>3. t # <<>> => t[Len(t)] = left[Len(left)]
    BY <1>1, <1>2
  <1>4. InOrder(c, t)
    <2>1. t # <<>> => Completes(c, t[Len(t)])
      BY <1>3 DEF Shape, InOrder
    <2>2. \A k \in 1 .. Len(t) : t[k].ix = "Approve" => k = 1
      BY <1>1 DEF Shape, InOrder
    <2>3. \A k \in 1 .. Len(t) : t[k].ix \notin Early => k = Len(t)
      BY <1>1 DEF Shape, InOrder
    <2>4. QED BY <2>1, <2>2, <2>3 DEF InOrder
  <1>5. \A k \in 1 .. Len(t) : Fits(c, t[k]) /\ t[k].ix # "Approve"
    BY <1>1 DEF Shape, InOrder
  <1>6. Fits(c, left[1])
    BY <1>1 DEF Shape
  <1>7. t = <<>> => Completes(c, left[1])
    BY <1>2 DEF Shape, InOrder
  <1>8. left[1].ix \notin Early => t = <<>>
    BY <1>1, <1>2 DEF Shape, InOrder
  <1>9. QED BY <1>1, <1>4, <1>5, <1>6, <1>7, <1>8 DEF Shape, t

-----------------------------------------------------------------------------
(***************************************************************************)
(* What one instruction does, as far as the invariants care.               *)
(***************************************************************************)

\* The pool before an instruction.
Ready == IInv /\ OwnerGiven(pool) /\ allowance \in [Users -> Nat]

\* Only three kinds take tokens: two from the token account they name, and a
\* sale from the wallet that signs.
TokenEffect(w, i) ==
  /\ allowance' \in [Users -> Nat]
  /\ \A u \in Users :
       \/ token[u] <= token'[u]
       \/ /\ i.ix \in {"RemoveValidatorStakeAccount", "Withdraw"}
          /\ u = i.burn_from
       \/ i.ix = "SellstSOL" /\ u = w
  /\ i.ix \in {"CreateAccount", "Approve"} => token' = token
  /\ i.ix = "Approve" => i.burn_from = w /\ allowance'[w] = i.amount
  /\ i.ix = "Withdraw" =>
       token'[i.burn_from] - allowance'[i.burn_from]
         = token[i.burn_from] - allowance[i.burn_from]
  /\ i.ix = "SellstSOL" => token'[w] = token[w] - i.amount

\* Only Authorize hands an account over; Deposit and AddValidatorStakeAccount
\* take the one they are given.
HandEffect(i) ==
  \A ex \in SUBSET StakeAddrs :
    NotHandedOver(stake, ex) =>
      /\ i.ix = "Authorize" /\ i.stake \in ex => NotHandedOver(stake', ex)
      /\ i.ix # "Authorize" => NotHandedOver(stake', ex)
      /\ i.ix \in {"AddValidatorStakeAccount", "Deposit"} =>
           NotHandedOver(stake', ex \ {i.stake})

Effect(w, i) ==
  /\ IInv' /\ epoch' = epoch /\ burned' = burned
  /\ OwnerGiven(pool') /\ TokenEffect(w, i) /\ HandEffect(i)
  /\ i.ix = "UpdatePoolBalance" => UpToDate' /\ NothingToUpdate'

\* Authorities that stay, or become keys other than the deposit authority.
LEMMA HandsKept ==
  ASSUME NEW i, i.ix \notin {"AddValidatorStakeAccount", "Deposit"},
         \A a \in StakeAddrs :
           /\ stake'[a].staker \in {stake[a].staker} \cup (Keys \ {DepositAuthority})
                                                    \cup {NoKey}
           /\ stake'[a].withdrawer \in
                {stake[a].withdrawer} \cup (Keys \ {DepositAuthority}) \cup {NoKey}
  PROVE  HandEffect(i)
  <1>1. NoKey # DepositAuthority
    BY KeyAssumption DEF Keys
  <1>2. QED BY <1>1 DEF HandEffect, NotHandedOver

\* Kinds that touch neither tokens, allowances nor owners.
LEMMA QuietEffect ==
  ASSUME Ready, NEW w \in Users, NEW i,
         i.ix \notin {"Approve", "Withdraw", "SellstSOL", "UpdatePoolBalance"},
         IInv', HandEffect(i), UNCHANGED <<epoch, burned, token, allowance>>,
         /\ pool'.version = pool.version /\ pool'.owner = pool.owner
         /\ pool'.owner_fee_account = pool.owner_fee_account
  PROVE  Effect(w, i)
  <1>1. \A u \in Users : token[u] <= token'[u]
    BY DEF Ready, IInv, TypeOK
  <1>2. TokenEffect(w, i)
    <2>1. allowance' \in [Users -> Nat] /\ token' = token
      BY DEF Ready
    <2>2. QED BY <1>1, <2>1 DEF TokenEffect
  <1>3. OwnerGiven(pool')
    BY DEF Ready, OwnerGiven
  <1>4. QED BY <1>2, <1>3 DEF Effect

\* Minting adds to one wallet.
LEMMA MintEffect ==
  ASSUME Ready, NEW u \in Users, NEW n \in U64, MintTo(u, n)
  PROVE  \A x \in Users : token[x] <= token'[x]
  BY U64MaxAssumption DEF Ready, IInv, TypeOK, MintTo, U64

\* Burning through the allowance takes from both.
LEMMA BurnEffect ==
  ASSUME Ready, NEW w \in Users, NEW n \in Nat, Burn(w, n), SpendsAllowance(w)
  PROVE  /\ allowance' \in [Users -> Nat]
         /\ \A x \in Users : token[x] <= token'[x] \/ x = w
         /\ token'[w] - allowance'[w] = token[w] - allowance[w]
  <1>1. /\ token \in [Users -> Nat] /\ allowance \in [Users -> Nat]
        /\ token[w] \in Nat /\ allowance[w] \in Nat
    BY DEF Ready, IInv, TypeOK
  <1>2. /\ token'[w] = token[w] - n
        /\ \A x \in Users : x # w => token'[x] = token[x] /\ token[x] \in Nat
    BY <1>1 DEF Burn
  <1>3. token[w] - token'[w] = n
    BY <1>1, <1>2
  <1>4. /\ n <= allowance[w]
        /\ allowance' = [allowance EXCEPT ![w] = allowance[w] - n]
    BY <1>3 DEF SpendsAllowance
  <1>5. allowance[w] - n \in Nat /\ allowance'[w] = allowance[w] - n
    BY <1>1, <1>4
  <1>6. allowance' \in [Users -> Nat]
    BY <1>1, <1>4, <1>5
  <1>7. QED BY <1>1, <1>2, <1>5, <1>6

\* What process_initialize changes of what the clients rely on.
LEMMA InitializeEffect ==
  ASSUME Ready, NEW w \in Users, NEW i \in InstructionData,
         i.ix = "Initialize", Execute(w, i)
  PROVE  Effect(w, i)
  <1>1. process_initialize(w, i.fee) /\ UNCHANGED allowance
    BY DEF Execute, PoolInstruction, LiquidityInstruction, OtherInstruction
  <1>2. IInv'
    BY <1>1, Arguments, InitializeStep DEF Ready
  <1>3. /\ pool.version = 0 /\ pool'.owner = w /\ pool'.owner_fee_account = w
        /\ UNCHANGED <<epoch, stake, token, burned>>
    BY <1>1 DEF process_initialize, Ready, IInv, TypeOK, StakePoolAccount,
                IsInitialized
  <1>4. OwnerGiven(pool')
    BY <1>3 DEF OwnerGiven
  <1>5. HandEffect(i)
    BY <1>3, HandsKept
  <1>6. \A u \in Users : token[u] <= token'[u]
    BY <1>3 DEF Ready, IInv, TypeOK
  <1>7. TokenEffect(w, i)
    <2>1. allowance' \in [Users -> Nat] /\ token' = token
      BY <1>1, <1>3 DEF Ready
    <2>2. QED BY <1>6, <2>1 DEF TokenEffect
  <1>8. QED BY <1>2, <1>3, <1>4, <1>5, <1>7 DEF Effect

\* The same of process_create_validator_stake_account.
LEMMA CreateEffect ==
  ASSUME Ready, NEW w \in Users, NEW i \in InstructionData,
         i.ix = "CreateValidatorStakeAccount", Execute(w, i)
  PROVE  Effect(w, i)
  <1>1. /\ process_create_validator_stake_account(i.validator, w, w)
        /\ UNCHANGED allowance /\ i.validator \in Validators
    BY Arguments
       DEF Execute, PoolInstruction, LiquidityInstruction, OtherInstruction
  <1>2. IInv'
    BY <1>1, CreateStep DEF Ready, Keys
  <1>3. UNCHANGED <<epoch, pool, token, burned>>
    BY <1>1 DEF process_create_validator_stake_account
  <1>4. \A a \in StakeAddrs :
          \/ stake'[a] = stake[a]
          \/ stake'[a].staker = w /\ stake'[a].withdrawer = w
    BY <1>1 DEF process_create_validator_stake_account, Ready, IInv, TypeOK
  <1>5. w \in Keys \ {DepositAuthority}
    BY KeyAssumption DEF Keys
  <1>6. HandEffect(i)
    BY <1>4, <1>5, HandsKept
  <1>7. QED BY <1>1, <1>2, <1>3, <1>6, QuietEffect

\* The same of process_add_validator_stake_account.
LEMMA AddEffect ==
  ASSUME Ready, NEW w \in Users, NEW i \in InstructionData,
         i.ix = "AddValidatorStakeAccount", Execute(w, i)
  PROVE  Effect(w, i)
  <1>1. /\ UNCHANGED allowance
        /\ \E v \in Validators :
             /\ StakeAddress(v) = i.stake
             /\ process_add_validator_stake_account(w, v, i.receiver)
    BY DEF Execute, PoolInstruction, LiquidityInstruction, OtherInstruction
  <1>2. PICK v \in Validators :
          /\ StakeAddress(v) = i.stake
          /\ process_add_validator_stake_account(w, v, i.receiver)
    BY <1>1
  <1> DEFINE addr == StakeAddress(v)
             lamports == stake[addr].lamports
             amount == calc_pool_deposit_amount(pool, lamports)
             new == AuthorizedBoth(stake[addr], WithdrawAuthority)
  <1>3. /\ i.receiver \in Users /\ addr \in StakeAddrs
        /\ stake \in [StakeAddrs -> StakeAccount]
        /\ stake[addr] \in StakeAccount /\ lamports \in U64
        /\ pool \in StakePoolAccount
        /\ WithdrawAuthority \in Keys \ {DepositAuthority}
    BY Arguments, AddressFacts, KeyAssumption
       DEF Ready, IInv, TypeOK, StakeAccount, Keys
  <1>4. IInv'
    BY <1>2, <1>3, AddStep DEF Ready
  <1>5. /\ amount \in U64 /\ MintTo(i.receiver, amount)
        /\ stake' = [stake EXCEPT ![addr] = new]
        /\ pool' = Credit(pool, amount, lamports)
        /\ UNCHANGED <<epoch, burned>>
    BY <1>2 DEF process_add_validator_stake_account
  <1>6. /\ pool'.version = pool.version /\ pool'.owner = pool.owner
        /\ pool'.owner_fee_account = pool.owner_fee_account
    BY <1>3, <1>5 DEF Credit, StakePoolAccount
  <1>7. OwnerGiven(pool')
    BY <1>6 DEF OwnerGiven, Ready
  <1>8. TokenEffect(w, i)
    <2>1. \A x \in Users : token[x] <= token'[x]
      <3> HIDE DEF amount
      <3>1. QED BY <1>3, <1>5, MintEffect
    <2>2. allowance' \in [Users -> Nat]
      BY <1>1 DEF Ready
    <2>3. QED BY <2>1, <2>2 DEF TokenEffect
  <1>9. new.staker # DepositAuthority /\ new.withdrawer # DepositAuthority
    BY <1>3, AuthorizedBothFacts
  <1> HIDE DEF new
  <1>10. HandEffect(i)
    BY <1>2, <1>3, <1>5, <1>9 DEF HandEffect, NotHandedOver
  <1>11. QED BY <1>4, <1>5, <1>7, <1>8, <1>10 DEF Effect

\* The same of process_remove_validator_stake_account.
LEMMA RemoveEffect ==
  ASSUME Ready, NEW w \in Users, NEW i \in InstructionData,
         i.ix = "RemoveValidatorStakeAccount", Execute(w, i)
  PROVE  Effect(w, i)
  <1>1. /\ SpendsAllowance(i.burn_from)
        /\ \E v \in Validators :
             /\ StakeAddress(v) = i.stake
             /\ process_remove_validator_stake_account(w, i.burn_from, v,
                                                      i.new_authority)
    BY DEF Execute, PoolInstruction, LiquidityInstruction, OtherInstruction
  <1>2. PICK v \in Validators :
          /\ StakeAddress(v) = i.stake
          /\ process_remove_validator_stake_account(w, i.burn_from, v,
                                                      i.new_authority)
    BY <1>1
  <1> DEFINE addr == StakeAddress(v)
             lamports == stake[addr].lamports
             amount == calc_pool_withdraw_amount(pool, lamports)
             new == AuthorizedBoth(stake[addr], i.new_authority)
  <1>3. /\ i.new_authority \in Users /\ addr \in StakeAddrs /\ i.burn_from \in Users
        /\ stake \in [StakeAddrs -> StakeAccount]
        /\ stake[addr] \in StakeAccount
        /\ pool \in StakePoolAccount
        /\ i.new_authority \in Keys \ {DepositAuthority}
    BY Arguments, AddressFacts, KeyAssumption
       DEF Ready, IInv, TypeOK, StakeAccount, Keys
  <1>4. IInv'
    BY <1>2, <1>3, RemoveStep DEF Ready
  <1>5. /\ amount \in U64 /\ Burn(i.burn_from, amount)
        /\ stake' = [stake EXCEPT ![addr] = new]
        /\ pool' = Debit(pool, amount, lamports)
        /\ UNCHANGED <<epoch, burned>>
    BY <1>2 DEF process_remove_validator_stake_account
  <1>6. /\ pool'.version = pool.version /\ pool'.owner = pool.owner
        /\ pool'.owner_fee_account = pool.owner_fee_account
    BY <1>3, <1>5 DEF Debit, StakePoolAccount
  <1>7. OwnerGiven(pool')
    BY <1>6 DEF OwnerGiven, Ready
  <1>8. TokenEffect(w, i)
    <2>1. amount \in Nat
      BY <1>5, U64MaxAssumption DEF U64
    <2>2. /\ allowance' \in [Users -> Nat]
          /\ \A x \in Users : token[x] <= token'[x] \/ x = i.burn_from
      <3> HIDE DEF amount
      <3>1. QED BY <1>1, <1>3, <1>5, <2>1, BurnEffect
    <2>3. QED BY <2>2 DEF TokenEffect
  <1>9. new.staker = i.new_authority /\ new.withdrawer = i.new_authority
    BY <1>3, AuthorizedBothFacts
  <1> HIDE DEF new
  <1>10. HandEffect(i)
    BY <1>3, <1>5, <1>9, HandsKept
  <1>11. QED BY <1>4, <1>5, <1>7, <1>8, <1>10 DEF Effect

\* The same of the two update instructions.
LEMMA UpdateEffect ==
  ASSUME Ready, NEW w \in Users, NEW i \in InstructionData,
         i.ix \in {"UpdateListBalance", "UpdatePoolBalance"}, Execute(w, i)
  PROVE  Effect(w, i)
  <1>1. CASE i.ix = "UpdateListBalance"
    <2>1. process_update_list_balance(i.accounts) /\ UNCHANGED allowance
      BY <1>1 DEF Execute, PoolInstruction, LiquidityInstruction,
                  OtherInstruction
    <2>2. i.accounts \in UpdateArguments
      BY <1>1, Arguments DEF UpdateArguments
    <2>3. IInv'
      BY <2>1, <2>2, UpdateListStep DEF Ready
    <2>4. UNCHANGED <<epoch, pool, stake, token, burned>>
      BY <2>1 DEF process_update_list_balance
    <2>5. HandEffect(i)
      BY <1>1, <2>4, HandsKept
    <2>6. QED BY <1>1, <2>1, <2>3, <2>4, <2>5, QuietEffect
  <1>2. CASE i.ix = "UpdatePoolBalance"
    <2>1. process_update_pool_balance /\ UNCHANGED allowance
      BY <1>2 DEF Execute, PoolInstruction, LiquidityInstruction,
                  OtherInstruction
    <2>2. IInv'
      BY <2>1, UpdatePoolStep DEF Ready
    <2>3. /\ UNCHANGED <<epoch, list, stake, token, burned>>
          /\ \A r \in list : r.last_update_epoch >= epoch
          /\ pool' = [pool EXCEPT !.stake_total = SumBalances(list),
                                  !.last_update_epoch = epoch]
      BY <2>1 DEF process_update_pool_balance
    <2>4. pool \in StakePoolAccount /\ epoch \in Nat
      BY PoolAssumption DEF Ready, IInv, TypeOK
    <2>5. /\ pool'.version = pool.version /\ pool'.owner = pool.owner
          /\ pool'.owner_fee_account = pool.owner_fee_account
          /\ pool'.last_update_epoch = epoch
      BY <2>3, <2>4 DEF StakePoolAccount
    <2>6. UpToDate' /\ NothingToUpdate'
      BY <2>3, <2>4, <2>5 DEF UpToDate, NothingToUpdate
    <2>7. HandEffect(i)
      BY <1>2, <2>3, HandsKept
    <2>8. OwnerGiven(pool')
      BY <2>5 DEF OwnerGiven, Ready
    <2>9. \A u \in Users : token[u] <= token'[u]
      BY <2>3 DEF Ready, IInv, TypeOK
    <2>10. TokenEffect(w, i)
      BY <1>2, <2>1, <2>3, <2>9 DEF TokenEffect, Ready
    <2>11. QED BY <2>2, <2>3, <2>6, <2>7, <2>8, <2>10 DEF Effect
  <1>3. QED BY <1>1, <1>2

\* The same of process_deposit.
LEMMA DepositEffect ==
  ASSUME Ready, NEW w \in Users, NEW i \in InstructionData,
         i.ix = "Deposit", Execute(w, i)
  PROVE  Effect(w, i)
  <1>1. process_deposit(i.stake, i.validator, i.receiver) /\ UNCHANGED allowance
    BY DEF Execute, PoolInstruction, LiquidityInstruction, OtherInstruction
  <1> DEFINE target == StakeAddress(i.validator)
             joined == AuthorizedBoth(stake[i.stake], WithdrawAuthority)
             lamports == stake[i.stake].lamports
             amount == calc_pool_deposit_amount(pool, lamports)
             merged == Merged(stake[target], joined)
  <1>2. /\ i.receiver \in Users /\ target \in StakeAddrs
        /\ i.stake \in StakeAddrs /\ i.validator \in Validators
        /\ stake \in [StakeAddrs -> StakeAccount]
        /\ stake[i.stake] \in StakeAccount /\ stake[target] \in StakeAccount
        /\ pool \in StakePoolAccount /\ NoKey # DepositAuthority
    BY Arguments, AddressFacts, KeyAssumption DEF Ready, IInv, TypeOK, Keys
  <1>3. IInv'
    BY <1>1, <1>2, DepositStep DEF Ready
  <1>4. /\ amount \in U64 /\ MintTo(i.receiver, amount) /\ i.stake # target
        /\ stake' = [stake EXCEPT ![target] = merged, ![i.stake] = NoAccount]
        /\ pool' = Credit(pool, amount, lamports)
        /\ UNCHANGED <<epoch, burned>>
    BY <1>1 DEF process_deposit
  <1>5. /\ pool'.version = pool.version /\ pool'.owner = pool.owner
        /\ pool'.owner_fee_account = pool.owner_fee_account
    BY <1>2, <1>4 DEF Credit, StakePoolAccount
  <1>6. OwnerGiven(pool')
    BY <1>5 DEF OwnerGiven, Ready
  <1>7. TokenEffect(w, i)
    <2>1. \A x \in Users : token[x] <= token'[x]
      <3> HIDE DEF amount
      <3>1. QED BY <1>2, <1>4, MintEffect
    <2>2. allowance' \in [Users -> Nat]
      BY <1>1 DEF Ready
    <2>3. QED BY <2>1, <2>2 DEF TokenEffect
  <1>8. /\ merged.staker = stake[target].staker
        /\ merged.withdrawer = stake[target].withdrawer
    BY <1>2 DEF Merged, StakeAccount
  <1> HIDE DEF merged
  <1>9. /\ stake'[i.stake].staker = NoKey /\ stake'[i.stake].withdrawer = NoKey
        /\ \A a \in StakeAddrs \ {i.stake} :
             /\ stake'[a].staker = stake[a].staker
             /\ stake'[a].withdrawer = stake[a].withdrawer
    BY <1>2, <1>4, <1>8 DEF NoAccount
  <1>10. HandEffect(i)
    BY <1>2, <1>9 DEF HandEffect, NotHandedOver
  <1>11. QED BY <1>3, <1>4, <1>6, <1>7, <1>10 DEF Effect

\* The same of process_withdraw.
LEMMA WithdrawEffect ==
  ASSUME Ready, NEW w \in Users, NEW i \in InstructionData,
         i.ix = "Withdraw", Execute(w, i)
  PROVE  Effect(w, i)
  <1>1. /\ SpendsAllowance(i.burn_from)
        /\ \E v \in Validators :
             /\ StakeAddress(v) = i.stake
             /\ process_withdraw(i.burn_from, v, i.receiver, w, i.amount)
    BY DEF Execute, PoolInstruction, LiquidityInstruction, OtherInstruction
  <1>2. PICK v \in Validators :
          process_withdraw(i.burn_from, v, i.receiver, w, i.amount)
    BY <1>1
  <1> DEFINE source == StakeAddress(v)
             lamports == calc_lamports_amount(pool, i.amount)
             rest == SplitSource(stake[source], lamports)
             new == AuthorizedBoth(SplitTarget(stake[source], lamports), w)
  <1>3. /\ i.receiver \in UserStakes /\ i.receiver \in StakeAddrs
        /\ source \in StakeAddrs /\ i.amount \in Nat /\ i.burn_from \in Users
        /\ stake \in [StakeAddrs -> StakeAccount]
        /\ stake[source] \in StakeAccount
        /\ pool \in StakePoolAccount /\ w \in Keys \ {DepositAuthority}
    BY Arguments, AddressFacts, KeyAssumption, U64MaxAssumption
       DEF Ready, IInv, TypeOK, Keys, U64
  <1>4. IInv'
    BY <1>2, <1>3, WithdrawStep DEF Ready
  <1>5. /\ lamports \in U64 /\ CanSplit(stake[source], WithdrawAuthority, lamports)
        /\ Burn(i.burn_from, i.amount)
        /\ stake' = [stake EXCEPT ![source] = rest, ![i.receiver] = new]
        /\ pool' = Debit(pool, i.amount, lamports)
        /\ UNCHANGED <<epoch, burned>>
    BY <1>2 DEF process_withdraw
  <1>6. /\ pool'.version = pool.version /\ pool'.owner = pool.owner
        /\ pool'.owner_fee_account = pool.owner_fee_account
    BY <1>3, <1>5 DEF Debit, StakePoolAccount
  <1>7. OwnerGiven(pool')
    BY <1>6 DEF OwnerGiven, Ready
  <1>8. TokenEffect(w, i)
    <2>1. /\ allowance' \in [Users -> Nat]
          /\ \A x \in Users : token[x] <= token'[x] \/ x = i.burn_from
          /\ token'[i.burn_from] - allowance'[i.burn_from]
               = token[i.burn_from] - allowance[i.burn_from]
      BY <1>1, <1>3, <1>5, BurnEffect
    <2>2. QED BY <2>1 DEF TokenEffect
  <1>9. new.staker = w /\ new.withdrawer = w
    <2>1. SplitTarget(stake[source], lamports) \in StakeAccount
      <3> HIDE DEF lamports
      <3>1. QED BY <1>3, <1>5, SplitFacts
    <2>2. QED BY <1>3, <2>1, AuthorizedBothFacts
  <1>10. /\ rest.staker \in {stake[source].staker, NoKey}
         /\ rest.withdrawer \in {stake[source].withdrawer, NoKey}
    BY <1>3 DEF SplitSource, NoAccount, StakeAccount
  <1> HIDE DEF new, rest
  <1>11. \A a \in StakeAddrs :
           /\ stake'[a].staker \in {stake[a].staker, w, NoKey}
           /\ stake'[a].withdrawer \in {stake[a].withdrawer, w, NoKey}
    BY <1>3, <1>5, <1>9, <1>10
  <1>12. HandEffect(i)
    BY <1>3, <1>11, HandsKept
  <1>13. QED BY <1>4, <1>5, <1>7, <1>8, <1>12 DEF Effect

\* The same of process_set_staking_auth and process_set_owner.
LEMMA ManageEffect ==
  ASSUME Ready, NEW w \in Users, NEW i \in InstructionData,
         i.ix \in {"SetStakingAuthority", "SetOwner"}, Execute(w, i)
  PROVE  Effect(w, i)
  <1>1. CASE i.ix = "SetStakingAuthority"
    <2>1. process_set_staking_auth(w, i.stake, i.staker) /\ UNCHANGED allowance
      BY <1>1 DEF Execute, PoolInstruction, LiquidityInstruction,
                  OtherInstruction
    <2>2. PICK v \in Validators : i.stake = StakeAddress(v)
      BY <1>1, Arguments DEF PoolStakes
    <2>3. /\ i.staker \in Users \cup {WithdrawAuthority}
          /\ i.staker \in Keys \ {DepositAuthority}
          /\ i.staker \in Keys \cup {NoKey}
      BY <1>1, Arguments, KeyAssumption DEF Keys
    <2>4. IInv'
      BY <2>1, <2>2, <2>3, AddressFacts, SetStakingAuthStep DEF Ready
    <2>5. /\ UNCHANGED <<epoch, pool, token, burned>>
          /\ stake' = [stake EXCEPT ![i.stake] =
                         Authorized(stake[i.stake], i.staker, "Staker")]
      BY <2>1 DEF process_set_staking_auth
    <2>6. /\ stake \in [StakeAddrs -> StakeAccount] /\ i.stake \in StakeAddrs
          /\ stake[i.stake] \in StakeAccount
      BY <2>2, AddressFacts DEF Ready, IInv, TypeOK
    <2> DEFINE new == Authorized(stake[i.stake], i.staker, "Staker")
    <2>7. new.staker = i.staker /\ new.withdrawer = stake[i.stake].withdrawer
      BY <2>3, <2>6, AuthorizedFacts
    <2> HIDE DEF new
    <2>8. \A a \in StakeAddrs :
            /\ stake'[a].staker \in {stake[a].staker, i.staker}
            /\ stake'[a].withdrawer = stake[a].withdrawer
      BY <2>5, <2>6, <2>7 DEF new
    <2>9. HandEffect(i)
      BY <1>1, <2>3, <2>8, HandsKept
    <2>10. QED BY <1>1, <2>1, <2>4, <2>5, <2>9, QuietEffect
  <1>2. CASE i.ix = "SetOwner"
    <2>1. /\ process_set_owner(w, i.new_owner, i.new_fee_receiver)
          /\ UNCHANGED allowance
      BY <1>2 DEF Execute, PoolInstruction, LiquidityInstruction,
                  OtherInstruction
    <2>2. i.new_owner \in Users /\ i.new_fee_receiver \in Users
      BY <1>2, Arguments
    <2>3. IInv'
      BY <2>1, <2>2, SetOwnerStep DEF Ready
    <2>4. /\ UNCHANGED <<epoch, stake, token, burned>>
          /\ pool'.owner = i.new_owner
          /\ pool'.owner_fee_account = i.new_fee_receiver
      BY <2>1 DEF process_set_owner, CheckOwner, Ready, IInv, TypeOK,
                  StakePoolAccount
    <2>5. OwnerGiven(pool')
      BY <1>2, <2>2, <2>4 DEF OwnerGiven
    <2>6. HandEffect(i)
      BY <1>2, <2>4, HandsKept
    <2>7. \A u \in Users : token[u] <= token'[u]
      BY <2>4 DEF Ready, IInv, TypeOK
    <2>8. TokenEffect(w, i)
      BY <1>2, <2>1, <2>7 DEF TokenEffect, Ready
    <2>9. QED BY <1>2, <2>3, <2>4, <2>5, <2>6, <2>8 DEF Effect
  <1>3. QED BY <1>1, <1>2

\* What is left of the invariant when only tokens and lamports move.
LEMMA OnlyTokens ==
  ASSUME IInv, UNCHANGED <<epoch, pool, list, stake, supply, burned>>,
         token' \in [Users -> Nat], cash' \in Nat
  PROVE  IInv'
  BY DEF IInv, TypeOK, PoolTotalIsSupply, FreshPoolHasFreshRecords,
         OneRecordPerValidator

\* The same of the two instructions of the liquidity pool.
LEMMA LiquidityEffect ==
  ASSUME Ready, NEW w \in Users, NEW i \in InstructionData,
         i.ix \in {"AddLiquidity", "SellstSOL"}, Execute(w, i)
  PROVE  Effect(w, i)
  <1>1. LiquidityInstruction(w, i)
    BY DEF Execute, PoolInstruction, OtherInstruction
  <1>2. /\ token \in [Users -> Nat] /\ cash \in Nat /\ i.amount \in Nat
        /\ UNCHANGED <<epoch, pool, list, stake, supply, cash, burned, allowance>>
    BY <1>1, Arguments, U64MaxAssumption
       DEF LiquidityInstruction, Ready, IInv, TypeOK, U64
  <1>3. HandEffect(i)
    BY <1>2, HandsKept
  <1>4. OwnerGiven(pool')
    BY <1>2 DEF Ready
  <1>5. CASE i.ix = "AddLiquidity"
    <2>1. token' = token
      BY <1>1, <1>5 DEF LiquidityInstruction
    <2>2. IInv'
      BY <1>2, <2>1, OnlyTokens DEF Ready
    <2>3. QED BY <1>2, <1>3, <1>5, <2>1, <2>2, QuietEffect
  <1>6. CASE i.ix = "SellstSOL"
    <2>1. /\ i.amount <= token[w]
          /\ token' = [token EXCEPT ![w] = token[w] - i.amount]
      BY <1>1, <1>6
         DEF LiquidityInstruction, Liquidity!process_sell_stsol,
             Liquidity!CanTransfer
    <2>2. /\ token' \in [Users -> Nat] /\ token'[w] = token[w] - i.amount
          /\ \A x \in Users : x # w => token[x] <= token'[x]
      BY <1>2, <2>1
    <2>3. IInv'
      BY <1>2, <2>2, OnlyTokens DEF Ready
    <2>4. TokenEffect(w, i)
      BY <1>2, <1>6, <2>2 DEF TokenEffect, Ready
    <2>5. QED BY <1>2, <1>3, <1>4, <1>6, <2>3, <2>4 DEF Effect
  <1>7. QED BY <1>5, <1>6

\* The same of the instructions of other programs.
LEMMA OtherEffect ==
  ASSUME Ready, NEW w \in Users, NEW i \in InstructionData,
         i.ix \in {"CreateAccount", "Authorize", "Approve"}, Execute(w, i)
  PROVE  Effect(w, i)
  <1> USE DEF Execute, PoolInstruction, LiquidityInstruction, OtherInstruction
  <1>1. /\ token \in [Users -> Nat] /\ cash \in Nat
        /\ stake \in [StakeAddrs -> StakeAccount]
    BY DEF Ready, IInv, TypeOK
  <1>2. CASE i.ix = "CreateAccount"
    <2>1. create_account(i.kind) /\ i.kind \in AccountKinds
      BY <1>2, Arguments
    <2>2. /\ UNCHANGED <<epoch, pool, list, stake, token, supply, burned, allowance>>
          /\ Rent[i.kind] <= cash /\ cash' = cash - Rent[i.kind]
      BY <2>1 DEF create_account
    <2>3. cash' \in Nat
      BY <1>1, <2>1, <2>2, TransactionAssumption
    <2>4. IInv'
      BY <1>1, <2>2, <2>3, OnlyTokens DEF Ready
    <2>5. HandEffect(i)
      BY <1>2, <2>2, HandsKept
    <2>6. QED BY <1>2, <2>2, <2>4, <2>5, QuietEffect
  <1>3. CASE i.ix = "Authorize"
    <2>1. UserAuthorizes(w, i.stake, DepositAuthority, i.kind) /\ UNCHANGED allowance
      BY <1>3 DEF authorize_stake
    <2>2. i.stake \in StakeAddrs /\ i.kind \in {"Staker", "Withdrawer"}
      BY <1>3, Arguments
    <2>3. IInv'
      BY <2>1, <2>2, UserStakeStep DEF Ready, Keys
    <2>4. /\ UNCHANGED <<epoch, pool, list, token, burned>>
          /\ \A a \in StakeAddrs \ {i.stake} : stake'[a] = stake[a]
      BY <1>1, <2>1 DEF UserAuthorizes
    <2>5. HandEffect(i)
      BY <1>3, <2>4 DEF HandEffect, NotHandedOver
    <2>6. QED BY <1>3, <2>1, <2>3, <2>4, <2>5, QuietEffect
  <1>4. CASE i.ix = "Approve"
    <2>1. /\ UNCHANGED <<epoch, pool, list, stake, token, supply, cash, burned>>
          /\ allowance' = [allowance EXCEPT ![w] = i.amount] /\ i.burn_from = w
      BY <1>4 DEF approve_token, vars
    <2>2. IInv'
      BY <1>1, <2>1, OnlyTokens DEF Ready
    <2>3. i.amount \in Nat
      BY <1>4, Arguments, U64MaxAssumption DEF U64
    <2>4. allowance' \in [Users -> Nat] /\ allowance'[w] = i.amount
      BY <2>1, <2>3 DEF Ready
    <2>5. \A u \in Users : token[u] <= token'[u]
      BY <1>1, <2>1
    <2>6. TokenEffect(w, i)
      BY <1>4, <2>1, <2>4, <2>5 DEF TokenEffect
    <2>7. HandEffect(i)
      BY <1>4, <2>1, HandsKept
    <2>8. OwnerGiven(pool')
      BY <2>1 DEF Ready
    <2>9. QED BY <1>4, <2>1, <2>2, <2>6, <2>7, <2>8 DEF Effect
  <1>5. QED BY <1>2, <1>3, <1>4

\* Every instruction has an effect of this form.
LEMMA ExecuteEffect ==
  ASSUME Ready, NEW w \in Users, NEW i \in InstructionData, Execute(w, i)
  PROVE  Effect(w, i)
  BY Kinds, InitializeEffect, CreateEffect, AddEffect, RemoveEffect,
     UpdateEffect, DepositEffect, WithdrawEffect, ManageEffect,
     LiquidityEffect, OtherEffect

-----------------------------------------------------------------------------
(***************************************************************************)
(* Rolling back.                                                           *)
(***************************************************************************)

\* Nothing but a new transaction changes what would be put back.
LEMMA BeforeKept ==
  ASSUME BeforeIInv, tx'.saved = tx.saved, epoch' = epoch, burned' = burned
  PROVE  BeforeIInv'
  BY DEF BeforeIInv

\* A new transaction saves the state it starts in.
LEMMA BeforeStarts ==
  ASSUME IInv, epoch' = epoch, burned' = burned,
         /\ tx'.saved.pool = pool /\ tx'.saved.list = list
         /\ tx'.saved.stake = stake /\ tx'.saved.token = token
         /\ tx'.saved.supply = supply /\ tx'.saved.cash \in Nat
  PROVE  BeforeIInv'
  BY DEF BeforeIInv, IInv, TypeOK, PoolTotalIsSupply,
         FreshPoolHasFreshRecords, OneRecordPerValidator

\* The state that is put back is one of the pool's.
LEMMA BeforeReturns ==
  ASSUME BeforeIInv, epoch' = epoch, burned' = burned,
         /\ pool' = tx.saved.pool /\ list' = tx.saved.list
         /\ stake' = tx.saved.stake /\ token' = tx.saved.token
         /\ supply' = tx.saved.supply /\ cash' = tx.saved.cash
  PROVE  IInv'
  BY DEF BeforeIInv, IInv, TypeOK, PoolTotalIsSupply,
         FreshPoolHasFreshRecords, OneRecordPerValidator

-----------------------------------------------------------------------------
(***************************************************************************)
(* One instruction of a running transaction.                               *)
(***************************************************************************)
\* An instruction that runs: it belongs to the command, and what is left has
\* the shape again.
Running ==
  /\ tx.cmd \in Commands /\ tx.cmd.owner \in Users
  /\ tx.left # <<>> /\ tx.left[1] \in InstructionData
  /\ Fits(tx.cmd, tx.left[1])
  /\ Effect(tx.cmd.owner, tx.left[1])
  /\ tx' \in Transaction
  /\ tx'.cmd = tx.cmd /\ tx'.seen = tx.seen /\ tx'.saved = tx.saved
  /\ tx'.left = Tail(tx.left)
  /\ Shape(tx.cmd, Tail(tx.left))
  /\ \A k \in 1 .. Len(Tail(tx.left)) : Tail(tx.left)[k].ix # "Approve"
  /\ Tail(tx.left) = <<>> => Completes(tx.cmd, tx.left[1])
  /\ tx.left[1].ix \notin Early => Tail(tx.left) = <<>>

\* Every instruction of a transaction has one of these effects.
LEMMA InstructionRuns ==
  ASSUME ClientInv, Instruction
  PROVE  Running /\ ~Idle /\ ~Idle'
  <1>1. /\ ~Idle /\ tx.left # <<>> /\ Execute(tx.cmd.owner, Head(tx.left))
        /\ tx' = [tx EXCEPT !.left = Tail(tx.left)]
    BY DEF Instruction
  <1>2. tx \in Transaction
    BY <1>1 DEF ClientInv, ClientTypeOK, Idle
  <1>3. Shape(tx.cmd, tx.left)
    BY <1>1 DEF ClientInv, RunningInv
  <1>4. tx.cmd \in Commands /\ tx.cmd.owner \in Users
    BY <1>2, CommandFacts DEF Transaction
  <1>5. /\ Head(tx.left) = tx.left[1] /\ tx.left[1] \in InstructionData
        /\ Fits(tx.cmd, tx.left[1])
        /\ Shape(tx.cmd, Tail(tx.left))
        /\ \A k \in 1 .. Len(Tail(tx.left)) : Tail(tx.left)[k].ix # "Approve"
        /\ Tail(tx.left) = <<>> => Completes(tx.cmd, tx.left[1])
        /\ tx.left[1].ix \notin Early => Tail(tx.left) = <<>>
    BY <1>1, <1>3, TailShape
  <1>6. Effect(tx.cmd.owner, tx.left[1])
    <2>1. Ready
      BY DEF ClientInv, ClientTypeOK, Ready
    <2>2. QED BY <1>1, <1>4, <1>5, <2>1, ExecuteEffect
  <1>7. Tail(tx.left) \in Seq(InstructionData)
    BY <1>5 DEF Shape
  <1>8. /\ tx' \in Transaction
        /\ tx'.cmd = tx.cmd /\ tx'.seen = tx.seen /\ tx'.saved = tx.saved
        /\ tx'.left = Tail(tx.left)
    BY <1>1, <1>2, <1>7 DEF Transaction
  <1>9. ~Idle'
    BY <1>8, ClientAssumption DEF Idle
  <1>10. QED BY <1>1, <1>4, <1>5, <1>6, <1>8, <1>9 DEF Running

\* Types, the pool's invariant, and what would be put back.
LEMMA InstructionTypes ==
  ASSUME ClientInv, Running, ~Idle, ~Idle', UNCHANGED clientVars
  PROVE  /\ ClientTypeOK' /\ IInv' /\ OwnerGiven(pool') /\ RunningInv'
  <1>1. IInv' /\ OwnerGiven(pool') /\ epoch' = epoch /\ burned' = burned
        /\ allowance' \in [Users -> Nat]
    BY DEF Running, Effect, TokenEffect
  <1>2. ClientTypeOK'
    BY <1>1 DEF ClientInv, ClientTypeOK, Running, clientVars, IInv
  <1>3. BeforeIInv'
    BY <1>1, BeforeKept DEF ClientInv, RunningInv, Running
  <1>4. RunningInv'
    BY <1>3 DEF ClientInv, RunningInv, Running, clientVars
  <1>5. QED BY <1>1, <1>2, <1>4

\* Commands that have not been sent do not depend on the chain.
LEMMA InstructionClients ==
  ASSUME ClientInv, UNCHANGED clientVars
  PROVE  ClientsInv'
  BY DEF ClientInv, ClientsInv, clientVars

\* What an instruction adds to what its transaction has spent.
LEMMA InstructionSpend ==
  ASSUME ClientInv, Running, ~Idle, ~Idle', UNCHANGED clientVars
  PROVE  SpendInv'
  <1> DEFINE w == tx.cmd.owner
             op == tx.cmd.op
             i == tx.left[1]
             spent == tx.saved.token[w] - token[w]
  <1>1. /\ tx'.cmd = tx.cmd /\ tx'.saved = tx.saved /\ tx'.left = Tail(tx.left)
        /\ w \in Users
    BY DEF Running
  <1>2. TokenEffect(w, i) /\ Fits(tx.cmd, i)
    BY DEF Running, Effect
  <1>3. /\ token \in [Users -> Nat] /\ token' \in [Users -> Nat]
        /\ tx.saved.token \in [Users -> Nat]
        /\ allowance \in [Users -> Nat] /\ allowance' \in [Users -> Nat]
    BY <1>2 DEF ClientInv, ClientTypeOK, IInv, TypeOK, Running, Effect, Idle,
                Transaction, SavedAccounts, TokenEffect
  <1> DEFINE Open == /\ \A k \in 1 .. Len(tx.left) : tx.left[k].ix # "Approve"
                     /\ tx.cmd.burn_from = w
                     /\ op = "withdraw" =>
                          tx.saved.token[w] - token[w] + allowance[w] = tx.cmd.amount
  <1>a. 1 \in 1 .. Len(tx.left)
    <2>1. tx.left \in Seq(InstructionData) /\ tx.left # <<>>
      BY DEF ClientInv, RunningInv, Shape, Running
    <2>2. QED BY <2>1, EmptySeq
  <1>b. /\ op \in Spending /\ i.ix = "Approve" => token = tx.saved.token
        /\ op \in Spending /\ i.ix # "Approve" => Open
    BY <1>a DEF ClientInv, SpendInv
  <1>c. i.ix \in {"RemoveValidatorStakeAccount", "Withdraw"} => i.burn_from = w
    BY <1>2, <1>b DEF Fits, Spending
  <1> HIDE DEF Open
  <1>4. ASSUME NEW u \in Users, u # w PROVE token'[u] >= tx.saved.token[u]
    <2>1. token[u] <= token'[u] /\ token[u] >= tx.saved.token[u]
      BY <1>2, <1>c, <1>4 DEF TokenEffect, ClientInv, SpendInv
    <2>2. QED BY <1>3, <2>1
  <1>5. ASSUME op \notin {"withdraw", "remove-validator-stake", "sell"}
        PROVE  token'[w] >= tx.saved.token[w]
    <2>1. i.ix \notin {"RemoveValidatorStakeAccount", "Withdraw", "SellstSOL"}
      BY <1>2, <1>5 DEF Fits
    <2>2. token[w] <= token'[w] /\ token[w] >= tx.saved.token[w]
      BY <1>1, <1>2, <1>5, <2>1 DEF TokenEffect, ClientInv, SpendInv
    <2>3. QED BY <1>1, <1>3, <2>2
  <1>6. ASSUME op = "sell"
        PROVE  IF tx'.left # <<>> THEN token'[w] = tx.saved.token[w]
               ELSE tx.saved.token[w] - token'[w] <= tx.cmd.amount
    <2>1. token[w] = tx.saved.token[w] /\ tx.cmd.amount \in Nat
      BY <1>6, CommandFacts, U64MaxAssumption
         DEF ClientInv, SpendInv, Running, U64
    <2>2. \/ i.ix = "CreateAccount"
          \/ i.ix = "SellstSOL" /\ i.amount = tx.cmd.amount
      BY <1>2, <1>6 DEF Fits, Spending
    <2>3. CASE i.ix = "CreateAccount"
      BY <1>1, <1>2, <1>3, <2>1, <2>3 DEF TokenEffect
    <2>4. CASE i.ix = "SellstSOL" /\ i.amount = tx.cmd.amount
      <3>1. tx'.left = <<>>
        BY <1>1, <2>4 DEF Running, Early
      <3>2. token'[w] = token[w] - tx.cmd.amount
        BY <1>2, <2>4 DEF TokenEffect
      <3>3. tx.saved.token[w] \in Nat /\ token'[w] \in Nat
        BY <1>1, <1>3
      <3>4. tx.saved.token[w] - token'[w] <= tx.cmd.amount
        BY <2>1, <3>2, <3>3
      <3>5. QED BY <3>1, <3>4
    <2>5. QED BY <2>2, <2>3, <2>4
  <1>7. ASSUME op \in Spending
        PROVE  /\ \A k \in 1 .. Len(tx'.left) : tx'.left[k].ix # "Approve"
               /\ tx.cmd.burn_from = w
               /\ op = "withdraw" =>
                    tx.saved.token[w] - token'[w] + allowance'[w] = tx.cmd.amount
    <2>1. /\ \A k \in 1 .. Len(tx'.left) : tx'.left[k].ix # "Approve"
          /\ i.burn_from = tx.cmd.burn_from
          /\ i.ix = "Approve" \/ i.ix = "Withdraw"
               \/ i.ix = "RemoveValidatorStakeAccount"
      BY <1>1, <1>2, <1>7 DEF Fits, Running, Spending
    <2>2. i.burn_from = w
      BY <1>2, <1>c, <2>1 DEF TokenEffect
    <2>3. ASSUME op = "withdraw"
          PROVE  tx.saved.token[w] - token'[w] + allowance'[w] = tx.cmd.amount
      <3>1. \/ i.ix = "Approve" /\ i.amount = tx.cmd.amount
            \/ i.ix = "Withdraw"
        BY <1>2, <2>3 DEF Fits
      <3>2. CASE i.ix = "Approve" /\ i.amount = tx.cmd.amount
        <4>1. token' = token /\ allowance'[w] = tx.cmd.amount
              /\ token = tx.saved.token
          BY <1>2, <1>7, <1>b, <3>2 DEF TokenEffect
        <4>2. tx.cmd.amount \in Nat
          BY <2>3, CommandFacts, U64MaxAssumption DEF Running, U64
        <4>3. QED BY <1>1, <1>3, <4>1, <4>2
      <3>3. CASE i.ix = "Withdraw"
        <4>1. tx.saved.token[w] - token[w] + allowance[w] = tx.cmd.amount
          BY <1>7, <1>b, <2>3, <3>3 DEF Open
        <4>2. token'[w] - allowance'[w] = token[w] - allowance[w]
          BY <1>2, <2>2, <3>3 DEF TokenEffect
        <4>3. /\ token[w] \in Nat /\ token'[w] \in Nat
              /\ tx.saved.token[w] \in Nat
              /\ allowance[w] \in Nat /\ allowance'[w] \in Nat
          BY <1>1, <1>3
        <4>4. QED BY <4>1, <4>2, <4>3
      <3>4. QED BY <3>1, <3>2, <3>3
    <2>4. QED BY <2>1, <2>2, <2>3
  <1>8. QED BY <1>1, <1>4, <1>5, <1>6, <1>7 DEF SpendInv

\* What an update within a transaction leaves behind.
LEMMA InstructionUpdate ==
  ASSUME ClientInv, Running, ~Idle, ~Idle', UNCHANGED clientVars
  PROVE  UpdateInv'
  <1>1. SUFFICES ASSUME Tail(tx.left) = <<>>,
                        tx.cmd.op \in {"update", "update-force"}
                 PROVE  UpToDate' /\ NothingToUpdate'
    BY DEF UpdateInv, Running
  <1>2. tx.left[1].ix = "UpdatePoolBalance"
    BY <1>1 DEF Running, Completes
  <1>3. QED BY <1>2 DEF Running, Effect

\* The account a command has handed over is taken by its last instruction.
LEMMA InstructionLimbo ==
  ASSUME ClientInv, Running, ~Idle, ~Idle', UNCHANGED clientVars
  PROVE  LimboInv'
  <1>1. SUFFICES ASSUME "HandOver" \notin menu.outside
                 PROVE  NotHandedOver(stake', InTransit')
                        /\ NotHandedOver(tx'.saved.stake, {})
    BY DEF LimboInv, clientVars
  <1>2. NotHandedOver(stake, InTransit) /\ NotHandedOver(tx.saved.stake, {})
    BY <1>1 DEF ClientInv, LimboInv
  <1> DEFINE c == tx.cmd
             i == tx.left[1]
             hands == c.op \in {"add-validator-stake", "deposit"}
  <1>3. /\ HandEffect(i) /\ Fits(c, i) /\ c \in Commands
        /\ tx'.cmd = c /\ tx'.saved = tx.saved /\ tx'.left = Tail(tx.left)
        /\ Tail(tx.left) = <<>> => Completes(c, i)
        /\ tx.left # <<>>
    BY DEF Running, Effect
  <1>4. CASE hands
    <2>1. InTransit = {c.stake} /\ c.stake \in StakeAddrs
      BY <1>3, <1>4, CommandFacts DEF InTransit
    <2>2. CASE Tail(tx.left) # <<>>
      <3>1. InTransit' = {c.stake}
        BY <1>3, <1>4, <2>2 DEF InTransit
      <3>2. i.ix = "Authorize" => i.stake = c.stake
        BY <1>3 DEF Fits
      <3>3. {c.stake} \in SUBSET StakeAddrs /\ NotHandedOver(stake, {c.stake})
        BY <1>2, <2>1
      <3>4. NotHandedOver(stake', {c.stake})
        BY <1>3, <3>2, <3>3 DEF HandEffect
      <3>5. QED BY <1>2, <1>3, <3>1, <3>4
    <2>3. CASE Tail(tx.left) = <<>>
      <3>1. InTransit' = {}
        BY <1>3, <2>3 DEF InTransit
      <3>2. i.ix \in {"AddValidatorStakeAccount", "Deposit"} /\ i.stake = c.stake
        BY <1>3, <1>4, <2>3 DEF Completes, Fits
      <3>3. {c.stake} \in SUBSET StakeAddrs /\ NotHandedOver(stake, {c.stake})
            /\ {c.stake} \ {c.stake} = {}
        BY <1>2, <2>1
      <3>4. NotHandedOver(stake', {c.stake} \ {i.stake})
        BY <1>3, <3>2, <3>3 DEF HandEffect
      <3>5. QED BY <1>2, <1>3, <3>1, <3>2, <3>3, <3>4
    <2>4. QED BY <2>2, <2>3
  <1>5. CASE ~hands
    <2>1. InTransit = {} /\ InTransit' = {}
      BY <1>3, <1>5 DEF InTransit
    <2>2. i.ix # "Authorize"
      BY <1>3, <1>5 DEF Fits
    <2>3. NotHandedOver(stake', {})
      BY <1>2, <1>3, <2>1, <2>2 DEF HandEffect
    <2>4. QED BY <1>2, <1>3, <2>1, <2>3
  <1>6. QED BY <1>4, <1>5

\* An instruction of a running transaction keeps the invariant.
LEMMA InstructionStep ==
  ASSUME ClientInv, Instruction, UNCHANGED clientVars
  PROVE  ClientInv'
  <1>1. Running /\ ~Idle /\ ~Idle'
    BY InstructionRuns
  <1>2. /\ ClientTypeOK' /\ IInv' /\ OwnerGiven(pool') /\ RunningInv'
    BY <1>1, InstructionTypes
  <1>3. ClientsInv' /\ SpendInv' /\ UpdateInv' /\ LimboInv'
    BY <1>1, InstructionClients, InstructionSpend, InstructionUpdate,
       InstructionLimbo
  <1>4. QED BY <1>2, <1>3 DEF ClientInv

-----------------------------------------------------------------------------
(***************************************************************************)
(* The other steps.                                                        *)
(***************************************************************************)

\* Without a transaction, the parts about one hold.
LEMMA IdleParts ==
  ASSUME Idle'
  PROVE  RunningInv' /\ SpendInv' /\ UpdateInv' /\ (InTransit = {})'
  BY DEF RunningInv, SpendInv, UpdateInv, InTransit

\* A step that does not touch the accounts of the pool.
LEMMA SamePool ==
  ASSUME IInv, UNCHANGED vars
  PROVE  IInv'
  BY OnlyTokens DEF IInv, TypeOK, vars

\* The end of a transaction keeps the invariant.
LEMMA CommitStep ==
  ASSUME ClientInv, Commit, UNCHANGED clientVars
  PROVE  ClientInv'
  <1>1. /\ ~Idle /\ tx.left = <<>> /\ tx' = NoTx /\ Idle'
        /\ UNCHANGED vars /\ UNCHANGED <<allowance, client, menu>>
        /\ UNCHANGED <<pool, stake>>
    BY DEF Commit, Idle, chainVars, vars, clientVars
  <1>2. IInv'
    BY <1>1, SamePool DEF ClientInv
  <1>3. ClientTypeOK'
    BY <1>1, <1>2 DEF ClientInv, ClientTypeOK, IInv
  <1>4. OwnerGiven(pool')
    BY <1>1 DEF ClientInv
  <1>5. ClientsInv'
    BY <1>1 DEF ClientInv, ClientsInv
  <1>6. LimboInv'
    <2>1. InTransit = {} /\ InTransit' = {}
      BY <1>1 DEF InTransit
    <2>2. QED BY <1>1, <2>1 DEF ClientInv, LimboInv, NotHandedOver
  <1>7. QED BY <1>1, <1>2, <1>3, <1>4, <1>5, <1>6, IdleParts DEF ClientInv

\* A transaction that is undone restores the state of its start.
LEMMA RollBackStep ==
  ASSUME ClientInv, RollBack, UNCHANGED clientVars
  PROVE  ClientInv'
  <1>1. /\ ~Idle /\ tx.left # <<>>
        /\ pool' = tx.saved.pool /\ list' = tx.saved.list
        /\ stake' = tx.saved.stake
        /\ token' = tx.saved.token /\ supply' = tx.saved.supply
        /\ cash' = tx.saved.cash /\ allowance' = tx.saved.allowance
        /\ tx' = NoTx
        /\ UNCHANGED <<epoch, burned, liqVars>>
    BY Zenon DEF RollBack
  <1>2. Idle' /\ epoch' = epoch /\ burned' = burned
        /\ UNCHANGED <<client, menu>>
    BY <1>1 DEF Idle, clientVars
  <1>3. IInv'
    BY <1>1, <1>2, BeforeReturns DEF ClientInv, RunningInv
  <1>4. ClientTypeOK'
    <2>1. allowance' \in [Users -> Nat]
      BY <1>1 DEF ClientInv, ClientTypeOK, Idle, Transaction, SavedAccounts
    <2>2. QED BY <1>1, <1>2, <1>3, <2>1 DEF ClientInv, ClientTypeOK, IInv
  <1>5. OwnerGiven(pool')
    BY <1>1 DEF ClientInv, RunningInv
  <1>6. ClientsInv'
    BY <1>1, <1>2 DEF ClientInv, ClientsInv
  <1>7. LimboInv'
    <2>1. InTransit' = {}
      BY <1>2 DEF InTransit
    <2>2. QED BY <1>1, <1>2, <2>1 DEF ClientInv, LimboInv
  <1>8. QED BY <1>2, <1>3, <1>4, <1>5, <1>6, <1>7, IdleParts DEF ClientInv

\* The three kinds of client states.
LEMMA ClientKinds ==
  ASSUME ClientTypeOK, NEW t \in Terminals
  PROVE  /\ client[t].step = "read" =>
              /\ client[t] # Free /\ client[t].cmd \in Commands
              /\ client[t].seen \in StakePoolAccount
         /\ client[t].step = "signed" =>
              /\ client[t] # Free /\ client[t].cmd \in Commands
              /\ client[t].seen \in StakePoolAccount \cup {NoKey}
              /\ client[t].instructions \in Seq(InstructionData)
         /\ client[t] # Free => client[t].step \in {"read", "signed"}
  <1>1. client[t] \in {Free}
          \cup [step : {"read"}, cmd : Commands, seen : StakePoolAccount]
          \cup [step : {"signed"}, cmd : Commands,
                seen : StakePoolAccount \cup {NoKey},
                instructions : Seq(InstructionData)]
    BY DEF ClientTypeOK
  <1>2. QED BY <1>1 DEF Free

\* A transaction starts: the state it saves is the one it starts in, and the
\* terminal is free again.
LEMMA SendStep ==
  ASSUME ClientInv, NEW t \in Terminals, Send(t)
  PROVE  ClientInv'
  <1> DEFINE me == client[t]
             saved == Accounts
  <1>1. /\ Idle /\ me.step = "signed" /\ TransactionFee <= cash
        /\ tx' = [cmd |-> me.cmd, seen |-> me.seen, left |-> me.instructions,
                  saved |-> saved]
        /\ cash' = cash - TransactionFee
        /\ UNCHANGED <<epoch, pool, list, stake, token, supply, burned, allowance>>
        /\ client' = [client EXCEPT ![t] = Free] /\ UNCHANGED menu
    BY DEF Send, BeginTransaction
  <1>2. /\ me # Free /\ me.cmd \in Commands
        /\ me.seen \in StakePoolAccount \cup {NoKey}
        /\ me.instructions \in Seq(InstructionData)
    BY <1>1, ClientKinds DEF ClientInv
  <1>3. /\ me.cmd.owner = WalletOf[t] /\ SignedShape(me.cmd, me.instructions)
    BY <1>1, <1>2 DEF ClientInv, ClientsInv
  <1>4. cash' \in Nat
    BY <1>1, TransactionAssumption DEF ClientInv, IInv, TypeOK
  <1>5. /\ saved.pool = pool /\ saved.list = list /\ saved.stake = stake
        /\ saved.token = token /\ saved.supply = supply
        /\ saved.cash = cash' /\ saved.allowance = allowance
        /\ saved \in SavedAccounts
    BY <1>1, <1>4
       DEF Accounts, SavedAccounts, ClientInv, ClientTypeOK, IInv, TypeOK
  <1> HIDE DEF me, saved
  <1>6. /\ tx' \in Transaction
        /\ tx'.cmd = me.cmd /\ tx'.seen = me.seen /\ tx'.saved = saved
        /\ tx'.left = me.instructions
    BY <1>1, <1>2, <1>5 DEF Transaction
  <1>7. ~Idle'
    BY <1>6, ClientAssumption DEF Idle
  <1>8. IInv'
    BY <1>1, <1>4, OnlyTokens DEF ClientInv, IInv, TypeOK
  <1>9. client \in [Terminals ->
          {Free} \cup [step : {"read"}, cmd : Commands, seen : StakePoolAccount]
          \cup [step : {"signed"}, cmd : Commands,
                seen : StakePoolAccount \cup {NoKey},
                instructions : Seq(InstructionData)]]
    BY DEF ClientInv, ClientTypeOK
  <1>10. ClientTypeOK'
    BY <1>1, <1>6, <1>8, <1>9 DEF ClientInv, ClientTypeOK, IInv
  <1>11. client'[t] = Free /\ \A u \in Terminals : u # t => client'[u] = client[u]
    BY <1>1, <1>9
  <1>12. RunningInv'
    <2>1. BeforeIInv'
      BY <1>1, <1>4, <1>5, <1>6, BeforeStarts DEF ClientInv
    <2>2. OwnerGiven(tx'.saved.pool)
      BY <1>5, <1>6 DEF ClientInv
    <2>3. QED BY <1>3, <1>6, <1>11, <2>1, <2>2 DEF RunningInv, SignedShape
  <1>13. ClientsInv'
    <2>1. ASSUME NEW u \in Terminals, client'[u] # Free
          PROVE  client'[u] = client[u] /\ client[u] # Free
      BY <1>11, <2>1
    <2>2. QED BY <1>1, <1>5, <1>6, <2>1 DEF ClientInv, ClientsInv
  <1>14. SpendInv'
    <2>1. \A u \in Users : token'[u] >= tx'.saved.token[u]
      BY <1>1, <1>5, <1>6 DEF ClientInv, IInv, TypeOK
    <2>2. /\ tx'.left # <<>> /\ token' = tx'.saved.token 
          /\ tx'.cmd.owner \in Users
          /\ tx'.cmd.op \in Spending => tx'.left[1].ix = "Approve"
      BY <1>1, <1>2, <1>3, <1>5, <1>6, CommandFacts DEF SignedShape
    <2>3. QED BY <2>1, <2>2 DEF SpendInv
  <1>15. UpdateInv'
    BY <1>1, <1>3, <1>5, <1>6 DEF UpdateInv, SignedShape
  <1>16. LimboInv'
    <2>1. InTransit = {}
      BY <1>1 DEF InTransit
    <2>2. QED BY <1>1, <1>5, <1>6, <2>1 DEF ClientInv, LimboInv, NotHandedOver
  <1>17. QED
    BY <1>1, <1>8, <1>10, <1>12, <1>13, <1>14, <1>15, <1>16 DEF ClientInv

-----------------------------------------------------------------------------
(***************************************************************************)
(* The steps of the clients, and those of others.                          *)
(***************************************************************************)
ClientStates ==
  {Free}
  \cup [step : {"read"}, cmd : Commands, seen : StakePoolAccount]
  \cup [step : {"signed"}, cmd : Commands,
        seen : StakePoolAccount \cup {NoKey},
        instructions : Seq(InstructionData)]

\* What ClientsInv asks of terminal t while no transaction runs.
InProgress(t, s) ==
  s # Free =>
    /\ s.cmd.owner = WalletOf[t]
    /\ s.step = "read" => s.seen.version = 1 /\ OwnerGiven(s.seen)
    /\ s.step = "signed" => SignedShape(s.cmd, s.instructions)

\* A step of the client itself leaves the pool alone.
LEMMA ClientMoves ==
  ASSUME ClientInv, Idle, NEW t \in Terminals, NEW new \in ClientStates,
         InProgress(t, new), client' = [client EXCEPT ![t] = new],
         UNCHANGED <<chainVars, tx, menu>>
  PROVE  ClientInv'
  <1>1. /\ Idle' /\ UNCHANGED vars /\ UNCHANGED <<allowance, menu, pool, stake, tx>>
    BY DEF Idle, chainVars, vars
  <1>2. IInv'
    BY <1>1, SamePool DEF ClientInv
  <1>3. client \in [Terminals -> ClientStates]
    BY DEF ClientInv, ClientTypeOK, ClientStates
  <1>4. /\ client' \in [Terminals -> ClientStates] /\ client'[t] = new
        /\ \A u \in Terminals : u # t => client'[u] = client[u]
    BY <1>3
  <1>5. ClientTypeOK'
    BY <1>1, <1>2, <1>4 DEF ClientInv, ClientTypeOK, ClientStates, IInv
  <1>6. OwnerGiven(pool')
    BY <1>1 DEF ClientInv
  <1>7. ClientsInv'
    <2>1. ASSUME NEW u \in Terminals, client'[u] # Free
          PROVE  /\ client'[u].cmd.owner = WalletOf[u]
                 /\ client'[u].step = "read" => client'[u].seen.version = 1
                                               /\ OwnerGiven(client'[u].seen)
                 /\ client'[u].step = "signed" =>
                      SignedShape(client'[u].cmd,
                                  client'[u].instructions)
      <3>1. CASE u = t
        BY <1>1, <1>4, <2>1, <3>1 DEF InProgress
      <3>2. CASE u # t
        BY <1>1, <1>4, <2>1, <3>2 DEF ClientInv, ClientsInv
      <3>3. QED BY <3>1, <3>2
    <2>2. QED BY <1>1, <2>1 DEF ClientsInv
  <1>8. LimboInv'
    <2>1. InTransit = {} /\ InTransit' = {}
      BY <1>1 DEF InTransit
    <2>2. QED BY <1>1, <2>1 DEF ClientInv, LimboInv, NotHandedOver
  <1>9. QED BY <1>1, <1>2, <1>5, <1>6, <1>7, <1>8, IdleParts DEF ClientInv

\* The command gives up, or its transaction is lost.
LEMMA StopStep ==
  ASSUME ClientInv, NEW t \in Terminals, Refuse(t) \/ Expire(t)
  PROVE  ClientInv'
  <1>1. /\ Idle /\ client' = [client EXCEPT ![t] = Free]
        /\ UNCHANGED <<chainVars, tx, menu>>
    BY DEF Refuse, Expire
  <1>2. Free \in ClientStates /\ InProgress(t, Free)
    BY DEF ClientStates, InProgress
  <1>3. QED BY <1>1, <1>2, ClientMoves

\* Reading the pool keeps the invariant.
LEMMA ReadPoolStep ==
  ASSUME ClientInv, NEW t \in Terminals, NEW c \in menu.commands,
         ReadPool(t, c)
  PROVE  ClientInv'
  <1> DEFINE new == [step |-> "read", cmd |-> c, seen |-> pool]
  <1>1. c \in Commands
    BY ClientAssumption DEF ClientInv, ClientTypeOK
  <1>2. /\ Idle /\ pool.version = 1 /\ WalletOf[t] = c.owner
        /\ client' = [client EXCEPT ![t] = new]
        /\ UNCHANGED <<chainVars, tx, menu>>
    BY DEF ReadPool, IsInitialized, ClientInv, IInv, TypeOK, StakePoolAccount
  <1>3. /\ new \in ClientStates /\ new.cmd = c /\ new.seen = pool
        /\ new.step = "read"
    BY <1>1 DEF ClientStates, ClientInv, IInv, TypeOK
  <1> HIDE DEF new
  <1>4. InProgress(t, new)
    BY <1>2, <1>3 DEF InProgress, ClientInv
  <1>5. QED BY <1>2, <1>3, <1>4, ClientMoves

\* Signing a transaction keeps the invariant.
LEMMA SignStep ==
  ASSUME ClientInv, NEW t \in Terminals, Sign(t)
  PROVE  ClientInv'
  <1> DEFINE c == client[t].cmd
             seen == client[t].seen
  <1>1. /\ Idle /\ client[t].step = "read" /\ UNCHANGED <<chainVars, tx, menu>>
        /\ client \in [Terminals -> ClientStates]
    BY DEF Sign, ClientInv, ClientTypeOK, ClientStates
  <1>2. PICK q \in Subcommand(c, seen) :
          client' = [client EXCEPT ![t] = Signed(@.cmd, @.seen, q)]
    BY DEF Sign
  <1> DEFINE new == Signed(c, seen, q)
  <1>3. client' = [client EXCEPT ![t] = new]
    BY <1>1, <1>2
  <1>4. /\ client[t] # Free /\ c \in Commands /\ seen \in StakePoolAccount
    BY <1>1, ClientKinds DEF ClientInv
  <1>5. /\ c.owner = WalletOf[t] /\ seen.version = 1 /\ OwnerGiven(seen)
    BY <1>1, <1>4 DEF ClientInv, ClientsInv
  <1>6. SignedShape(c, q)
    <2>1. IInv
      BY DEF ClientInv
    <2> HIDE DEF c, seen
    <2>2. QED BY <1>2, <1>4, <1>5, <2>1, SubcommandShape
  <1> HIDE DEF c, seen
  <1>7. /\ new \in ClientStates /\ new.cmd = c /\ new.seen = seen
        /\ new.step = "signed" /\ new.instructions = q
    BY <1>4, <1>6 DEF ClientStates, Signed, SignedShape, Shape
  <1> HIDE DEF new
  <1>8. InProgress(t, new)
    BY <1>5, <1>6, <1>7 DEF InProgress
  <1>9. QED BY <1>1, <1>3, <1>7, <1>8, ClientMoves

\* Commands that read and sign in one step keep the invariant.
LEMMA ReadAndSignStep ==
  ASSUME ClientInv, NEW t \in Terminals, NEW c \in menu.commands,
         ReadAndSign(t, c)
  PROVE  ClientInv'
  <1>1. c \in Commands
    BY ClientAssumption DEF ClientInv, ClientTypeOK
  <1>2. /\ Idle /\ ~UsesPool(c) /\ WalletOf[t] = c.owner
        /\ UNCHANGED <<chainVars, tx, menu>>
    BY DEF ReadAndSign
  <1>3. PICK q \in Subcommand(c, pool) :
          client' = [client EXCEPT ![t] = Signed(c, NoKey, q)]
    BY DEF ReadAndSign
  <1> DEFINE new == Signed(c, NoKey, q)
  <1>4. SignedShape(c, q)
    BY <1>1, <1>2, <1>3, SubcommandShape DEF ClientInv
  <1>5. /\ new \in ClientStates /\ new.cmd = c /\ new.seen = NoKey
        /\ new.step = "signed" /\ new.instructions = q
    BY <1>1, <1>4 DEF ClientStates, Signed, SignedShape, Shape
  <1>6. client' = [client EXCEPT ![t] = new]
    BY <1>3
  <1> HIDE DEF new
  <1>7. InProgress(t, new)
    BY <1>2, <1>4, <1>5 DEF InProgress
  <1>8. QED BY <1>2, <1>5, <1>6, <1>7, ClientMoves

\* While no transaction runs, steps of others leave the pool account as it
\* is, and hand over nothing that the menu does not hand over.
LEMMA OthersStep ==
  ASSUME ClientInv, Idle, IInv', pool' = pool,
         UNCHANGED <<allowance, tx, clientVars>>,
         "HandOver" \notin menu.outside =>
           \A a \in StakeAddrs : /\ stake'[a].staker = stake[a].staker
                                 /\ stake'[a].withdrawer = stake[a].withdrawer
  PROVE  ClientInv'
  <1>1. Idle' /\ UNCHANGED <<client, menu>>
    BY DEF Idle, clientVars
  <1>2. ClientTypeOK'
    BY <1>1 DEF ClientInv, ClientTypeOK, IInv
  <1>3. ClientsInv' /\ OwnerGiven(pool')
    BY <1>1 DEF ClientInv, ClientsInv
  <1>4. LimboInv'
    <2>1. InTransit = {} /\ InTransit' = {}
      BY <1>1 DEF InTransit
    <2>2. ASSUME "HandOver" \notin menu.outside
          PROVE  NotHandedOver(stake', {})
      BY <2>1, <2>2 DEF ClientInv, LimboInv, NotHandedOver
    <2>3. QED BY <1>1, <2>1, <2>2 DEF LimboInv
  <1>5. QED BY <1>1, <1>2, <1>3, <1>4, IdleParts DEF ClientInv

\* What happens outside of the clients keeps the invariant.
LEMMA OutsideStep ==
  ASSUME ClientInv, Outside
  PROVE  ClientInv'
  <1>1. Idle /\ UNCHANGED <<allowance, tx, clientVars>> /\ IInv
        /\ stake \in [StakeAddrs -> StakeAccount]
    BY DEF Outside, ClientInv, IInv, TypeOK
  <1>2. ASSUME NEW paid \in {{}, {a \in StakeAddrs : stake[a].state = "Stake"}},
               NextEpoch(paid)
        PROVE  ClientInv'
    <2>1. IInv'
      BY <1>1, <1>2, NextEpochStep
    <2>2. pool' = pool
          /\ stake' = [x \in StakeAddrs |->
                         IF x \in paid
                         THEN [stake[x] EXCEPT !.lamports = @ + Reward]
                         ELSE stake[x]]
      BY <1>2 DEF NextEpoch
    <2>3. ASSUME NEW a \in StakeAddrs
          PROVE  /\ stake'[a].staker = stake[a].staker
                 /\ stake'[a].withdrawer = stake[a].withdrawer
      <3>1. stake[a] \in StakeAccount
        BY <1>1
      <3>2. QED BY <2>2, <3>1 DEF StakeAccount
    <2>4. QED BY <1>1, <2>1, <2>2, <2>3, OthersStep
  <1>3. ASSUME NEW u \in Users, NEW v \in Validators,
               UserDelegates(u, StakeAddress(v), v)
        PROVE  ClientInv'
    <2>1. StakeAddress(v) \in StakeAddrs
      BY AddressFacts
    <2>2. IInv'
      BY <1>1, <1>3, <2>1, UserStakeStep
    <2> DEFINE x == StakeAddress(v)
    <2>3. pool' = pool /\ x \in StakeAddrs
          /\ stake' = [stake EXCEPT ![x].state = "Stake", ![x].voter = v]
      BY <1>3, <2>1 DEF UserDelegates
    <2> HIDE DEF x
    <2>4. ASSUME NEW a \in StakeAddrs
          PROVE  /\ stake'[a].staker = stake[a].staker
                 /\ stake'[a].withdrawer = stake[a].withdrawer
      <3>1. stake[a] \in StakeAccount
        BY <1>1
      <3>2. QED BY <1>1, <2>3, <3>1 DEF StakeAccount
    <2>5. QED BY <1>1, <2>2, <2>3, <2>4, OthersStep
  <1>4. ASSUME NEW u \in Users, NEW a \in UserStakes,
               NEW kind \in {"Staker", "Withdrawer"},
               "HandOver" \in menu.outside, 
               UserAuthorizes(u, a, DepositAuthority, kind)
        PROVE  ClientInv'
    <2>1. a \in StakeAddrs
      BY AddressFacts
    <2>2. IInv'
      BY <1>1, <1>4, <2>1, UserStakeStep DEF Keys
    <2>3. pool' = pool
      BY <1>4 DEF UserAuthorizes
    <2>4. QED BY <1>1, <1>4, <2>2, <2>3, OthersStep
  <1>5. ASSUME NEW v \in Validators, process_update_list_balance({v})
        PROVE  ClientInv'
    <2>1. {v} \in UpdateArguments
      BY DEF UpdateArguments
    <2>2. IInv'
      BY <1>1, <1>5, <2>1, UpdateListStep
    <2>3. pool' = pool /\ stake' = stake
      BY <1>5 DEF process_update_list_balance
    <2>4. QED BY <1>1, <2>2, <2>3, OthersStep
  <1>6. QED BY <1>2, <1>3, <1>4, <1>5 DEF Outside

\* Nothing happens.
LEMMA StutterStep ==
  ASSUME ClientInv, UNCHANGED allVars
  PROVE  ClientInv'
  <1>1. /\ UNCHANGED vars /\ UNCHANGED <<allowance, tx, client, menu>>
        /\ UNCHANGED <<epoch, pool, list, stake, token, burned>>
    BY DEF allVars, chainVars, vars, clientVars
  <1>2. IInv'
    BY <1>1, SamePool DEF ClientInv
  <1>3. Idle' <=> Idle
    BY <1>1 DEF Idle
  <1>4. ClientTypeOK'
    BY <1>1, <1>2 DEF ClientInv, ClientTypeOK, IInv
  <1>5. ClientsInv' /\ OwnerGiven(pool')
    BY <1>1, <1>3 DEF ClientInv, ClientsInv
  <1>6. RunningInv'
    <2>1. BeforeIInv => BeforeIInv'
      BY <1>1, BeforeKept
    <2>2. QED BY <1>1, <1>3, <2>1 DEF ClientInv, RunningInv
  <1>7. SpendInv'
    BY <1>1, <1>3 DEF ClientInv, SpendInv
  <1>8. UpdateInv'
    BY <1>1, <1>3 DEF ClientInv, UpdateInv, UpToDate, NothingToUpdate
  <1>9. LimboInv'
    <2>1. InTransit' = InTransit
      BY <1>1, <1>3 DEF InTransit
    <2>2. QED BY <1>1, <1>3, <2>1 DEF ClientInv, LimboInv, NotHandedOver
  <1>10. QED BY <1>2, <1>4, <1>5, <1>6, <1>7, <1>8, <1>9 DEF ClientInv

-----------------------------------------------------------------------------
(***************************************************************************)
(* The theorems.                                                           *)
(***************************************************************************)

\* Either the pool does not exist yet, or its validator accounts have been
\* added one to one.
LEMMA StartIInv ==
  ASSUME menu \in Menus, Start
  PROVE  IInv /\ OwnerGiven(pool) /\ NotHandedOver(stake, {})
  <1>1. /\ epoch = 0 /\ burned = 0 /\ cash \in Nat /\ epoch \in 0 .. MaxEpoch
        /\ supply = pool.pool_total /\ menu.running \in BOOLEAN
    BY ClientAssumption, PoolAssumption DEF Start
  <1>2. \A x \in U64 : Add64(x, 0) = x
    BY U64MaxAssumption DEF Add64, U64
  <1>3. ASSUME NEW a \in UserStakes
        PROVE  /\ StartUserStake[a] \in StakeAccount
               /\ StartUserStake[a].staker # DepositAuthority
               /\ StartUserStake[a].withdrawer # DepositAuthority
    BY ClientAssumption, KeyAssumption DEF Keys
  <1>4. CASE ~menu.running
    <2>1. /\ pool = [version |-> 0, owner |-> NoKey, owner_fee_account |-> NoKey,
                     stake_total |-> 0, pool_total |-> 0, last_update_epoch |-> 0,
                     fee |-> [numerator |-> 0, denominator |-> 0]]
          /\ list = {} /\ token = [u \in Users |-> 0]
          /\ stake = [a \in StakeAddrs |-> IF a \in UserStakes
                                           THEN StartUserStake[a] ELSE NoAccount]
      BY <1>4 DEF Start
    <2>2. /\ pool \in StakePoolAccount /\ pool.version = 0 /\ pool.pool_total = 0
          /\ pool.last_update_epoch = 0 /\ 0 \in U64
      BY <2>1, U64MaxAssumption DEF StakePoolAccount, U64
    <2>3. ASSUME NEW a \in StakeAddrs
          PROVE  /\ stake[a] \in StakeAccount
                 /\ stake[a].staker # DepositAuthority
                 /\ stake[a].withdrawer # DepositAuthority
      <3>1. CASE a \in UserStakes
        BY <1>3, <2>1, <3>1
      <3>2. CASE a \notin UserStakes
        <4>1. stake[a] = NoAccount
          BY <2>1, <3>2
        <4>2. /\ NoAccount.staker = NoKey /\ NoAccount.withdrawer = NoKey
              /\ NoKey # DepositAuthority
          BY KeyAssumption DEF NoAccount, Keys
        <4>3. QED BY <4>1, <4>2, NoAccountFacts
      <3>3. QED BY <3>1, <3>2
    <2>4. stake \in [StakeAddrs -> StakeAccount] /\ token \in [Users -> Nat]
      BY <2>1, <2>3
    <2>5. TypeOK
      BY <1>1, <2>1, <2>2, <2>4 DEF TypeOK
    <2>6. IInv
      BY <1>1, <1>2, <2>1, <2>2, <2>3, <2>5
         DEF IInv, PoolTotalIsSupply, FreshPoolHasFreshRecords,
             OneRecordPerValidator
    <2>7. QED BY <2>2, <2>3, <2>6 DEF OwnerGiven, NotHandedOver
  <1>5. CASE menu.running
    <2> DEFINE n == SumFunction(StartStake)
               Account(v) == [state |-> "Stake", lamports |-> StartStake[v],
                              staker |-> WithdrawAuthority,
                              withdrawer |-> WithdrawAuthority, voter |-> v]
               Record(v) == [validator_account |-> v, balance |-> StartStake[v],
                             last_update_epoch |-> 0]
    <2>1. PICK fee \in Fees :
            pool = [version |-> 1, owner |-> Owner, owner_fee_account |-> Owner,
                    stake_total |-> n, pool_total |-> n,
                    last_update_epoch |-> 0, fee |-> fee]
      BY <1>5 DEF Start
    <2>2. /\ list = {Record(v) : v \in Validators}
          /\ token = StartTokens
          /\ stake = [a \in StakeAddrs |-> IF a \in UserStakes
                                           THEN StartUserStake[a]
                                           ELSE Account(a[1])]
      BY <1>5 DEF Start
    <2>3. /\ n \in U64 /\ Owner \in Users /\ StartTokens \in [Users -> Nat]
          /\ StartStake \in [Validators -> U64]
      BY ClientAssumption
    <2> HIDE DEF n
    <2>4. /\ pool \in StakePoolAccount /\ pool.version = 1 /\ pool.pool_total \in U64
          /\ pool.last_update_epoch = 0 /\ OwnerGiven(pool)
      BY <2>1, <2>3, PoolAssumption DEF StakePoolAccount, OwnerGiven
    <2>5. ASSUME NEW v \in Validators
          PROVE  /\ Account(v) \in StakeAccount
                 /\ Account(v).staker = WithdrawAuthority
                 /\ Account(v).withdrawer = WithdrawAuthority
                 /\ Record(v) \in ValidatorStakeInfo
                 /\ Record(v).validator_account = v
                 /\ Record(v).last_update_epoch = 0
      BY <2>3 DEF StakeAccount, ValidatorStakeInfo, Keys
    <2> HIDE DEF Account, Record
    <2>6. ASSUME NEW a \in StakeAddrs
          PROVE  /\ stake[a] \in StakeAccount
                 /\ stake[a].staker # DepositAuthority
                 /\ stake[a].withdrawer # DepositAuthority
      <3>1. CASE a \in UserStakes
        BY <1>3, <2>2, <3>1
      <3>2. CASE a \notin UserStakes
        <4>1. PICK v \in Validators : a = StakeAddress(v)
          BY <3>2 DEF StakeAddrs, PoolStakes
        <4>2. a[1] = v
          BY <4>1 DEF StakeAddress
        <4>3. stake[a] = Account(v)
          BY <2>2, <3>2, <4>2
        <4>4. QED BY <2>5, <4>1, <4>3, KeyAssumption
      <3>3. QED BY <3>1, <3>2
    <2>7. stake \in [StakeAddrs -> StakeAccount] /\ token \in [Users -> Nat]
      BY <2>2, <2>3, <2>6
    <2>8. /\ list \in SUBSET ValidatorStakeInfo /\ OneRecordPerValidator
          /\ \A r \in list : r.last_update_epoch = 0
      BY <2>2, <2>5 DEF OneRecordPerValidator
    <2>9. TypeOK
      BY <1>1, <2>4, <2>7, <2>8 DEF TypeOK
    <2>10. IInv
      BY <1>1, <1>2, <2>4, <2>6, <2>8, <2>9
         DEF IInv, PoolTotalIsSupply, FreshPoolHasFreshRecords
    <2>11. QED BY <2>4, <2>6, <2>10 DEF NotHandedOver
  <1>6. QED BY <1>1, <1>4, <1>5

\* The invariant holds before the first command.
LEMMA InitClientInv == ClientInit => ClientInv
  <1> SUFFICES ASSUME ClientInit PROVE ClientInv
    OBVIOUS
  <1>1. /\ menu \in Menus /\ client = [t \in Terminals |-> Free] /\ Start
        /\ allowance = [u \in Users |-> 0] /\ tx = NoTx
    BY DEF ClientInit
  <1>2. IInv /\ OwnerGiven(pool) /\ NotHandedOver(stake, {})
    BY <1>1, StartIInv
  <1>3. ClientTypeOK
    BY <1>1, <1>2 DEF ClientTypeOK, IInv
  <1>4. Idle
    BY <1>1 DEF Idle
  <1>5. ClientsInv
    BY <1>1 DEF ClientsInv
  <1>6. RunningInv /\ SpendInv /\ UpdateInv
    BY <1>4 DEF RunningInv, SpendInv, UpdateInv
  <1>7. LimboInv
    BY <1>2, <1>4 DEF LimboInv, NotHandedOver, InTransit
  <1>8. QED BY <1>2, <1>3, <1>5, <1>6, <1>7 DEF ClientInv

\* Every step keeps the invariant.
LEMMA NextClientInv == ClientInv /\ [ClientNext]_allVars => ClientInv'
  <1> SUFFICES ASSUME ClientInv, [ClientNext]_allVars PROVE ClientInv'
    OBVIOUS
  <1>1. ASSUME NEW t \in Terminals, NEW c \in menu.commands, ReadPool(t, c)
        PROVE  ClientInv'
    BY <1>1, ReadPoolStep
  <1>2. ASSUME NEW t \in Terminals, NEW c \in menu.commands, ReadAndSign(t, c)
        PROVE  ClientInv'
    BY <1>2, ReadAndSignStep
  <1>3. ASSUME NEW t \in Terminals, Sign(t) PROVE ClientInv'
    BY <1>3, SignStep
  <1>4. ASSUME NEW t \in Terminals, Refuse(t) \/ Expire(t) PROVE ClientInv'
    BY <1>4, StopStep
  <1>5. ASSUME NEW t \in Terminals, Send(t) PROVE ClientInv'
    BY <1>5, SendStep
  <1>6. CASE RunTransaction
    <2>1. ASSUME Instruction, UNCHANGED clientVars PROVE ClientInv'
      BY <2>1, InstructionStep
    <2>2. ASSUME Commit, UNCHANGED clientVars PROVE ClientInv'
      BY <2>2, CommitStep
    <2>3. ASSUME RollBack, UNCHANGED clientVars PROVE ClientInv'
      BY <2>3, RollBackStep
    <2>4. QED BY <1>6, <2>1, <2>2, <2>3 DEF RunTransaction
  <1>7. CASE Outside
    BY <1>7, OutsideStep
  <1>8. CASE UNCHANGED allVars
    BY <1>8, StutterStep
  <1>9. QED
    BY <1>1, <1>2, <1>3, <1>4, <1>5, <1>6, <1>7, <1>8 DEF ClientNext

\* The inductive invariant of wallets, tools and chain together.
THEOREM ClientInvariance == ClientSpec => []ClientInv
  <1>1. ClientInit => ClientInv
    BY InitClientInv
  <1>2. ClientInv /\ [ClientNext]_allVars => ClientInv'
    BY NextClientInv
  <1>3. QED BY <1>1, <1>2, PTL DEF ClientSpec

\* Between any two instructions of any two wallets' transactions, and after
\* every rollback, accounts and allowances keep their types.
THEOREM ClientTypeCorrect == ClientSpec => []ClientTypeOK
  <1>1. ClientInv => ClientTypeOK
    BY DEF ClientInv
  <1>2. QED BY <1>1, ClientInvariance, PTL

\* The four invariants of the pool program also hold in the middle of a
\* transaction and after a rollback, whatever the tools send.
THEOREM PoolInvariantsUnderClients == ClientSpec => []IInv
  <1>1. ClientInv => IInv
    BY DEF ClientInv
  <1>2. QED BY <1>1, ClientInvariance, PTL

\* No transaction takes tokens of a wallet that did not sign it, also when
\* the command names a token account of another wallet to burn from; withdraw
\* and sell never take more than the amount on the command line, however the
\* price moved after it was read.
THEOREM SpendsCapped == ClientSpec => []SpendsAreCapped
  <1>1. ClientInv => SpendsAreCapped
    <2> SUFFICES ASSUME ClientInv, ~Idle, NEW u \in Users,
                        tx.saved.token[u] - token[u] > 0
                 PROVE  /\ u = tx.cmd.owner
                        /\ tx.cmd.op \in {"withdraw", "remove-validator-stake", "sell"}
                        /\ tx.cmd.op # "remove-validator-stake" =>
                             tx.saved.token[u] - token[u] <= tx.cmd.amount
      BY DEF SpendsAreCapped
    <2>1. /\ tx \in Transaction /\ token \in [Users -> Nat]
          /\ allowance \in [Users -> Nat]
      BY DEF ClientInv, ClientTypeOK, TypeOK, Idle
    <2>2. /\ tx.cmd \in Commands /\ tx.saved.token \in [Users -> Nat]
      BY <2>1 DEF Transaction, SavedAccounts
    <2>3. /\ tx.cmd.owner \in Users
          /\ tx.cmd.op \in {"withdraw", "sell"} => tx.cmd.amount \in Nat
      BY <2>2, CommandFacts, U64MaxAssumption DEF U64
    <2>4. /\ token[u] \in Nat /\ tx.saved.token[u] \in Nat
          /\ ~(token[u] >= tx.saved.token[u]) /\ allowance[u] \in Nat
      BY <2>1, <2>2
    <2>5. SpendInv
      BY DEF ClientInv
    <2>6. u = tx.cmd.owner
      BY <2>4, <2>5 DEF SpendInv
    <2>7. tx.cmd.op \in {"withdraw", "remove-validator-stake", "sell"}
      BY <2>4, <2>5, <2>6 DEF SpendInv
    <2>8. CASE tx.cmd.op = "sell"
      BY <2>3, <2>4, <2>5, <2>6, <2>8 DEF SpendInv
    <2>9. CASE tx.cmd.op = "withdraw"
      BY <2>3, <2>4, <2>5, <2>6, <2>9 DEF SpendInv, Spending
    <2>10. QED BY <2>6, <2>7, <2>8, <2>9
  <1>2. QED BY <1>1, ClientInvariance, PTL

\* Unless a user hands an account to the deposit authority by hand, none is
\* left with it between transactions, also when Deposit or
\* AddValidatorStakeAccount fails after the authorities were set.
THEOREM LimboFree == ClientSpec => []NothingInLimbo
  <1>1. ClientInv => NothingInLimbo
    <2> SUFFICES ASSUME ClientInv, Idle, "HandOver" \notin menu.outside
                 PROVE  \A a \in StakeAddrs :
                          DepositAuthority \notin {stake[a].staker,
                                                   stake[a].withdrawer}
      BY DEF NothingInLimbo
    <2>1. InTransit = {}
      BY DEF InTransit
    <2>2. NotHandedOver(stake, {})
      BY <2>1 DEF ClientInv, LimboInv
    <2>3. QED BY <2>2 DEF NotHandedOver
  <1>2. QED BY <1>1, ClientInvariance, PTL

\* After the last instruction of update or update-force no record and no pool
\* account is out of date, although both were read before.
THEOREM UpdateFresh == ClientSpec => []CommittedUpdateIsFresh
  <1>1. ClientInv => CommittedUpdateIsFresh
    BY DEF ClientInv, UpdateInv, CommittedUpdateIsFresh, Finished
  <1>2. QED BY <1>1, ClientInvariance, PTL

=============================================================================
