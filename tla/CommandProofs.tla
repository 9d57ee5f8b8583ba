---------------------------- MODULE CommandProofs ----------------------------
(***************************************************************************)
(* The transactions that the commands of cli and metacli build: whatever   *)
(* state of the chain a command sees, and however the node orders the      *)
(* accounts it lists, its transaction has a fixed shape.                   *)
(***************************************************************************)
EXTENDS Clients, StakePoolProofs, SequenceTheorems

(***************************************************************************)
(* The shape of a transaction: what every command may still have to run.   *)
(* It holds of the instructions that a command signs, and of every tail of *)
(* them.                                                                   *)
(***************************************************************************)

\* Commands that burn pool tokens through an allowance.
Spending == {"withdraw", "remove-validator-stake"}

\* Instruction i belongs to command c, with the arguments of c.
Fits(c, i) ==
  \/ /\ i.ix = "CreateAccount"
     /\ c.op \in {"create-pool", "add-validator-stake", "deposit",
                  "create-liq-pool", "add-liquidity", "sell"}
  \/ i.ix = "Initialize" /\ c.op = "create-pool"
  \/ i.ix = "CreateValidatorStakeAccount" /\ c.op = "create-validator-stake"
  \/ /\ i.ix = "Authorize" /\ c.op \in {"add-validator-stake", "deposit"}
     /\ i.stake = c.stake
  \/ /\ i.ix = "AddValidatorStakeAccount" /\ c.op = "add-validator-stake"
     /\ i.stake = c.stake
  \/ i.ix = "Deposit" /\ c.op = "deposit" /\ i.stake = c.stake
  \/ /\ i.ix = "Approve" /\ c.op \in Spending
     /\ i.burn_from = c.burn_from
     /\ c.op = "withdraw" => i.amount = c.amount
  \/ /\ i.ix = "RemoveValidatorStakeAccount"
     /\ c.op = "remove-validator-stake" /\ i.burn_from = c.burn_from
  \/ i.ix = "Withdraw" /\ c.op = "withdraw" /\ i.burn_from = c.burn_from
  \/ /\ i.ix \in {"UpdateListBalance", "UpdatePoolBalance"}
     /\ c.op \in {"update", "update-force"}
  \/ i.ix = "AddLiquidity" /\ c.op = "add-liquidity"
  \/ i.ix = "SellstSOL" /\ c.op = "sell" /\ i.amount = c.amount
  \/ i.ix = "SetStakingAuthority" /\ c.op = "set-staking-auth"
  \/ i.ix = "SetOwner" /\ c.op = "set-owner"

\* Instructions that only prepare, or that come several times; all others
\* come last.
Early == {"CreateAccount", "Authorize", "Approve", "Withdraw",
          "UpdateListBalance"}

\* The last instruction of the commands that must not stop before it.
Completes(c, i) ==
  /\ c.op \in {"update", "update-force"} => i.ix = "UpdatePoolBalance"
  /\ c.op = "add-validator-stake" => i.ix = "AddValidatorStakeAccount"
  /\ c.op = "deposit" => i.ix = "Deposit"

InOrder(c, left) ==
  /\ left # <<>> => Completes(c, left[Len(left)])
  /\ \A k \in 1 .. Len(left) : left[k].ix = "Approve" => k = 1
  /\ \A k \in 1 .. Len(left) : left[k].ix \notin Early => k = Len(left)

Shape(c, left) ==
  /\ left \in Seq(InstructionData)
  /\ \A k \in 1 .. Len(left) : Fits(c, left[k])
  /\ InOrder(c, left)

\* What is signed: also not empty, and what burns starts by approving.
SignedShape(c, instructions) ==
  /\ Shape(c, instructions)
  /\ instructions # <<>>
  /\ c.op \in Spending => instructions[1].ix = "Approve"

\* An initialized pool has an owner, so set-owner has keys to fill in.
OwnerGiven(p) ==
  p.version = 1 => p.owner \in Users /\ p.owner_fee_account \in Users

\* The arguments of a command, by its operation.
LEMMA CommandFacts ==
  ASSUME NEW c \in Commands
  PROVE  /\ c.owner \in Users
         /\ c.op \in {"withdraw", "sell", "add-liquidity"} => c.amount \in U64
         /\ c.op \in {"add-validator-stake", "deposit"} => c.stake \in StakeAddrs
  BY DEF Commands

-----------------------------------------------------------------------------
(***************************************************************************)
(* The transactions the commands build have the shape.                     *)
(***************************************************************************)

\* Preparing instructions followed by a completing one.
LEMMA Concluded ==
  ASSUME NEW c, NEW pre \in Seq(InstructionData),
         NEW last \in InstructionData,
         c.op \in Spending => 1 \in 1 .. Len(pre) /\ pre[1].ix = "Approve",
         \A k \in 1 .. Len(pre) : /\ Fits(c, pre[k])
                                  /\ pre[k].ix \in Early
                                  /\ pre[k].ix = "Approve" => k = 1,
         Fits(c, last), Completes(c, last), last.ix # "Approve"
  PROVE  SignedShape(c, pre \o <<last>>)
  <1> DEFINE t == pre \o <<last>>
  <1>1. <<last>> \in Seq(InstructionData) /\ Len(<<last>>) = 1 /\ <<last>>[1] = last
    OBVIOUS
  <1>2. /\ t \in Seq(InstructionData) /\ Len(t) = Len(pre) + 1
        /\ Len(pre) \in Nat
        /\ \A k \in 1 .. Len(pre) : t[k] = pre[k]
        /\ t[Len(pre) + 1] = last
    BY <1>1, ConcatProperties
  <1> HIDE DEF t
  <1>3. \A k \in 1 .. Len(t) : k \in 1 .. Len(pre) \/ k = Len(t)
    BY <1>2
  <1>4. t # <<>>
    BY <1>2, EmptySeq
  <1>5. InOrder(c, t)
    BY <1>2, <1>3 DEF InOrder
  <1>6. \A k \in 1 .. Len(t) : Fits(c, t[k])
    BY <1>2, <1>3
  <1>7. QED BY <1>2, <1>4, <1>5, <1>6 DEF SignedShape, Shape, t

\* A transaction of one instruction.
LEMMA Single ==
  ASSUME NEW c, NEW i \in InstructionData, c.op \notin Spending,
         Fits(c, i), Completes(c, i)
  PROVE  SignedShape(c, <<i>>)
  <1>1. /\ <<i>> \in Seq(InstructionData) /\ Len(<<i>>) = 1 /\ <<i>>[1] = i
        /\ <<i>> # <<>>
    OBVIOUS
  <1>2. QED BY <1>1 DEF SignedShape, Shape, InOrder

\* The wallet is charged, or nothing is sent.
LEMMA FeeChecked ==
  ASSUME NEW n, NEW T, NEW t \in cli!check_fee_payer_balance(n, T)
  PROVE  t \in T
  BY DEF cli!check_fee_payer_balance

\* create-pool.
LEMMA CreatePoolShape ==
  ASSUME NEW c \in Commands, c.op = "create-pool", NEW seen,
         NEW t \in cli!command_create_pool(c, seen)
  PROVE  SignedShape(c, t)
  <1> DEFINE i == [ix |-> "Initialize", fee |-> c.fee]
             pre == <<cli!CreateAccount("Mint"), cli!CreateAccount("Account"),
                      cli!CreateAccount("StakePool"),
                      cli!CreateAccount("ValidatorStakeList")>>
             all == <<cli!CreateAccount("Mint"), cli!CreateAccount("Account"),
                      cli!CreateAccount("StakePool"),
                      cli!CreateAccount("ValidatorStakeList"), i>>
  <1>1. t \in {all}
    BY FeeChecked DEF cli!command_create_pool
  <1>2. all = pre \o <<i>>
    OBVIOUS
  <1>3. i \in InstructionData /\ i.ix = "Initialize"
    BY DEF Commands, InstructionData
  <1>4. ASSUME NEW k \in AccountKinds
        PROVE  /\ cli!CreateAccount(k) \in InstructionData
               /\ cli!CreateAccount(k).ix = "CreateAccount"
    BY DEF cli!CreateAccount, InstructionData
  <1>5. /\ pre \in Seq(InstructionData) /\ Len(pre) = 4
        /\ \A k \in 1 .. Len(pre) : pre[k].ix = "CreateAccount"
    BY <1>4 DEF AccountKinds
  <1> HIDE DEF pre, i
  <1>6. SignedShape(c, pre \o <<i>>)
    <2>1. Fits(c, i) /\ Completes(c, i)
      BY <1>3 DEF Fits, Completes
    <2>2. \A k \in 1 .. Len(pre) : Fits(c, pre[k]) /\ pre[k].ix \in Early
      BY <1>5 DEF Fits, Early
    <2>3. QED BY <1>3, <1>5, <2>1, <2>2, Concluded DEF Spending
  <1>7. QED BY <1>1, <1>2, <1>6 DEF pre, i

\* create-validator-stake, set-staking-auth and set-owner: one instruction.
LEMMA CreateStakeShape ==
  ASSUME NEW c \in Commands, c.op = "create-validator-stake", NEW seen,
         NEW t \in cli!command_vsa_create(c, seen)
  PROVE  SignedShape(c, t)
  <1> DEFINE i == [ix |-> "CreateValidatorStakeAccount", validator |-> c.validator]
  <1>1. t \in {<<i>>}
    BY FeeChecked DEF cli!command_vsa_create
  <1>2. i \in InstructionData /\ i.ix = "CreateValidatorStakeAccount"
    BY DEF Commands, InstructionData
  <1> HIDE DEF i
  <1>3. Fits(c, i) /\ Completes(c, i)
    BY <1>2 DEF Fits, Completes
  <1>4. QED BY <1>1, <1>2, <1>3, Single DEF Spending

\* The transaction of command_set_staking_auth.
LEMMA SetStakingAuthShape ==
  ASSUME NEW c \in Commands, c.op = "set-staking-auth", NEW seen,
         NEW t \in cli!command_set_staking_auth(c, seen)
  PROVE  SignedShape(c, t)
  <1> DEFINE i == [ix |-> "SetStakingAuthority", stake |-> c.stake,
                   staker |-> c.new_staker]
  <1>1. t \in {<<i>>}
    BY FeeChecked DEF cli!command_set_staking_auth
  <1>2. i \in InstructionData /\ i.ix = "SetStakingAuthority"
    BY DEF Commands, InstructionData
  <1> HIDE DEF i
  <1>3. Fits(c, i) /\ Completes(c, i)
    BY <1>2 DEF Fits, Completes
  <1>4. QED BY <1>1, <1>2, <1>3, Single DEF Spending

\* The keys of set-owner are given, or those of the pool that was read.
LEMMA SetOwnerShape ==
  ASSUME NEW c \in Commands, c.op = "set-owner", NEW seen,
         seen.version = 1, OwnerGiven(seen),
         NEW t \in cli!command_set_owner(c, seen)
  PROVE  SignedShape(c, t)
  <1> DEFINE o == IF c.new_owner = NoKey THEN seen.owner ELSE c.new_owner
             f == IF c.new_fee_receiver = NoKey THEN seen.owner_fee_account
                                                ELSE c.new_fee_receiver
             i == [ix |-> "SetOwner", new_owner |-> o, new_fee_receiver |-> f]
  <1>1. t \in {<<i>>}
    BY FeeChecked DEF cli!command_set_owner
  <1>2. o \in Users /\ f \in Users
    BY DEF Commands, OwnerGiven
  <1> HIDE DEF o, f
  <1>4. i \in InstructionData /\ i.ix = "SetOwner"
    BY <1>2 DEF InstructionData
  <1> HIDE DEF i
  <1>5. Fits(c, i) /\ Completes(c, i)
    BY <1>4 DEF Fits, Completes
  <1>6. QED BY <1>1, <1>4, <1>5, Single DEF Spending

\* Two instructions, put together.
LEMMA Pair ==
  ASSUME NEW a, NEW b
  PROVE  <<a, b>> = <<a>> \o <<b>>
  <1> DEFINE s == <<a>>
             r == <<b>>
             p == <<a, b>>
  <1>1. /\ s \in Seq({a, b}) /\ Len(s) = 1 /\ s[1] = a
        /\ r \in Seq({a, b}) /\ Len(r) = 1 /\ r[1] = b
        /\ p \in Seq({a, b}) /\ Len(p) = 2 /\ p[1] = a /\ p[2] = b
    OBVIOUS
  <1> HIDE DEF s, r, p
  <1>2. /\ s \o r \in Seq({a, b}) /\ Len(s \o r) = Len(s) + Len(r)
        /\ \A k \in 1 .. Len(s) + Len(r) :
             (s \o r)[k] = IF k <= Len(s) THEN s[k] ELSE r[k - Len(s)]
    BY <1>1, ConcatProperties
  <1>3. Len(s \o r) = 2 /\ (s \o r)[1] = a /\ (s \o r)[2] = b
    BY <1>1, <1>2
  <1>4. \A k \in 1 .. Len(p) : p[k] = (s \o r)[k]
    BY <1>1, <1>3
  <1>5. p = s \o r
    BY <1>1, <1>2, <1>3, <1>4, SeqEqual
  <1>6. QED BY <1>5 DEF s, r, p

\* remove-validator-stake.
LEMMA RemoveShape ==
  ASSUME IInv, NEW c \in Commands, c.op = "remove-validator-stake",
         NEW seen \in StakePoolAccount, NEW t \in cli!command_vsa_remove(c, seen)
  PROVE  SignedShape(c, t)
  <1> DEFINE n == cli!stake_amount_to_pool_tokens(seen, stake[c.stake].lamports)
             k == IF c.new_authority = NoKey THEN c.owner ELSE c.new_authority
             a == cli!Approve(c.burn_from, n)
             i == [ix |-> "RemoveValidatorStakeAccount", stake |-> c.stake,
                   burn_from |-> c.burn_from, new_authority |-> k]
  <1>1. seen.stake_total # 0 /\ t \in {<<a, i>>}
    BY FeeChecked DEF cli!command_vsa_remove
  <1>2. /\ c.stake \in StakeAddrs /\ c.burn_from \in Users /\ k \in Users
    BY DEF Commands
  <1>3. /\ stake[c.stake].lamports \in Nat /\ seen.pool_total \in Nat
        /\ seen.stake_total \in Nat
    BY <1>2, U64MaxAssumption DEF IInv, TypeOK, StakeAccount, StakePoolAccount, U64
  <1>4. n \in U64
    <2> DEFINE x == stake[c.stake].lamports * seen.pool_total
               q == x \div seen.stake_total
    <2>1. x \in Int
      BY <1>3
    <2> HIDE DEF x
    <2>2. q \in Int
      BY <1>1, <1>3, <2>1
    <2> HIDE DEF q
    <2>3. n = q % (U64Max + 1)
      BY DEF cli!stake_amount_to_pool_tokens, q, x
    <2>4. QED BY <2>2, <2>3, U64MaxAssumption DEF U64
  <1> HIDE DEF n, k
  <1>5. /\ a \in InstructionData /\ a.ix = "Approve" /\ a.burn_from = c.burn_from
        /\ i \in InstructionData /\ i.ix = "RemoveValidatorStakeAccount"
        /\ i.burn_from = c.burn_from
    BY <1>2, <1>4 DEF cli!Approve, InstructionData
  <1> HIDE DEF a, i
  <1>6. /\ Fits(c, a) /\ Fits(c, i) /\ Completes(c, i)
    BY <1>5 DEF Fits, Completes, Spending
  <1>7. /\ <<a>> \in Seq(InstructionData) /\ Len(<<a>>) = 1 /\ <<a>>[1] = a
        /\ <<a, i>> = <<a>> \o <<i>>
    <2>1. <<a, i>> = <<a>> \o <<i>>
      BY Pair
    <2>2. QED BY <1>5, <2>1
  <1>8. SignedShape(c, <<a>> \o <<i>>)
    BY <1>5, <1>6, <1>7, Concluded DEF Early, Spending
  <1>9. QED BY <1>1, <1>7, <1>8

\* What comes before a deposit: perhaps a token account, and with cli the
\* hand-over of the stake account.
LEMMA PreparationFacts ==
  ASSUME NEW c \in Commands, c.op \in {"add-validator-stake", "deposit"}
  PROVE  LET new == cli!unwrap_create_token_account(c)
             both == new \o cli!HandOver(c.stake)
         IN  /\ new \in Seq(InstructionData) /\ both \in Seq(InstructionData)
             /\ \A k \in 1 .. Len(new) :
                  Fits(c, new[k]) /\ new[k].ix \in Early \ {"Approve"}
             /\ \A k \in 1 .. Len(both) :
                  Fits(c, both[k]) /\ both[k].ix \in Early \ {"Approve"}
  <1> DEFINE new == cli!unwrap_create_token_account(c)
             hand == cli!HandOver(c.stake)
             both == new \o hand
             a == cli!CreateAccount("Account")
             x == cli!Authorize(c.stake, "Withdrawer")
             y == cli!Authorize(c.stake, "Staker")
  <1>1. c.stake \in StakeAddrs
    BY CommandFacts
  <1>2. a \in InstructionData /\ a.ix = "CreateAccount"
    BY DEF cli!CreateAccount, InstructionData, AccountKinds
  <1>3. /\ x \in InstructionData /\ x.ix = "Authorize" /\ x.stake = c.stake
        /\ y \in InstructionData /\ y.ix = "Authorize" /\ y.stake = c.stake
    BY <1>1 DEF cli!Authorize, InstructionData
  <1>4. hand = <<x, y>> /\ new \in {<<a>>, <<>>}
    BY DEF cli!HandOver, cli!unwrap_create_token_account
  <1> HIDE DEF a, x, y, new, hand
  <1>5. /\ Fits(c, a) /\ Fits(c, x) /\ Fits(c, y)
                  /\ {a.ix, x.ix, y.ix} \subseteq Early \ {"Approve"}
    BY <1>2, <1>3 DEF Fits, Early
  <1>6. /\ new \in Seq(InstructionData)
        /\ \A k \in 1 .. Len(new) : new[k] = a
    <2>1. CASE new = <<a>>
      BY <1>2, <2>1
    <2>2. CASE new = <<>>
      BY <2>2
    <2>3. QED BY <1>4, <2>1, <2>2
  <1>7. /\ hand \in Seq(InstructionData)
        /\ \A k \in 1 .. Len(hand) : hand[k] \in {x, y}
    BY <1>3, <1>4
  <1>8. /\ both \in Seq(InstructionData)
        /\ \A k \in 1 .. Len(both) : both[k] \in {a, x, y}
    <2>1. /\ both \in Seq(InstructionData) /\ Len(both) = Len(new) + Len(hand)
          /\ \A k \in 1 .. Len(new) + Len(hand) :
               both[k] = IF k <= Len(new) THEN new[k] ELSE hand[k - Len(new)]
      BY <1>6, <1>7, ConcatProperties
    <2>2. Len(new) \in Nat /\ Len(hand) \in Nat
      BY <1>6, <1>7
    <2> HIDE DEF both
    <2>3. ASSUME NEW k \in 1 .. Len(both) PROVE both[k] \in {a, x, y}
      BY <1>6, <1>7, <2>1, <2>2
    <2>4. QED BY <2>1, <2>3
  <1> HIDE DEF both
  <1>9. \A k \in 1 .. Len(new) :
          Fits(c, new[k]) /\ new[k].ix \in Early \ {"Approve"}
    BY <1>5, <1>6
  <1>10. \A k \in 1 .. Len(both) :
           Fits(c, both[k]) /\ both[k].ix \in Early \ {"Approve"}
    BY <1>5, <1>8
  <1>11. QED BY <1>6, <1>8, <1>9, <1>10 DEF new, both, hand

\* The pool tokens go to a user.
LEMMA ReceiverFacts ==
  ASSUME NEW c \in Commands, c.op \in {"add-validator-stake", "deposit"}
  PROVE  cli!TokenReceiver(c) \in Users
  BY DEF Commands, cli!TokenReceiver

\* add-validator-stake.
LEMMA AddShape ==
  ASSUME NEW c \in Commands, c.op = "add-validator-stake", NEW seen,
         NEW t \in cli!command_vsa_add(c, seen)
  PROVE  SignedShape(c, t)
  <1> DEFINE pre == cli!unwrap_create_token_account(c) \o cli!HandOver(c.stake)
             i == [ix |-> "AddValidatorStakeAccount", stake |-> c.stake,
                   receiver |-> cli!TokenReceiver(c)]
  <1>1. t \in {pre \o <<i>>}
    BY FeeChecked DEF cli!command_vsa_add
  <1>2. i \in InstructionData /\ i.ix = "AddValidatorStakeAccount"
        /\ i.stake = c.stake
    BY CommandFacts, ReceiverFacts DEF InstructionData
  <1>3. /\ pre \in Seq(InstructionData)
        /\ \A k \in 1 .. Len(pre) :
             Fits(c, pre[k]) /\ pre[k].ix \in Early \ {"Approve"}
    BY PreparationFacts
  <1> HIDE DEF pre, i
  <1>4. Fits(c, i) /\ Completes(c, i)
    BY <1>2 DEF Fits, Completes
  <1>5. SignedShape(c, pre \o <<i>>)
    BY <1>2, <1>3, <1>4, Concluded DEF Spending
  <1>6. QED BY <1>1, <1>5

\* deposit, of cli and of metacli.
LEMMA DepositShape ==
  ASSUME IInv, NEW c \in Commands, c.op = "deposit", NEW seen,
         NEW t \in cli!command_deposit(c, seen) \cup metacli!command_deposit(c, seen)
  PROVE  SignedShape(c, t)
  <1> DEFINE new == cli!unwrap_create_token_account(c)
             both == new \o cli!HandOver(c.stake)
             v == stake[c.stake].voter
             i == [ix |-> "Deposit", stake |-> c.stake, validator |-> v,
                   receiver |-> cli!TokenReceiver(c)]
  <1>1. Contains(list, v) /\ t \in {both \o <<i>>, new \o <<i>>}
    BY FeeChecked
       DEF cli!command_deposit, metacli!command_deposit, cli!Contains,
           metacli!Contains, Contains, metacli!check_fee_payer_balance,
           metacli!cli!check_fee_payer_balance, cli!check_fee_payer_balance,
           metacli!unwrap_create_token_account,
           metacli!cli!unwrap_create_token_account,
           cli!unwrap_create_token_account, metacli!cli!TokenReceiver,
           cli!TokenReceiver, metacli!cli!CreateAccount, cli!CreateAccount
  <1>2. v \in Validators
    BY <1>1 DEF Contains, IInv, TypeOK, ValidatorStakeInfo
  <1>3. i \in InstructionData /\ i.ix = "Deposit" /\ i.stake = c.stake
    BY <1>2, CommandFacts, ReceiverFacts DEF InstructionData
  <1>4. /\ new \in Seq(InstructionData) /\ both \in Seq(InstructionData)
        /\ \A k \in 1 .. Len(new) :
             Fits(c, new[k]) /\ new[k].ix \in Early \ {"Approve"}
        /\ \A k \in 1 .. Len(both) :
             Fits(c, both[k]) /\ both[k].ix \in Early \ {"Approve"}
    BY PreparationFacts
  <1> HIDE DEF new, both, i
  <1>5. Fits(c, i) /\ Completes(c, i)
    BY <1>3 DEF Fits, Completes
  <1>6. SignedShape(c, new \o <<i>>) /\ SignedShape(c, both \o <<i>>)
    BY <1>3, <1>4, <1>5, Concluded DEF Spending
  <1>7. QED BY <1>1, <1>6

\* A finite set can be enumerated.
LEMMA Enumerated ==
  ASSUME NEW V, IsFiniteSet(V)
  PROVE  cli!Seqs!SetToSeq(V) \in Seq(V)
  <1> DEFINE n == Cardinality(V)
             s == cli!Seqs!SetToSeq(V)
  <1>1. n \in Nat /\ ExistsBijection(1 .. n, V)
    BY FS_CardinalityType
  <1>2. PICK f \in [1 .. n -> V] : \A a, b \in 1 .. n : f[a] = f[b] => a = b
    BY <1>1 DEF ExistsBijection, Bijection, Injection, IsInjective
  <1>3. cli!Seqs!Cardinality(V) = n
    BY DEF cli!Seqs!Cardinality, Cardinality
  <1>4. cli!Seqs!IsInjective(f)
    BY <1>2 DEF cli!Seqs!IsInjective
  <1> HIDE DEF n
  <1>5. s \in [1 .. n -> V]
    BY <1>2, <1>3, <1>4 DEF cli!Seqs!SetToSeq
  <1>6. QED BY <1>1, <1>5

\* The chunks of an update command.
LEMMA ChunkFacts ==
  ASSUME NEW V \in SUBSET Validators
  PROVE  /\ cli!UpdateChunks(V) \in Seq(InstructionData)
         /\ \A k \in 1 .. Len(cli!UpdateChunks(V)) :
              cli!UpdateChunks(V)[k].ix = "UpdateListBalance"
  <1> DEFINE s == cli!Seqs!SetToSeq(V)
             size == MAX_ACCOUNTS_TO_UPDATE
             n == (Len(s) + size - 1) \div size
             F(i) == [ix |-> "UpdateListBalance",
                      accounts |-> {s[k] : k \in {j \in DOMAIN s :
                                                  (j - 1) \div size = i - 1}}]
  <1>1. s \in Seq(V)
    BY Enumerated, FS_Subset, ClientAssumption
  <1>2. cli!UpdateChunks(V) = [i \in 1 .. n |-> F(i)]
    BY DEF cli!UpdateChunks
  <1> HIDE DEF s
  <1>3. Len(s) \in Nat /\ \A k \in DOMAIN s : s[k] \in Validators
    BY <1>1
  <1>4. size \in Nat \ {0}
    BY ClientAssumption
  <1>5. n \in Nat
    <2> HIDE DEF size
    <2>1. Len(s) + size - 1 \in Nat
      BY <1>3, <1>4
    <2>2. QED BY <1>4, <2>1, DivFacts
  <1>6. \A i \in 1 .. n : F(i) \in InstructionData /\ F(i).ix = "UpdateListBalance"
    BY <1>3 DEF InstructionData
  <1> HIDE DEF n, F
  <1>7. QED BY <1>2, <1>5, <1>6

\* update of cli, update and update-force of metacli.
LEMMA UpdateShape ==
  ASSUME NEW c \in Commands, c.op \in {"update", "update-force"},
         NEW V \in SUBSET Validators
  PROVE  SignedShape(c, cli!UpdateChunks(V) \o cli!UpdatePoolBalance)
  <1> DEFINE pre == cli!UpdateChunks(V)
             i == [ix |-> "UpdatePoolBalance"]
  <1>1. cli!UpdatePoolBalance = <<i>> /\ i \in InstructionData
        /\ i.ix = "UpdatePoolBalance"
    BY DEF cli!UpdatePoolBalance, InstructionData
  <1>2. /\ pre \in Seq(InstructionData)
        /\ \A k \in 1 .. Len(pre) : pre[k].ix = "UpdateListBalance"
    BY ChunkFacts
  <1> HIDE DEF pre, i
  <1>3. Fits(c, i) /\ Completes(c, i)
    BY <1>1 DEF Fits, Completes
  <1>4. \A k \in 1 .. Len(pre) :
          Fits(c, pre[k]) /\ pre[k].ix \in Early \ {"Approve"}
    BY <1>2 DEF Fits, Early
  <1>5. SignedShape(c, pre \o <<i>>)
    BY <1>1, <1>2, <1>3, <1>4, Concluded DEF Spending
  <1>6. QED BY <1>1, <1>5 DEF pre

\* The transactions of the command update, of cli.
LEMMA CliUpdateShape ==
  ASSUME IInv, NEW c \in Commands, c.op = "update", NEW seen,
         NEW t \in cli!command_update(c, seen)
  PROVE  SignedShape(c, t)
  <1>1. cli!OutOfDate \in SUBSET Validators
    BY DEF cli!OutOfDate, IInv, TypeOK, ValidatorStakeInfo
  <1>2. t \in {cli!UpdateChunks(cli!OutOfDate) \o cli!UpdatePoolBalance}
    BY FeeChecked DEF cli!command_update
  <1>3. QED BY <1>1, <1>2, UpdateShape

\* metacli's copy of the chunks is cli's.
LEMMA SameChunks ==
  ASSUME NEW V
  PROVE  metacli!cli!UpdateChunks(V) = cli!UpdateChunks(V)
  BY DEF metacli!cli!UpdateChunks, cli!UpdateChunks, metacli!cli!Seqs!SetToSeq,
         cli!Seqs!SetToSeq, metacli!cli!Seqs!IsInjective, cli!Seqs!IsInjective,
         metacli!cli!Seqs!Cardinality, cli!Seqs!Cardinality

\* The same for metacli.
LEMMA MetacliUpdateShape ==
  ASSUME IInv, NEW c \in Commands, c.op \in {"update", "update-force"}, NEW seen,
         NEW force, NEW t \in metacli!command_update(c, seen, force)
  PROVE  SignedShape(c, t)
  <1> DEFINE V == IF force THEN {r.validator_account : r \in list}
                           ELSE metacli!cli!OutOfDate
  <1>1. V \in SUBSET Validators
    BY DEF metacli!cli!OutOfDate, IInv, TypeOK, ValidatorStakeInfo
  <1>2. metacli!cli!UpdatePoolBalance = cli!UpdatePoolBalance
    BY DEF metacli!cli!UpdatePoolBalance, cli!UpdatePoolBalance
  <1>3. t \in {metacli!cli!UpdateChunks(V) \o metacli!cli!UpdatePoolBalance}
    BY DEF metacli!command_update, metacli!check_fee_payer_balance,
           metacli!cli!check_fee_payer_balance
  <1> HIDE DEF V
  <1>4. QED BY <1>1, <1>2, <1>3, SameChunks, UpdateShape

\* The fold takes the last place of what is left: it exists.
LEMMA LastPlace ==
  ASSUME NEW n \in Nat, NEW d \in SUBSET (1 .. n), d # {}
  PROVE  cli!Seqs!Max(d) \in d
  <1>1. \E x \in d : \A y \in d : x >= y
    BY LargestPlace
  <1>2. QED BY <1>1 DEF cli!Seqs!Max

\* A plan in the making.
Plan == [from : Seq([stake : StakeAddrs, amount : U64]),
         remaining : U64, done : BOOLEAN]

\* One pass of the loop of pick_withdraw_accounts takes no more than is still
\* wanted.
LEMMA PassFacts ==
  ASSUME IInv, NEW p \in Plan, NEW a \in StakeAddrs, NEW min_balance
  PROVE  cli!WithdrawFrom(p, a, min_balance) \in Plan
  <1> DEFINE n == cli!Min({cli!Available(a), p.remaining})
  <1>1. cli!Available(a) \in U64
    <2>1. stake[a].lamports \in Int /\ OneSol \in Int
      BY PoolAssumption, U64MaxAssumption DEF IInv, TypeOK, StakeAccount, U64
    <2>2. Sub64(stake[a].lamports, OneSol) \in U64
      BY <2>1, WrapType
    <2>3. cli!Available(a) = Sub64(stake[a].lamports, OneSol)
      BY DEF cli!Available, cli!Sub64, Sub64
    <2>4. QED BY <2>2, <2>3
  <1>2. n \in U64 /\ n <= p.remaining
    <2> DEFINE x == cli!Available(a)
               y == p.remaining
    <2>1. x \in Int /\ y \in Int /\ x \in U64 /\ y \in U64
      BY <1>1, U64MaxAssumption DEF Plan, U64
    <2> HIDE DEF x, y
    <2>2. \E k \in {x, y} : \A j \in {x, y} : k <= j
      BY <2>1
    <2>3. cli!Min({x, y}) \in {x, y} /\ \A j \in {x, y} : cli!Min({x, y}) <= j
      BY <2>2 DEF cli!Min
    <2>4. QED BY <2>1, <2>3 DEF x, y
  <1> HIDE DEF n
  <1> DEFINE more == [from |-> Append(p.from, [stake |-> a, amount |-> n]),
                      remaining |-> p.remaining - n,
                      done |-> n = p.remaining]
  <1>3. cli!WithdrawFrom(p, a, min_balance) \in {p, more}
    BY DEF cli!WithdrawFrom, n
  <1>4. p.remaining - n \in U64
    BY <1>2, U64MaxAssumption DEF Plan, U64
  <1>5. Append(p.from, [stake |-> a, amount |-> n])
          \in Seq([stake : StakeAddrs, amount : U64])
    BY <1>2, AppendProperties DEF Plan
  <1>6. more \in Plan
    BY <1>4, <1>5 DEF Plan
  <1>7. QED BY <1>3, <1>6

\* The recursion of FoldLeft, for the loop over the accounts s.
PlanRule(s, amount, min_balance, h) ==
  h = [d \in SUBSET (DOMAIN s) |->
         IF d = {} THEN [from |-> <<>>, remaining |-> amount, done |-> FALSE]
         ELSE LET x == cli!Seqs!Max(d)
              IN cli!WithdrawFrom(h[d \ {x}], s[x], min_balance)]

PlanTable(s, amount, min_balance) ==
  CHOOSE h : PlanRule(s, amount, min_balance, h)

\* A plan is the last value of the recursion of its fold.
LEMMA PlanUnfold ==
  ASSUME NEW accounts, NEW amount, NEW min_balance,
         NEW from \in cli!pick_withdraw_accounts(accounts, amount, min_balance)
  PROVE  \E s \in cli!Seqs!SetToSeqs(accounts) :
           from = PlanTable(s, amount, min_balance)[DOMAIN s].from
  BY DEF cli!pick_withdraw_accounts, cli!LargestFirst, cli!Seqs!FoldLeft,
         cli!Seqs!MapThenFoldSet, PlanTable, PlanRule

\* Every plan lists stake accounts with amounts.
LEMMA PlanFacts ==
  ASSUME IInv, NEW n \in Nat, NEW s \in [1 .. n -> StakeAddrs],
         NEW amount \in U64, NEW min_balance
  PROVE  PlanTable(s, amount, min_balance)[DOMAIN s] \in Plan
  <1> DEFINE D == 1 .. n
             base == [from |-> <<>>, remaining |-> amount, done |-> FALSE]
             ch == [d \in SUBSET D |-> cli!Seqs!Max(d)]
             g == [p \in D \X Plan |-> cli!WithdrawFrom(p[2], s[p[1]], min_balance)]
             H == PlanTable(s, amount, min_balance)
  <1>1. IsFiniteSet(D) /\ DOMAIN s = D
    BY FS_Interval
  <1>2. base \in Plan
    BY DEF Plan
  <1>3. \A d \in SUBSET D : d # {} => ch[d] \in d /\ ch[d] = cli!Seqs!Max(d)
    BY LastPlace
  <1>4. \A x \in D, p \in Plan :
          /\ g[<<x, p>>] = cli!WithdrawFrom(p, s[x], min_balance)
          /\ g[<<x, p>>] \in Plan
    BY PassFacts
  <1>5. PICK h \in [SUBSET D -> Plan] : FoldRule(D, base, ch, g, h)
    <2> HIDE DEF ch, g, base, D
    <2>1. QED BY <1>1, <1>2, <1>3, <1>4, FoldExists
  <1>6. PlanRule(s, amount, min_balance, h)
    <2>1. ASSUME NEW d \in SUBSET D, d # {}
          PROVE  h[d] = cli!WithdrawFrom(h[d \ {cli!Seqs!Max(d)}],
                                         s[cli!Seqs!Max(d)], min_balance)
      <3>1. ch[d] \in D /\ ch[d] = cli!Seqs!Max(d)
        BY <1>3, <2>1
      <3> HIDE DEF ch, g, D
      <3>2. d \ {ch[d]} \in SUBSET D /\ h[d \ {ch[d]}] \in Plan
        BY <1>5
      <3>3. h[d] = cli!WithdrawFrom(h[d \ {ch[d]}], s[ch[d]], min_balance)
        BY <1>4, <1>5, <2>1, <3>1, <3>2 DEF FoldRule
      <3>4. QED BY <3>1, <3>3
    <2>2. h[{}] = base /\ DOMAIN h = SUBSET D
      BY <1>5 DEF FoldRule
    <2> HIDE DEF D
    <2>3. QED BY <1>1, <1>5, <2>1, <2>2 DEF PlanRule
  <1>7. PlanRule(s, amount, min_balance, H)
    BY <1>6 DEF PlanTable
  <1> HIDE DEF H
  <1>8. H[{}] = base
    BY <1>7 DEF PlanRule
  <1>9. ASSUME NEW d \in SUBSET D, d # {}
        PROVE  \E x \in d : H[d] = cli!WithdrawFrom(H[d \ {x}], s[x], min_balance)
    <2>1. cli!Seqs!Max(d) \in d
      BY <1>9, LastPlace
    <2>2. H[d] = cli!WithdrawFrom(H[d \ {cli!Seqs!Max(d)}], s[cli!Seqs!Max(d)],
                                  min_balance)
      BY <1>1, <1>7, <1>9 DEF PlanRule
    <2>3. QED BY <2>1, <2>2
  <1> DEFINE G == {d \in SUBSET D : H[d] \in Plan}
  <1>10. ASSUME NEW d \in SUBSET D, d # {}, \A x \in d : d \ {x} \in G
         PROVE  d \in G
    <2>1. PICK x \in d : H[d] = cli!WithdrawFrom(H[d \ {x}], s[x], min_balance)
      BY <1>9, <1>10
    <2>2. H[d \ {x}] \in Plan /\ s[x] \in StakeAddrs
      BY <1>10
    <2>3. QED BY <2>1, <2>2, PassFacts
  <1>11. {} \in G
    BY <1>2, <1>8
  <1>12. \A d \in SUBSET D : d \in G
    <2> HIDE DEF G, D
    <2>1. QED BY <1>1, <1>10, <1>11, SubsetInduction
  <1>13. QED BY <1>1, <1>12 DEF H


\* Whoever it is, an authority holds finitely many accounts.
LEMMA HeldFinite ==
  ASSUME IInv, NEW authority
  PROVE  IsFiniteSet(cli!get_authority_accounts(authority))
  <1> DEFINE f == [v \in Validators |-> StakeAddress(v)]
  <1>1. cli!get_authority_accounts(authority) \subseteq StakeAddrs
    BY DEF cli!get_authority_accounts, IInv, TypeOK
  <1>2. PoolStakes = {StakeAddress(v) : v \in Validators}
    BY DEF PoolStakes, StakeAddress
  <1>3. IsFiniteSet(PoolStakes)
    <2>1. f \in Surjection(Validators, PoolStakes)
      BY <1>2 DEF Surjection
    <2>2. QED BY <2>1, ClientAssumption, FS_Surjection
  <1>4. IsFiniteSet(StakeAddrs)
    BY <1>3, ClientAssumption, FS_Union DEF StakeAddrs
  <1>5. QED BY <1>1, <1>4, FS_Subset

\* withdraw approves the amount given, then withdraws from account after
\* account.
LEMMA WithdrawShape ==
  ASSUME IInv, NEW c \in Commands, c.op = "withdraw",
         NEW seen \in StakePoolAccount, NEW t \in cli!command_withdraw(c, seen)
  PROVE  SignedShape(c, t)
  <1> DEFINE n == cli!pool_tokens_to_stake_amount(seen, c.amount)
             held == cli!get_authority_accounts(WithdrawAuthority)
             a == cli!Approve(c.burn_from, c.amount)
             W(plan, to, k) == [ix |-> "Withdraw", stake |-> plan[k].stake,
                                receiver |-> to, burn_from |-> c.burn_from,
                                amount |-> plan[k].amount]
             rest(plan, to) == [k \in DOMAIN plan |-> W(plan, to, k)]
  <1>1. /\ c.amount \in U64 /\ c.burn_from \in Users
        /\ c.stake_receiver \in UserStakes \cup {NoKey}
    BY DEF Commands
  <1>2. PICK plan \in cli!WithdrawPlans(c, seen) :
          \E to \in cli!StakeReceivers(c) : t = <<a>> \o rest(plan, to)
    <2>1. PICK plan \in cli!WithdrawPlans(c, seen) :
            t \in cli!check_fee_payer_balance(cli!ReceiverRent(c, plan),
                    {<<a>> \o cli!Withdrawals(c, plan, to) :
                       to \in cli!StakeReceivers(c)})
      BY DEF cli!command_withdraw
    <2>2. PICK to \in cli!StakeReceivers(c) :
            t = <<a>> \o cli!Withdrawals(c, plan, to)
      BY <2>1, FeeChecked
    <2>3. cli!Withdrawals(c, plan, to) = rest(plan, to)
      BY DEF cli!Withdrawals
    <2>4. QED BY <2>2, <2>3
  <1>4. PICK to \in UserStakes : t = <<a>> \o rest(plan, to)
    BY <1>1, <1>2 DEF cli!StakeReceivers
  <1>p. seen.pool_total # 0 /\ plan \in cli!prepare_withdraw_accounts(n)
    BY <1>2 DEF cli!WithdrawPlans
  <1>3. n \in U64
    <2> DEFINE x == c.amount * seen.stake_total
               q == x \div seen.pool_total
    <2>1. seen.pool_total \in Nat /\ seen.stake_total \in Nat /\ c.amount \in Nat
      BY <1>1, U64MaxAssumption DEF StakePoolAccount, U64
    <2>2. x \in Int
      BY <2>1
    <2> HIDE DEF x
    <2>3. q \in Int
      BY <1>p, <2>1, <2>2
    <2> HIDE DEF q
    <2>4. n = q % (U64Max + 1)
      BY DEF cli!pool_tokens_to_stake_amount, q, x
    <2>5. QED BY <2>3, <2>4, U64MaxAssumption DEF U64
  <1> HIDE DEF n
  <1>5. plan \in cli!pick_withdraw_accounts(held, n, RentReserve + 1)
    BY <1>p DEF cli!prepare_withdraw_accounts
  <1>6. PICK s \in cli!Seqs!SetToSeqs(held) :
          plan = PlanTable(s, n, RentReserve + 1)[DOMAIN s].from
    BY <1>5, PlanUnfold
  <1>7. s \in [1 .. Cardinality(held) -> StakeAddrs] /\ Cardinality(held) \in Nat
    <2>1. s \in [1 .. cli!Seqs!Cardinality(held) -> held]
      BY <1>6 DEF cli!Seqs!SetToSeqs
    <2>2. cli!Seqs!Cardinality(held) = Cardinality(held)
      BY DEF cli!Seqs!Cardinality, Cardinality
    <2>3. held \subseteq StakeAddrs
      BY DEF cli!get_authority_accounts, IInv, TypeOK
    <2>4. Cardinality(held) \in Nat
      BY HeldFinite, FS_CardinalityType
    <2> HIDE DEF held
    <2>5. QED BY <2>1, <2>2, <2>3, <2>4
  <1>8. plan \in Seq([stake : StakeAddrs, amount : U64])
    <2>1. PlanTable(s, n, RentReserve + 1)[DOMAIN s] \in Plan
      <3> HIDE DEF held
      <3>1. QED BY <1>3, <1>7, PlanFacts
    <2>2. QED BY <1>6, <2>1 DEF Plan
  <1> DEFINE r == rest(plan, to)
  <1>9. /\ r \in Seq(InstructionData) /\ Len(r) \in Nat
        /\ \A k \in 1 .. Len(r) : r[k].ix = "Withdraw" /\ r[k].burn_from = c.burn_from
    <2>1. DOMAIN plan = 1 .. Len(plan) /\ Len(plan) \in Nat
      BY <1>8
    <2>2. \A k \in DOMAIN plan : /\ W(plan, to, k) \in InstructionData
                                 /\ W(plan, to, k).ix = "Withdraw"
                                 /\ W(plan, to, k).burn_from = c.burn_from
      <3>1. TAKE k \in DOMAIN plan
      <3>2. plan[k] \in [stake : StakeAddrs, amount : U64]
        BY <1>8, <2>1, <3>1, ElementOfSeq
      <3> DEFINE x == plan[k].stake
                 y == plan[k].amount
      <3>3. x \in StakeAddrs /\ y \in U64
        BY <3>2
      <3> HIDE DEF x, y
      <3>4. W(plan, to, k) = [ix |-> "Withdraw", stake |-> x,
                          receiver |-> to, burn_from |-> c.burn_from,
                          amount |-> y]
        BY DEF x, y
      <3>5. QED BY <1>1, <3>3, <3>4 DEF InstructionData
    <2> HIDE DEF W
    <2>3. r \in [1 .. Len(plan) -> InstructionData]
      BY <2>1, <2>2
    <2>4. r \in Seq(InstructionData) /\ Len(r) = Len(plan)
      BY <2>1, <2>3, SeqDef, IsASeq
    <2>5. QED BY <2>1, <2>2, <2>4
  <1>10. /\ a \in InstructionData /\ a.ix = "Approve" /\ a.amount = c.amount
         /\ a.burn_from = c.burn_from
    BY <1>1 DEF cli!Approve, InstructionData
  <1> HIDE DEF r, a, held
  <1>11. /\ <<a>> \in Seq(InstructionData) /\ Len(<<a>>) = 1 /\ <<a>>[1] = a
    BY <1>10
  <1>12. t = <<a>> \o r
    BY <1>4 DEF r
  <1>13. /\ t \in Seq(InstructionData) /\ Len(t) = 1 + Len(r) /\ t[1] = a
         /\ \A k \in 2 .. Len(t) : t[k] = r[k - 1]
    BY <1>9, <1>11, <1>12, ConcatProperties
  <1>14. /\ \A k \in 1 .. Len(t) : k = 1 \/ (k \in 2 .. Len(t)
                                             /\ t[k].ix = "Withdraw"
                                             /\ t[k].burn_from = c.burn_from)
    BY <1>9, <1>13
  <1>15. t # <<>>
    BY <1>9, <1>13, EmptySeq
  <1>16. \A k \in 1 .. Len(t) : Fits(c, t[k])
    BY <1>10, <1>13, <1>14 DEF Fits, Spending
  <1>17. InOrder(c, t)
    BY <1>10, <1>13, <1>14 DEF InOrder, Completes, Early
  <1>18. QED BY <1>10, <1>13, <1>15, <1>16, <1>17 DEF SignedShape, Shape

\* metacli's copies of cli's commands are cli's commands.
LEMMA SameSimpleCommands ==
  ASSUME NEW c, NEW seen
  PROVE  /\ metacli!command_vsa_create(c, seen) = cli!command_vsa_create(c, seen)
         /\ metacli!command_vsa_add(c, seen) = cli!command_vsa_add(c, seen)
         /\ metacli!command_list(c, seen) = cli!command_list(c, seen)
         /\ metacli!command_set_staking_auth(c, seen)
              = cli!command_set_staking_auth(c, seen)
         /\ metacli!command_set_owner(c, seen) = cli!command_set_owner(c, seen)
  <1>1. metacli!command_vsa_create(c, seen) = cli!command_vsa_create(c, seen)
    BY DEF metacli!command_vsa_create, metacli!cli!command_vsa_create,
           cli!command_vsa_create, metacli!cli!check_fee_payer_balance,
           cli!check_fee_payer_balance
  <1>2. metacli!command_vsa_add(c, seen) = cli!command_vsa_add(c, seen)
    BY DEF metacli!command_vsa_add, metacli!cli!command_vsa_add,
           cli!command_vsa_add, metacli!cli!check_fee_payer_balance,
           cli!check_fee_payer_balance, metacli!cli!unwrap_create_token_account,
           cli!unwrap_create_token_account, metacli!cli!HandOver, cli!HandOver,
           metacli!cli!TokenReceiver, cli!TokenReceiver,
           metacli!cli!TokenAccountRent, cli!TokenAccountRent,
           metacli!cli!Authorize, cli!Authorize,
           metacli!cli!CreateAccount, cli!CreateAccount
  <1>3. metacli!command_list(c, seen) = cli!command_list(c, seen)
    BY DEF metacli!command_list, metacli!cli!command_list, cli!command_list
  <1>4. metacli!command_set_staking_auth(c, seen)
          = cli!command_set_staking_auth(c, seen)
    BY DEF metacli!command_set_staking_auth, metacli!cli!command_set_staking_auth,
           cli!command_set_staking_auth, metacli!cli!check_fee_payer_balance,
           cli!check_fee_payer_balance
  <1>5. metacli!command_set_owner(c, seen) = cli!command_set_owner(c, seen)
    BY DEF metacli!command_set_owner, metacli!cli!command_set_owner,
           cli!command_set_owner, metacli!cli!check_fee_payer_balance,
           cli!check_fee_payer_balance
  <1>6. QED BY <1>1, <1>2, <1>3, <1>4, <1>5

\* Commands that metacli takes over from cli.
LEMMA SameRemove ==
  ASSUME NEW c, NEW seen
  PROVE  metacli!command_vsa_remove(c, seen) = cli!command_vsa_remove(c, seen)
  BY DEF metacli!command_vsa_remove, metacli!cli!command_vsa_remove,
         cli!command_vsa_remove, metacli!cli!check_fee_payer_balance,
         cli!check_fee_payer_balance, metacli!cli!stake_amount_to_pool_tokens,
         cli!stake_amount_to_pool_tokens, metacli!cli!Approve, cli!Approve

\* The same for withdrawals.
LEMMA SameWithdraw ==
  ASSUME NEW c, NEW seen
  PROVE  metacli!command_withdraw(c, seen) = cli!command_withdraw(c, seen)
  BY DEF metacli!command_withdraw,
         cli!command_withdraw, metacli!cli!command_withdraw,
         cli!check_fee_payer_balance, metacli!cli!check_fee_payer_balance,
         cli!prepare_withdraw_accounts, metacli!cli!prepare_withdraw_accounts,
         cli!pick_withdraw_accounts, metacli!cli!pick_withdraw_accounts,
         cli!Seqs!FoldLeft, metacli!cli!Seqs!FoldLeft,
         cli!Seqs!MapThenFoldSet, metacli!cli!Seqs!MapThenFoldSet,
         cli!LargestFirst, metacli!cli!LargestFirst,
         cli!WithdrawFrom, metacli!cli!WithdrawFrom,
         cli!Available, metacli!cli!Available,
         cli!get_authority_accounts, metacli!cli!get_authority_accounts,
         cli!Seqs!Max, metacli!cli!Seqs!Max, cli!Min, metacli!cli!Min,
         cli!pool_tokens_to_stake_amount, metacli!cli!pool_tokens_to_stake_amount,
         cli!Approve, metacli!cli!Approve,
         cli!WithdrawPlans, metacli!cli!WithdrawPlans,
         cli!Withdrawals, metacli!cli!Withdrawals,
         cli!StakeReceivers, metacli!cli!StakeReceivers,
         cli!ReceiverRent, metacli!cli!ReceiverRent,
         cli!Seqs!SetToSeqs, metacli!cli!Seqs!SetToSeqs,
         cli!Sub64, metacli!cli!Sub64,
         cli!Seqs!Cardinality, metacli!cli!Seqs!Cardinality

\* create-liq-pool only creates accounts.
LEMMA CreateLiquidityPoolShape ==
  ASSUME NEW c \in Commands, c.op = "create-liq-pool", NEW seen,
         NEW t \in metacli!command_create_liquidity_pool(c, seen)
  PROVE  SignedShape(c, t)
  <1> DEFINE A(k) == metacli!CreateAccount(k)
             all == <<A("StakePool"), A("Account"), A("Account"), A("Mint")>>
  <1>1. t \in {all}
    BY DEF metacli!command_create_liquidity_pool,
           metacli!check_fee_payer_balance, metacli!cli!check_fee_payer_balance
  <1>2. ASSUME NEW k \in AccountKinds
        PROVE  A(k) \in InstructionData /\ A(k).ix = "CreateAccount"
    BY DEF metacli!CreateAccount, metacli!cli!CreateAccount, InstructionData
  <1> HIDE DEF A
  <1>3. /\ all \in Seq(InstructionData) /\ Len(all) = 4 /\ all # <<>>
        /\ \A k \in 1 .. Len(all) : all[k].ix = "CreateAccount"
    BY <1>2 DEF AccountKinds
  <1> HIDE DEF all
  <1>4. \A k \in 1 .. Len(all) : Fits(c, all[k])
    BY <1>3 DEF Fits
  <1>5. InOrder(c, all)
    BY <1>3 DEF InOrder, Completes, Early
  <1>6. QED BY <1>1, <1>3, <1>4, <1>5 DEF SignedShape, Shape, Spending

\* add-liquidity and sell.
LEMMA LiquidityShape ==
  ASSUME NEW c \in Commands, NEW seen, NEW t,
         \/ c.op = "add-liquidity" /\ t \in metacli!command_add_liquidity(c, seen)
         \/ c.op = "sell" /\ t \in metacli!command_sell_st_sol(c, seen)
  PROVE  SignedShape(c, t)
  <1> DEFINE a == metacli!CreateAccount("Account")
             x == [ix |-> "AddLiquidity", amount |-> c.amount]
             y == [ix |-> "SellstSOL", amount |-> c.amount]
  <1>1. /\ a \in InstructionData /\ a.ix = "CreateAccount"
    BY DEF metacli!CreateAccount, metacli!cli!CreateAccount, InstructionData,
           AccountKinds
  <1>2. c.amount \in U64
    BY DEF Commands
  <1>3. /\ x \in InstructionData /\ x.ix = "AddLiquidity"
        /\ y \in InstructionData /\ y.ix = "SellstSOL" /\ y.amount = c.amount
    BY <1>2 DEF InstructionData
  <1>4. PICK i : \/ c.op = "add-liquidity" /\ i = x /\ t = <<a, i>>
                 \/ c.op = "sell" /\ i = y /\ t = <<a, i>>
    BY DEF metacli!command_add_liquidity, metacli!command_sell_st_sol,
           metacli!check_fee_payer_balance, metacli!cli!check_fee_payer_balance
  <1> HIDE DEF a, x, y
  <1>5. /\ <<a>> \in Seq(InstructionData) /\ Len(<<a>>) = 1 /\ <<a>>[1] = a
    BY <1>1
  <1>6. t = <<a>> \o <<i>>
    BY <1>4, Pair
  <1>7. /\ Fits(c, a) /\ Fits(c, i) /\ Completes(c, i)
        /\ i \in InstructionData /\ i.ix # "Approve" /\ c.op \notin Spending
    BY <1>1, <1>3, <1>4 DEF Fits, Completes, Spending
  <1> DEFINE pre == <<a>>
  <1>8. /\ pre \in Seq(InstructionData)
        /\ \A k \in 1 .. Len(pre) : /\ Fits(c, pre[k])
                                    /\ pre[k].ix \in Early \ {"Approve"}
    BY <1>1, <1>5, <1>7 DEF Early
  <1> HIDE DEF pre
  <1>9. SignedShape(c, pre \o <<i>>)
    BY <1>7, <1>8, Concluded DEF Spending
  <1>10. QED BY <1>6, <1>9 DEF pre

\* The subcommands there are.
LEMMA Operations ==
  ASSUME NEW c \in Commands
  PROVE  /\ c.owner \in Users
         /\ c.op \in {"create-pool", "create-validator-stake",
                      "add-validator-stake", "deposit", "remove-validator-stake",
                      "list", "update", "withdraw", "set-staking-auth",
                      "set-owner", "update-force", "create-liq-pool",
                      "add-liquidity", "sell"}
         /\ c.tool = "cli" => c.op \notin {"update-force", "create-liq-pool",
                                           "add-liquidity", "sell"}
         /\ c.tool # "cli" => c.op # "create-pool"
  BY DEF Commands, Tools

\* Every transaction of a command has the shape.  remove-validator-stake,
\* withdraw and set-owner compute with the pool they read.
LEMMA SubcommandShape ==
  ASSUME IInv, NEW c \in Commands, NEW seen,
         UsesPool(c) => /\ seen \in StakePoolAccount
                        /\ seen.version = 1 /\ OwnerGiven(seen),
         NEW t \in Subcommand(c, seen)
  PROVE  SignedShape(c, t)
  <1>1. CASE c.tool = "cli"
    <2>1. t \in cli!Subcommand(c, seen)
      BY <1>1 DEF Subcommand
    <2>2. CASE c.op = "create-pool"
      BY <2>1, <2>2, CreatePoolShape DEF cli!Subcommand
    <2>3. CASE c.op = "create-validator-stake"
      BY <2>1, <2>3, CreateStakeShape DEF cli!Subcommand
    <2>4. CASE c.op = "add-validator-stake"
      BY <2>1, <2>4, AddShape DEF cli!Subcommand
    <2>5. CASE c.op = "remove-validator-stake"
      BY <2>1, <2>5, RemoveShape DEF cli!Subcommand, UsesPool
    <2>6. CASE c.op = "deposit"
      BY <2>1, <2>6, DepositShape DEF cli!Subcommand
    <2>7. CASE c.op = "list"
      BY <2>1, <2>7 DEF cli!Subcommand, cli!command_list
    <2>8. CASE c.op = "update"
      BY <2>1, <2>8, CliUpdateShape DEF cli!Subcommand
    <2>9. CASE c.op = "withdraw"
      BY <2>1, <2>9, WithdrawShape DEF cli!Subcommand, UsesPool
    <2>10. CASE c.op = "set-staking-auth"
      BY <2>1, <2>10, SetStakingAuthShape DEF cli!Subcommand
    <2>11. CASE c.op = "set-owner"
      BY <2>1, <2>11, SetOwnerShape DEF cli!Subcommand, UsesPool
    <2>12. QED BY <1>1, <2>2, <2>3, <2>4, <2>5, <2>6, <2>7, <2>8, <2>9, <2>10,
                  <2>11, Operations
  <1>2. CASE c.tool # "cli"
    <2>1. t \in metacli!Subcommand(c, seen)
      BY <1>2 DEF Subcommand
    <2>2. CASE c.op = "create-liq-pool"
      BY <2>1, <2>2, CreateLiquidityPoolShape DEF metacli!Subcommand
    <2>3. CASE c.op = "create-validator-stake"
      BY <2>1, <2>3, CreateStakeShape, SameSimpleCommands DEF metacli!Subcommand
    <2>4. CASE c.op = "add-validator-stake"
      BY <2>1, <2>4, AddShape, SameSimpleCommands DEF metacli!Subcommand
    <2>5. CASE c.op = "remove-validator-stake"
      BY <2>1, <2>5, RemoveShape, SameRemove DEF metacli!Subcommand, UsesPool
    <2>6. CASE c.op = "deposit"
      BY <2>1, <2>6, DepositShape DEF metacli!Subcommand
    <2>7. CASE c.op = "list"
      BY <2>1, <2>7, SameSimpleCommands DEF metacli!Subcommand, cli!command_list
    <2>8. CASE c.op = "update"
      BY <2>1, <2>8, MetacliUpdateShape DEF metacli!Subcommand
    <2>9. CASE c.op = "withdraw"
      BY <2>1, <2>9, WithdrawShape, SameWithdraw DEF metacli!Subcommand, UsesPool
    <2>10. CASE c.op = "set-staking-auth"
      BY <2>1, <2>10, SetStakingAuthShape, SameSimpleCommands
         DEF metacli!Subcommand
    <2>11. CASE c.op = "set-owner"
      BY <2>1, <2>11, SetOwnerShape, SameSimpleCommands
         DEF metacli!Subcommand, UsesPool
    <2>12. CASE c.op = "update-force"
      BY <2>1, <2>12, MetacliUpdateShape DEF metacli!Subcommand
    <2>13. CASE c.op \in {"add-liquidity", "sell"}
      BY <2>1, <2>13, LiquidityShape DEF metacli!Subcommand
    <2>14. QED BY <1>2, <2>2, <2>3, <2>4, <2>5, <2>6, <2>7, <2>8, <2>9, <2>10,
                  <2>11, <2>12, <2>13, Operations
  <1>3. QED BY <1>1, <1>2

=============================================================================
