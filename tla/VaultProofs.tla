----------------------------- MODULE VaultProofs -----------------------------
(***************************************************************************)
(* StakePool implements ShareVault, and what follows for the price, for    *)
(* every value of the constants.                                           *)
(*                                                                         *)
(* Each instruction is first reduced to what it does to the two counters,  *)
(* the tokens and the lamports in custody (Entered, Withdrawn, Removed,    *)
(* Discarded, Moved, Arrived, Revalued).  The refinement and the action    *)
(* properties are then proved from these seven shapes alone.  The records  *)
(* of the first epoch need the stake accounts again.                       *)
(***************************************************************************)
EXTENDS StakePoolProofs

(***************************************************************************)
(* Arithmetic of the pool.                                                 *)
(***************************************************************************)

\* The price of an entry: tokens for lamports, rounded down.
LEMMA DepositPrice ==
  ASSUME NEW p \in StakePoolAccount, NEW l \in U64,
         calc_pool_deposit_amount(p, l) \in U64
  PROVE  LET n == calc_pool_deposit_amount(p, l)
         IN IF p.stake_total = 0 THEN n = l
            ELSE n * p.stake_total <= l * p.pool_total
                 /\ l * p.pool_total < (n + 1) * p.stake_total
  <1>1. l \in Nat /\ p.pool_total \in Nat /\ p.stake_total \in Nat
    BY U64MaxAssumption DEF StakePoolAccount, U64
  <1>2. CASE p.stake_total = 0
    BY <1>2 DEF calc_pool_deposit_amount
  <1>3. CASE p.stake_total # 0
    <2>1. calc_pool_deposit_amount(p, l)
            = CheckedMulDiv(l, p.pool_total, p.stake_total)
      BY <1>3 DEF calc_pool_deposit_amount, calc_pool_withdraw_amount
    <2>2. QED BY <1>1, <1>3, <2>1, MulDivFacts
  <1>4. QED BY <1>2, <1>3

-----------------------------------------------------------------------------
(***************************************************************************)
(* What an instruction does to the vault, without stake accounts.          *)
(***************************************************************************)

\* Lamports in custody move at one address, by d.
CustodyMoves(addr, d) ==
  \A x \in StakeAddrs :
    CustodyLamports(x)' = CustodyLamports(x) + IF x = addr THEN d ELSE 0

\* At most l lamports leave one address, and nothing leaves any other.
CustodyTaken(addr, l) ==
  /\ \A x \in StakeAddrs : CustodyLamports(x)' \in Nat
  /\ l <= CustodyLamports(addr)
  /\ CustodyLamports(addr)' >= CustodyLamports(addr) - l
  /\ \A x \in StakeAddrs \ {addr} : CustodyLamports(x)' >= CustodyLamports(x)

\* What is on the books moves at one validator, by d, and a record that stays
\* tells the new amount.
BooksMove(v, d) ==
  /\ Booked(v)' = Booked(v) + d
  /\ \A r \in list' : r.validator_account = v => r.balance = Booked(v)'
  /\ \A w \in Validators \ {v} : Booked(w)' = Booked(w)

\* The records of all validators stay; their contents may change.
KeepsRecords ==
  \A r \in list : Contains(list', r.validator_account)

\* AddValidatorStakeAccount and Deposit: l lamports for n tokens.
Entered(u, v, n, l) ==
  /\ n \in U64 /\ l \in U64 /\ n = calc_pool_deposit_amount(pool, l)
  /\ supply' = supply + n /\ token' = [token EXCEPT ![u] = @ + n]
  /\ pool'.pool_total = Add64(pool.pool_total, n)
  /\ pool'.stake_total = Add64(pool.stake_total, l)
  /\ CustodyMoves(StakeAddress(v), l) /\ BooksMove(v, l) /\ KeepsRecords

\* The counters and the tokens of an exit.  The lamports leave the books; an
\* account handed to the withdraw authority again stays in custody.
Left(u, v, n, l) ==
  /\ n \in U64 /\ l \in U64 /\ n <= token[u] /\ n <= supply
  /\ supply' = supply - n /\ token' = [token EXCEPT ![u] = @ - n]
  /\ pool'.pool_total = Sub64(pool.pool_total, n)
  /\ pool'.stake_total = Sub64(pool.stake_total, l)
  /\ CustodyTaken(StakeAddress(v), l) /\ BooksMove(v, -l)

\* Withdraw: n tokens for l lamports.
Withdrawn(u, v, n, l) ==
  /\ Left(u, v, n, l) /\ KeepsRecords
  /\ l = calc_lamports_amount(pool, n) /\ l > 0

\* RemoveValidatorStakeAccount: all of the account's lamports for n tokens,
\* and its record goes.
Removed(u, v, n, l) ==
  /\ Left(u, v, n, l)
  /\ l = CustodyLamports(StakeAddress(v))
  /\ n = calc_pool_withdraw_amount(pool, l)
  /\ ~KeepsRecords

\* UserBurns.
Discarded(u, n) ==
  /\ n \in Nat /\ n <= token[u] /\ n <= supply
  /\ supply' = supply - n /\ token' = [token EXCEPT ![u] = @ - n]
  /\ UNCHANGED <<pool, list, stake>>

\* UserSplits and UserMerges: l lamports go from one address to another, which
\* may gain more (its rent reserve).
Moved(p, q, l) ==
  /\ p # q /\ CustodyTaken(p, l)
  /\ CustodyLamports(p)' = CustodyLamports(p) - l
  /\ CustodyLamports(q)' >= CustodyLamports(q) + l
  /\ UNCHANGED <<token, supply, list, pool>>

\* Rewards and transfers, accounts handed to the withdraw authority, and every
\* step that only touches accounts the pool does not hold: lamports in custody
\* do not become less.
Arrived ==
  /\ \A x \in StakeAddrs : CustodyLamports(x)' \in Nat
                            /\ CustodyLamports(x)' >= CustodyLamports(x)
  /\ UNCHANGED <<token, supply, list, pool>>

\* Steps on the pool account and the list only: stake_total may be set,
\* pool_total stays.
Revalued ==
  /\ pool'.stake_total \in U64 /\ pool'.pool_total = pool.pool_total
  /\ UNCHANGED <<token, supply, stake>> /\ KeepsRecords

\* Every step has one of the seven shapes.
VaultStep ==
  \/ \E u \in Users, v \in Validators : \E n, l \in Nat :
       Entered(u, v, n, l) \/ Withdrawn(u, v, n, l) \/ Removed(u, v, n, l)
  \/ \E u \in Users : \E n \in Nat : Discarded(u, n)
  \/ \E p, q \in StakeAddrs : \E l \in Nat : Moved(p, q, l)
  \/ Arrived
  \/ Revalued

-----------------------------------------------------------------------------
(***************************************************************************)
(* Every instruction has one of these shapes.                              *)
(***************************************************************************)

\* An address where the runtime keeps no account is nobody's and holds
\* nothing: what lets CreateValidatorStakeAccount and users write there.
EmptyIsNoAccount ==
  \A addr \in StakeAddrs : stake[addr].state = "None" => stake[addr] = NoAccount

\* Both authorities can be moved by a key only if it holds both.
LEMMA CanAuthorizeBothFacts ==
  ASSUME NEW a \in StakeAccount, NEW k, NEW new, CanAuthorizeBoth(a, k, new)
  PROVE  a.withdrawer = k
  BY DEF CanAuthorizeBoth, CanAuthorize

\* A change of one stake account changes the custody of one address.
LEMMA OneCustody ==
  ASSUME NEW addr \in StakeAddrs, NEW d \in Int,
         \A x \in StakeAddrs \ {addr} :
           CustodyLamports(x)' = CustodyLamports(x)
           /\ CustodyLamports(x) \in Nat,
         CustodyLamports(addr)' = CustodyLamports(addr) + d
  PROVE  CustodyMoves(addr, d)
  BY DEF CustodyMoves

\* What custody is, by the withdrawer of the account.
LEMMA CustodyFacts ==
  ASSUME TypeOK, NEW addr \in StakeAddrs
  PROVE  /\ CustodyLamports(addr) \in U64 /\ CustodyLamports(addr) \in Nat
         /\ CustodyLamports(addr) <= stake[addr].lamports
  BY U64MaxAssumption DEF CustodyLamports, TypeOK, StakeAccount, U64

\* An address without an account holds nothing of the pool's.
LEMMA EmptyCustody ==
  ASSUME EmptyIsNoAccount, NEW addr \in StakeAddrs, stake[addr].state = "None"
  PROVE  CustodyLamports(addr) = 0
  BY NoAccountFacts DEF EmptyIsNoAccount, CustodyLamports

\* Writing a balance back drops no record.
LEMMA BalanceKeepsRecords ==
  ASSUME list \in SUBSET ValidatorStakeInfo, NEW v \in Validators,
         NEW b \in U64, list' = SetBalance(list, v, b)
  PROVE  KeepsRecords
  <1>1. \A r \in list : \E q \in list' :
          q.validator_account = r.validator_account
    BY SetBalanceFacts
  <1>2. QED BY <1>1 DEF KeepsRecords, Contains

\* Writing a balance back adds no record either, changes no other, and leaves
\* the new balance in the one it is about.
LEMMA SetBalanceRecords ==
  ASSUME list \in SUBSET ValidatorStakeInfo, NEW v \in Validators,
         NEW b \in U64, list' = SetBalance(list, v, b)
  PROVE  /\ \A w \in Validators : Contains(list', w) <=> Contains(list, w)
         /\ \A q \in list' : q.validator_account = v => q.balance = b
         /\ \A q \in list' : q.validator_account # v => q \in list
  <1> DEFINE F(r) == IF r.validator_account = v THEN [r EXCEPT !.balance = b]
                                                ELSE r
  <1>1. \A r \in list : /\ F(r).validator_account = r.validator_account
                        /\ r.validator_account = v => F(r).balance = b
                        /\ r.validator_account # v => F(r) = r
    BY DEF ValidatorStakeInfo
  <1>2. list' = {F(r) : r \in list}
    BY DEF SetBalance
  <1> HIDE DEF F
  <1>3. QED BY <1>1, <1>2 DEF Contains

\* When custody changes at one validator of the list, so do the books.
LEMMA BooksFollow ==
  ASSUME list \in SUBSET ValidatorStakeInfo, NEW v \in Validators, NEW d,
         NEW b \in U64, list' = SetBalance(list, v, b), Contains(list, v),
         b = CustodyLamports(StakeAddress(v))',
         b = CustodyLamports(StakeAddress(v)) + d,
         \A w \in Validators \ {v} : CustodyLamports(StakeAddress(w))' =
                                     CustodyLamports(StakeAddress(w))
  PROVE  BooksMove(v, d)
  <1>1. /\ \A w \in Validators : Contains(list', w) <=> Contains(list, w)
        /\ \A q \in list' : q.validator_account = v => q.balance = b
    BY SetBalanceRecords
  <1>2. Booked(v)' = b /\ Booked(v) = CustodyLamports(StakeAddress(v))
    BY <1>1 DEF Booked
  <1>3. \A w \in Validators \ {v} : Booked(w)' = Booked(w)
    BY <1>1 DEF Booked
  <1>4. QED BY <1>1, <1>2, <1>3 DEF BooksMove

\* AddValidatorStakeAccount: the account comes from the deposit authority, so
\* nothing of it was in custody, and all of it is afterwards.
LEMMA AddIsEnter ==
  ASSUME IInv, NEW u \in Users, NEW v \in Validators, NEW w \in Users,
         process_add_validator_stake_account(u, v, w)
  PROVE  \E n, l \in Nat : Entered(w, v, n, l)
  <1> DEFINE addr == StakeAddress(v)
             l == stake[addr].lamports
             n == calc_pool_deposit_amount(pool, l)
             rec == [validator_account |-> v, balance |-> l,
                     last_update_epoch |-> epoch]
  <1>1. /\ n \in U64 /\ MintTo(w, n) /\ ~Contains(list, v)
        /\ CanAuthorizeBoth(stake[addr], DepositAuthority, WithdrawAuthority)
        /\ stake' = [stake EXCEPT ![addr] =
                       AuthorizedBoth(stake[addr], WithdrawAuthority)]
        /\ list' = list \cup {rec}
        /\ pool' = Credit(pool, n, l)
    BY DEF process_add_validator_stake_account
  <1>2. /\ TypeOK /\ addr \in StakeAddrs /\ stake[addr] \in StakeAccount
        /\ l \in U64 /\ l \in Nat /\ pool \in StakePoolAccount
        /\ stake \in [StakeAddrs -> StakeAccount]
    BY AddressFacts, U64MaxAssumption DEF IInv, TypeOK, StakeAccount, U64
  <1>3. n \in Nat
    BY <1>1, U64MaxAssumption DEF U64
  <1>4. CustodyLamports(addr) = 0 /\ CustodyLamports(addr)' = l
    <2>1. stake[addr].withdrawer # WithdrawAuthority
      BY <1>1, <1>2, CanAuthorizeBothFacts, KeyAssumption
    <2>2. /\ stake'[addr].withdrawer = WithdrawAuthority
          /\ stake'[addr].lamports = l
      BY <1>1, <1>2, AuthorizedBothFacts DEF Keys
    <2>3. QED BY <2>1, <2>2 DEF CustodyLamports
  <1>5. \A x \in StakeAddrs \ {addr} :
          CustodyLamports(x)' = CustodyLamports(x) /\ CustodyLamports(x) \in Nat
    <2>1. \A x \in StakeAddrs \ {addr} : stake'[x] = stake[x]
      BY <1>1, <1>2
    <2>2. QED BY <1>2, <2>1, CustodyFacts DEF CustodyLamports
  <1>6. rec.validator_account = v /\ rec.balance = l
    OBVIOUS
  <1> HIDE DEF addr, l, n, rec
  <1>7. CustodyMoves(addr, l)
    BY <1>2, <1>4, <1>5, OneCustody
  <1>8. BooksMove(v, l)
    <2>1. Booked(v) = 0 /\ Booked(v)' = l
      BY <1>1, <1>4, <1>6 DEF Booked, Contains, addr
    <2>2. \A r \in list' : r.validator_account = v => r.balance = l
      BY <1>1, <1>6 DEF Contains
    <2>3. ASSUME NEW x \in Validators \ {v} PROVE Booked(x)' = Booked(x)
      <3>1. Contains(list', x) <=> Contains(list, x)
        BY <1>1, <1>6 DEF Contains
      <3>2. StakeAddress(x) \in StakeAddrs \ {addr}
        BY AddressFacts DEF addr
      <3>3. QED BY <1>5, <3>1, <3>2 DEF Booked
    <2>4. QED BY <1>2, <2>1, <2>2, <2>3 DEF BooksMove
  <1>9. /\ pool'.pool_total = Add64(pool.pool_total, n)
        /\ pool'.stake_total = Add64(pool.stake_total, l)
    BY <1>1, <1>2, CreditFacts
  <1>10. KeepsRecords
    BY <1>1 DEF KeepsRecords, Contains
  <1>11. Entered(w, v, n, l)
    BY <1>1, <1>2, <1>7, <1>8, <1>9, <1>10 DEF Entered, MintTo, n, addr
  <1>12. QED BY <1>2, <1>3, <1>11

\* Deposit: the source was not in custody (its withdrawer is the deposit
\* authority), the target is, before and after.
LEMMA DepositIsEnter ==
  ASSUME IInv, NEW addr \in StakeAddrs, NEW v \in Validators, NEW u \in Users,
         process_deposit(addr, v, u)
  PROVE  \E n, l \in Nat : Entered(u, v, n, l)
  <1> DEFINE target == StakeAddress(v)
             joined == AuthorizedBoth(stake[addr], WithdrawAuthority)
             l == stake[addr].lamports
             n == calc_pool_deposit_amount(pool, l)
             merged == Merged(stake[target], joined)
  <1>1. /\ addr # target /\ Contains(list, v)
        /\ n \in U64 /\ MintTo(u, n)
        /\ CanAuthorizeBoth(stake[addr], DepositAuthority, WithdrawAuthority)
        /\ CanMerge(stake[target], joined, WithdrawAuthority)
        /\ stake' = [stake EXCEPT ![target] = merged, ![addr] = NoAccount]
        /\ pool' = Credit(pool, n, l)
        /\ list' = SetBalance(list, v, stake'[target].lamports)
    BY DEF process_deposit
  <1>2. /\ TypeOK /\ target \in StakeAddrs /\ stake[addr] \in StakeAccount
        /\ stake[target] \in StakeAccount /\ l \in U64 /\ l \in Nat
        /\ pool \in StakePoolAccount /\ list \in SUBSET ValidatorStakeInfo
        /\ stake \in [StakeAddrs -> StakeAccount]
    BY AddressFacts, U64MaxAssumption DEF IInv, TypeOK, StakeAccount, U64
  <1>3. n \in Nat
    BY <1>1, U64MaxAssumption DEF U64
  <1>4. /\ joined \in StakeAccount /\ joined.lamports = l
        /\ joined.withdrawer = WithdrawAuthority
    BY <1>2, AuthorizedBothFacts DEF Keys
  <1>5. /\ merged \in StakeAccount /\ merged.lamports = stake[target].lamports + l
        /\ merged.withdrawer = WithdrawAuthority
        /\ stake[target].withdrawer = WithdrawAuthority
    <2> HIDE DEF joined, target, l
    <2>1. joined.withdrawer = stake[target].withdrawer
      BY <1>1 DEF CanMerge
    <2>2. QED BY <1>1, <1>2, <1>4, <2>1, MergedFacts
  <1>6. stake[addr].withdrawer # WithdrawAuthority
    BY <1>1, <1>2, CanAuthorizeBothFacts, KeyAssumption
  <1> HIDE DEF joined, merged
  <1>7. /\ stake'[target] = merged /\ stake'[addr] = NoAccount
        /\ \A x \in StakeAddrs \ {target, addr} : stake'[x] = stake[x]
    BY <1>1, <1>2
  <1>8. CustodyLamports(target)' = CustodyLamports(target) + l
    BY <1>5, <1>7 DEF CustodyLamports
  <1>9. ASSUME NEW x \in StakeAddrs \ {target}
        PROVE  CustodyLamports(x)' = CustodyLamports(x)
               /\ CustodyLamports(x) \in Nat
    <2>1. CASE x = addr
      BY <1>6, <1>7, <2>1, NoAccountFacts, KeyAssumption DEF CustodyLamports, Keys
    <2>2. CASE x # addr
      BY <1>2, <1>7, <2>2, CustodyFacts DEF CustodyLamports
    <2>3. QED BY <2>1, <2>2
  <1> DEFINE b == stake'[target].lamports
  <1>10. b \in U64 /\ b = CustodyLamports(target)' /\ list' = SetBalance(list, v, b)
    BY <1>1, <1>5, <1>7 DEF StakeAccount, CustodyLamports
  <1> HIDE DEF target, l, n, b
  <1>11. CustodyMoves(target, l)
    BY <1>2, <1>8, <1>9, OneCustody
  <1>12. BooksMove(v, l)
    <2>1. \A w \in Validators \ {v} : StakeAddress(w) \in StakeAddrs \ {target}
      BY AddressFacts DEF target
    <2>2. QED BY <1>1, <1>2, <1>8, <1>9, <1>10, <2>1, BooksFollow DEF target
  <1>13. /\ pool'.pool_total = Add64(pool.pool_total, n)
         /\ pool'.stake_total = Add64(pool.stake_total, l)
    BY <1>1, <1>2, CreditFacts
  <1>14. KeepsRecords
    BY <1>2, <1>10, BalanceKeepsRecords
  <1>15. Entered(u, v, n, l)
    BY <1>1, <1>2, <1>11, <1>12, <1>13, <1>14 DEF Entered, MintTo, n, target
  <1>16. QED BY <1>2, <1>3, <1>15

\* Withdraw: the lamports that leave are the price of the tokens.  When they
\* are all the account holds, the account disappears.
LEMMA WithdrawIsExit ==
  ASSUME IInv, EmptyIsNoAccount, NEW u \in Users, NEW v \in Validators,
         NEW addr \in UserStakes, NEW k \in Keys, NEW n \in Nat,
         process_withdraw(u, v, addr, k, n)
  PROVE  \E l \in Nat : Withdrawn(u, v, n, l)
  <1> DEFINE source == StakeAddress(v)
             l == calc_lamports_amount(pool, n)
             rest == SplitSource(stake[source], l)
             split == SplitTarget(stake[source], l)
             out == AuthorizedBoth(split, k)
  <1>1. /\ l \in U64 /\ Burn(u, n) /\ Contains(list, v)
        /\ stake[addr].state = "None"
        /\ CanSplit(stake[source], WithdrawAuthority, l)
        /\ CanAuthorizeBoth(split, WithdrawAuthority, k)
        /\ stake' = [stake EXCEPT ![source] = rest, ![addr] = out]
        /\ pool' = Debit(pool, n, l)
        /\ list' = SetBalance(list, v, stake'[source].lamports)
    BY DEF process_withdraw
  <1>2. /\ TypeOK /\ source \in StakeAddrs /\ addr \in StakeAddrs /\ source # addr
        /\ stake[source] \in StakeAccount /\ pool \in StakePoolAccount
        /\ stake \in [StakeAddrs -> StakeAccount]
        /\ list \in SUBSET ValidatorStakeInfo /\ supply \in U64
    BY AddressFacts DEF IInv, TypeOK
  <1>3. l \in Nat /\ n \in U64 /\ n <= token[u] /\ n <= supply
    BY <1>1, <1>2, U64MaxAssumption DEF U64, Burn
  <1> HIDE DEF l
  <1>4. /\ rest \in StakeAccount /\ split \in StakeAccount
        /\ rest.lamports = stake[source].lamports - l
        /\ l # stake[source].lamports => rest.withdrawer = stake[source].withdrawer
        /\ split.withdrawer = stake[source].withdrawer
    BY <1>1, <1>2, SplitFacts
  <1>5. l > 0 /\ l <= stake[source].lamports
    BY <1>1 DEF CanSplit
  <1> HIDE DEF rest, split
  <1>6. stake[source].withdrawer = WithdrawAuthority
    BY <1>1, <1>4, CanAuthorizeBothFacts
  <1>7. out \in StakeAccount
    BY <1>4, AuthorizedBothFacts
  <1> HIDE DEF out
  <1>8. /\ stake'[source] = rest /\ stake'[addr] = out
        /\ \A x \in StakeAddrs \ {source, addr} : stake'[x] = stake[x]
    BY <1>1, <1>2
  <1>9. /\ CustodyLamports(source) = stake[source].lamports
        /\ CustodyLamports(source)' = stake[source].lamports - l
        /\ stake[source].lamports \in Nat
    <2>1. stake[source].lamports \in Nat
      BY <1>2, U64MaxAssumption DEF StakeAccount, U64
    <2>2. CASE l = stake[source].lamports
      <3>1. rest.lamports = 0 /\ stake[source].lamports - l = 0
        BY <1>4, <2>1, <2>2
      <3>2. QED BY <1>6, <1>8, <2>1, <3>1 DEF CustodyLamports
    <2>3. CASE l # stake[source].lamports
      BY <1>4, <1>6, <1>8, <2>1, <2>3 DEF CustodyLamports
    <2>4. QED BY <2>2, <2>3
  <1>10. \A x \in StakeAddrs \ {source, addr} :
           CustodyLamports(x)' = CustodyLamports(x) /\ CustodyLamports(x) \in Nat
    BY <1>2, <1>8, CustodyFacts DEF CustodyLamports
  <1>11. CustodyLamports(addr) = 0 /\ CustodyLamports(addr)' \in Nat
    <2>1. out.lamports \in Nat
      BY <1>7, U64MaxAssumption DEF StakeAccount, U64
    <2>2. QED BY <1>1, <1>2, <1>8, <2>1, EmptyCustody DEF CustodyLamports
  <1>12. CustodyTaken(source, l)
    <2>1. /\ l <= CustodyLamports(source)
          /\ CustodyLamports(source)' \in Nat
          /\ CustodyLamports(source)' >= CustodyLamports(source) - l
      BY <1>3, <1>5, <1>9
    <2>2. \A x \in StakeAddrs \ {source} :
            CustodyLamports(x)' \in Nat /\ CustodyLamports(x)' >= CustodyLamports(x)
      BY <1>10, <1>11
    <2>3. QED BY <2>1, <2>2 DEF CustodyTaken
  <1> DEFINE b == stake'[source].lamports
  <1>13. b \in U64 /\ b = CustodyLamports(source)' /\ list' = SetBalance(list, v, b)
    BY <1>1, <1>4, <1>8, <1>9 DEF StakeAccount
  <1> HIDE DEF source, b
  <1>14. BooksMove(v, -l)
    <2>1. \A w \in Validators \ {v} :
            StakeAddress(w) \in StakeAddrs \ {source, addr}
      BY AddressFacts DEF source
    <2>2. b = CustodyLamports(source) + (-l)
      BY <1>3, <1>9, <1>13
    <2>3. QED BY <1>1, <1>2, <1>10, <1>13, <2>1, <2>2, BooksFollow DEF source
  <1>15. /\ pool'.pool_total = Sub64(pool.pool_total, n)
         /\ pool'.stake_total = Sub64(pool.stake_total, l)
    BY <1>1, <1>2, <1>3, DebitFacts
  <1>16. KeepsRecords
    BY <1>2, <1>13, BalanceKeepsRecords
  <1>17. Withdrawn(u, v, n, l)
    BY <1>1, <1>3, <1>5, <1>12, <1>14, <1>15, <1>16
       DEF Withdrawn, Left, Burn, l, source
  <1>18. QED BY <1>3, <1>17

\* RemoveValidatorStakeAccount: the whole account goes to the new authority,
\* which may be the withdraw authority itself.
LEMMA RemoveIsExit ==
  ASSUME IInv, NEW u \in Users, NEW w \in Users, NEW v \in Validators,
         NEW k \in Keys, process_remove_validator_stake_account(u, w, v, k)
  PROVE  \E n, l \in Nat : Removed(w, v, n, l)
  <1> DEFINE addr == StakeAddress(v)
             l == stake[addr].lamports
             n == calc_pool_withdraw_amount(pool, l)
             new == AuthorizedBoth(stake[addr], k)
  <1>1. /\ n \in U64 /\ Burn(w, n)
        /\ CanAuthorizeBoth(stake[addr], WithdrawAuthority, k)
        /\ stake' = [stake EXCEPT ![addr] = new]
        /\ Contains(list, v) /\ list' = Retain(list, v)
        /\ pool' = Debit(pool, n, l)
    BY DEF process_remove_validator_stake_account
  <1>2. /\ TypeOK /\ addr \in StakeAddrs /\ stake[addr] \in StakeAccount
        /\ l \in U64 /\ l \in Nat /\ pool \in StakePoolAccount
        /\ stake \in [StakeAddrs -> StakeAccount]
    BY AddressFacts, U64MaxAssumption DEF IInv, TypeOK, StakeAccount, U64
  <1>3. n \in Nat /\ n <= token[w] /\ n <= supply
    BY <1>1, U64MaxAssumption DEF U64, Burn
  <1>4. stake[addr].withdrawer = WithdrawAuthority /\ new.lamports = l
    BY <1>1, <1>2, AuthorizedBothFacts, CanAuthorizeBothFacts
  <1> HIDE DEF new
  <1>5. stake'[addr] = new /\ \A x \in StakeAddrs \ {addr} : stake'[x] = stake[x]
    BY <1>1, <1>2
  <1>6. CustodyLamports(addr) = l /\ CustodyLamports(addr)' \in {0, l}
    BY <1>4, <1>5 DEF CustodyLamports
  <1>7. \A x \in StakeAddrs \ {addr} :
          CustodyLamports(x)' = CustodyLamports(x) /\ CustodyLamports(x) \in Nat
    BY <1>2, <1>5, CustodyFacts DEF CustodyLamports
  <1> HIDE DEF addr, l, n
  <1>8. CustodyTaken(addr, l)
    <2>1. /\ l <= CustodyLamports(addr) /\ CustodyLamports(addr)' \in Nat
          /\ CustodyLamports(addr)' >= CustodyLamports(addr) - l
      BY <1>2, <1>6
    <2>2. \A x \in StakeAddrs \ {addr} :
            CustodyLamports(x)' \in Nat /\ CustodyLamports(x)' >= CustodyLamports(x)
      BY <1>7
    <2>3. QED BY <2>1, <2>2 DEF CustodyTaken
  <1>9. ~Contains(list', v)
    BY <1>1, RetainFacts DEF IInv, TypeOK
  <1>10. BooksMove(v, -l)
    <2>1. Booked(v) = l /\ Booked(v)' = 0
      BY <1>1, <1>6, <1>9 DEF Booked, addr
    <2>2. ASSUME NEW x \in Validators \ {v} PROVE Booked(x)' = Booked(x)
      <3>1. Contains(list', x) <=> Contains(list, x)
        BY <1>1 DEF Contains, Retain
      <3>2. StakeAddress(x) \in StakeAddrs \ {addr}
        BY AddressFacts DEF addr
      <3>3. QED BY <1>7, <3>1, <3>2 DEF Booked
    <2>3. Booked(v)' = Booked(v) + (-l)
      BY <1>2, <2>1
    <2>4. QED BY <1>9, <2>2, <2>3 DEF BooksMove, Contains
  <1>11. /\ pool'.pool_total = Sub64(pool.pool_total, n)
         /\ pool'.stake_total = Sub64(pool.stake_total, l)
    BY <1>1, <1>2, DebitFacts
  <1>12. ~KeepsRecords
    BY <1>1, <1>9 DEF KeepsRecords, Contains
  <1>13. Removed(w, v, n, l)
    BY <1>1, <1>2, <1>3, <1>6, <1>8, <1>10, <1>11, <1>12
       DEF Removed, Left, Burn, n, addr
  <1>14. QED BY <1>2, <1>3, <1>13

\* Steps that rewrite one account: if the pool holds it, it still does and
\* nothing is taken out.
LEMMA OneAccountArrives ==
  ASSUME IInv, NEW addr \in StakeAddrs, NEW new \in StakeAccount,
         stake' = [stake EXCEPT ![addr] = new],
         stake[addr].withdrawer = WithdrawAuthority =>
           /\ new.withdrawer = WithdrawAuthority
           /\ new.lamports >= stake[addr].lamports,
         UNCHANGED <<pool, list, token, supply>>
  PROVE  Arrived
  <1>1. /\ TypeOK /\ stake \in [StakeAddrs -> StakeAccount]
        /\ new.lamports \in Nat /\ stake[addr].lamports \in Nat
    BY U64MaxAssumption DEF IInv, TypeOK, StakeAccount, U64
  <1>2. ASSUME NEW x \in StakeAddrs
        PROVE  CustodyLamports(x)' \in Nat
               /\ CustodyLamports(x)' >= CustodyLamports(x)
    <2>1. CustodyLamports(x) \in Nat
      BY <1>1, CustodyFacts
    <2>2. CASE x = addr
      BY <1>1, <2>2 DEF CustodyLamports
    <2>3. CASE x # addr
      <3>1. stake'[x] = stake[x]
        BY <1>1, <2>3
      <3>2. QED BY <2>1, <3>1 DEF CustodyLamports
    <2>4. QED BY <2>2, <2>3
  <1>3. QED BY <1>2 DEF Arrived

\* CreateValidatorStakeAccount writes an address without an account, which
\* is in nobody's custody; whose it is afterwards is the caller's choice.
LEMMA CreateArrives ==
  ASSUME IInv, EmptyIsNoAccount, NEW v \in Validators,
         NEW k \in Keys, NEW w \in Keys,
         process_create_validator_stake_account(v, k, w)
  PROVE  Arrived
  <1> DEFINE addr == StakeAddress(v)
             new == [state |-> "Initialized", lamports |-> OneSol + RentReserve,
                     staker |-> k, withdrawer |-> w, voter |-> NoKey]
  <1>1. /\ stake[addr].state = "None"
        /\ stake' = [stake EXCEPT ![addr] = new]
        /\ UNCHANGED <<pool, list, token, supply>>
    BY DEF process_create_validator_stake_account
  <1>2. new \in StakeAccount /\ addr \in StakeAddrs
    BY PoolAssumption, AddressFacts DEF StakeAccount
  <1>3. stake[addr].withdrawer # WithdrawAuthority
    BY <1>1, <1>2, NoAccountFacts, KeyAssumption DEF EmptyIsNoAccount, Keys
  <1> HIDE DEF new, addr
  <1>4. QED BY <1>1, <1>2, <1>3, OneAccountArrives

\* SetStakingAuthority keeps the withdrawer and the lamports.
LEMMA SetStakingAuthArrives ==
  ASSUME IInv, NEW u \in Users, NEW addr \in StakeAddrs, NEW k \in Keys,
         process_set_staking_auth(u, addr, k)
  PROVE  Arrived
  <1> DEFINE new == Authorized(stake[addr], k, "Staker")
  <1>1. /\ stake' = [stake EXCEPT ![addr] = new]
        /\ UNCHANGED <<pool, list, token, supply>>
    BY DEF process_set_staking_auth
  <1>2. stake[addr] \in StakeAccount /\ stake[addr].lamports \in Nat
    BY U64MaxAssumption DEF IInv, TypeOK, StakeAccount, U64
  <1>3. /\ new \in StakeAccount /\ new.withdrawer = stake[addr].withdrawer
        /\ new.lamports = stake[addr].lamports
    BY <1>2, AuthorizedFacts
  <1> HIDE DEF new
  <1>4. new.lamports >= stake[addr].lamports
    BY <1>2, <1>3
  <1>5. QED BY <1>1, <1>3, <1>4, OneAccountArrives

\* Wallets take out or hand over only what they are the withdrawer of, which
\* is not in custody; as stakers they redelegate.
LEMMA UserStakeArrives ==
  ASSUME IInv, EmptyIsNoAccount, NEW u \in Users, NEW addr \in StakeAddrs,
         \/ \E v \in Validators, n \in UserDeposits :
              UserCreatesStake(u, addr, v, n)
         \/ \E v \in Validators : UserDelegates(u, addr, v)
         \/ \E key \in Keys, kind \in {"Staker", "Withdrawer"} :
              UserAuthorizes(u, addr, key, kind)
         \/ UserClosesStake(u, addr)
  PROVE  Arrived
  <1>1. /\ stake \in [StakeAddrs -> StakeAccount] /\ stake[addr] \in StakeAccount
        /\ WithdrawAuthority # u /\ NoKey # WithdrawAuthority
        /\ stake[addr].lamports \in Nat
        /\ stake[addr].lamports >= stake[addr].lamports
    BY KeyAssumption, U64MaxAssumption DEF IInv, TypeOK, Keys, StakeAccount, U64
  <1>2. ASSUME NEW v \in Validators, NEW n \in UserDeposits,
               UserCreatesStake(u, addr, v, n)
        PROVE  Arrived
    <2> DEFINE new == [state |-> "Stake", lamports |-> n, staker |-> u,
                       withdrawer |-> u, voter |-> v]
    <2>1. new \in StakeAccount
      BY <1>1, PoolAssumption DEF StakeAccount, Keys
    <2>2. /\ stake[addr].state = "None"
          /\ stake' = [stake EXCEPT ![addr] = new]
          /\ UNCHANGED <<pool, list, token, supply>>
      BY <1>2 DEF UserCreatesStake
    <2>3. stake[addr].withdrawer # WithdrawAuthority
      BY <1>1, <2>2, NoAccountFacts DEF EmptyIsNoAccount
    <2> HIDE DEF new
    <2>4. QED BY <2>1, <2>2, <2>3, OneAccountArrives
  <1>3. ASSUME NEW v \in Validators, UserDelegates(u, addr, v)
        PROVE  Arrived
    <2> DEFINE new == [stake[addr] EXCEPT !.state = "Stake", !.voter = v]
    <2>1. /\ new \in StakeAccount /\ new.withdrawer = stake[addr].withdrawer
          /\ new.lamports = stake[addr].lamports
      BY <1>1 DEF StakeAccount
    <2>2. /\ stake' = [stake EXCEPT ![addr] = new]
          /\ UNCHANGED <<pool, list, token, supply>>
      BY <1>1, <1>3 DEF UserDelegates
    <2> HIDE DEF new
    <2>3. QED BY <1>1, <2>1, <2>2, OneAccountArrives
  <1>4. ASSUME NEW key \in Keys, NEW kind \in {"Staker", "Withdrawer"},
               UserAuthorizes(u, addr, key, kind)
        PROVE  Arrived
    <2> DEFINE new == Authorized(stake[addr], key, kind)
    <2>1. /\ stake' = [stake EXCEPT ![addr] = new]
          /\ CanAuthorize(stake[addr], u, kind)
          /\ UNCHANGED <<pool, list, token, supply>>
      BY <1>4 DEF UserAuthorizes
    <2>2. /\ new \in StakeAccount /\ new.lamports = stake[addr].lamports
          /\ new.withdrawer = IF kind = "Staker" THEN stake[addr].withdrawer
                              ELSE key
      BY <1>1, AuthorizedFacts
    <2>3. stake[addr].withdrawer = WithdrawAuthority => kind = "Staker"
      BY <1>1, <2>1 DEF CanAuthorize
    <2> HIDE DEF new
    <2>4. QED BY <1>1, <2>1, <2>2, <2>3, OneAccountArrives
  <1>5. ASSUME UserClosesStake(u, addr)
        PROVE  Arrived
    <2>1. /\ stake' = [stake EXCEPT ![addr] = NoAccount]
          /\ stake[addr].withdrawer # WithdrawAuthority
          /\ UNCHANGED <<pool, list, token, supply>>
      BY <1>1, <1>5 DEF UserClosesStake
    <2>2. QED BY <2>1, NoAccountFacts, OneAccountArrives
  <1>6. QED BY <1>2, <1>3, <1>4, <1>5

\* A staker that splits an account of the pool leaves both parts with it.
LEMMA UserSplitsMoves ==
  ASSUME IInv, EmptyIsNoAccount, NEW u \in Users, NEW addr \in StakeAddrs,
         NEW dest \in UserStakes, NEW n \in U64, UserSplits(u, addr, dest, n)
  PROVE  \E p, q \in StakeAddrs : \E l \in Nat : Moved(p, q, l)
  <1> DEFINE a == stake[addr]
             rest == SplitSource(a, n)
             split == SplitTarget(a, n)
             l == IF a.withdrawer = WithdrawAuthority THEN n ELSE 0
  <1>1. /\ stake[dest].state = "None" /\ CanSplit(a, u, n)
        /\ stake' = [stake EXCEPT ![addr] = rest, ![dest] = split]
        /\ UNCHANGED <<pool, list, token, supply>>
    BY DEF UserSplits
  <1>2. /\ TypeOK /\ dest \in StakeAddrs /\ a \in StakeAccount
        /\ stake \in [StakeAddrs -> StakeAccount]
        /\ n \in Nat /\ a.lamports \in Nat /\ RentReserve \in Nat
        /\ NoKey # WithdrawAuthority
    BY AddressFacts, RentAssumption, U64MaxAssumption, KeyAssumption
       DEF IInv, TypeOK, StakeAccount, U64, Keys
  <1>3. addr # dest /\ n <= a.lamports
    BY <1>1 DEF CanSplit
  <1>4. /\ rest.lamports = a.lamports - n
        /\ rest.withdrawer \in {a.withdrawer, NoKey}
        /\ n # a.lamports => rest.withdrawer = a.withdrawer
        /\ split.withdrawer = a.withdrawer
    BY <1>1, <1>2, SplitFacts
  <1>5. split.lamports = n + RentReserve
    BY <1>2 DEF SplitTarget, StakeAccount
  <1> HIDE DEF rest, split
  <1>6. /\ stake'[addr] = rest /\ stake'[dest] = split
        /\ \A x \in StakeAddrs \ {addr, dest} : stake'[x] = stake[x]
    BY <1>1, <1>2, <1>3
  <1>7. CustodyLamports(dest) = 0
    BY <1>1, <1>2, EmptyCustody
  <1>8. /\ CustodyLamports(addr)' = CustodyLamports(addr) - l
        /\ l \in Nat /\ l <= CustodyLamports(addr)
        /\ CustodyLamports(addr) \in Nat
    <2>1. CASE a.withdrawer = WithdrawAuthority /\ n = a.lamports
      <3>1. rest.lamports = 0 /\ a.lamports - n = 0
        BY <1>2, <1>4, <2>1
      <3>2. QED BY <1>2, <1>6, <2>1, <3>1 DEF CustodyLamports
    <2>2. CASE a.withdrawer = WithdrawAuthority /\ n # a.lamports
      BY <1>2, <1>3, <1>4, <1>6, <2>2 DEF CustodyLamports
    <2>3. CASE a.withdrawer # WithdrawAuthority
      BY <1>2, <1>4, <1>6, <2>3 DEF CustodyLamports
    <2>4. QED BY <2>1, <2>2, <2>3
  <1>9. CustodyLamports(dest)' >= l /\ CustodyLamports(dest)' \in Nat
    BY <1>2, <1>4, <1>5, <1>6 DEF CustodyLamports
  <1>10. \A x \in StakeAddrs \ {addr, dest} :
           CustodyLamports(x)' = CustodyLamports(x) /\ CustodyLamports(x) \in Nat
    BY <1>2, <1>6, CustodyFacts DEF CustodyLamports
  <1> HIDE DEF a, l
  <1>11. CustodyTaken(addr, l)
    <2>1. /\ CustodyLamports(addr)' \in Nat
          /\ CustodyLamports(addr)' >= CustodyLamports(addr) - l
      BY <1>8
    <2>2. \A x \in StakeAddrs \ {addr} :
            CustodyLamports(x)' \in Nat /\ CustodyLamports(x)' >= CustodyLamports(x)
      BY <1>7, <1>9, <1>10
    <2>3. QED BY <1>8, <2>1, <2>2 DEF CustodyTaken
  <1>12. CustodyLamports(dest)' >= CustodyLamports(dest) + l
    BY <1>7, <1>8, <1>9
  <1>13. Moved(addr, dest, l)
    BY <1>1, <1>3, <1>8, <1>11, <1>12 DEF Moved
  <1>14. QED BY <1>2, <1>8, <1>13

\* A staker that merges two accounts of the pool leaves the sum with it.
LEMMA UserMergesMoves ==
  ASSUME IInv, NEW u \in Users, NEW addr \in StakeAddrs,
         NEW source \in StakeAddrs, UserMerges(u, addr, source)
  PROVE  \E p, q \in StakeAddrs : \E l \in Nat : Moved(p, q, l)
  <1> DEFINE merged == Merged(stake[addr], stake[source])
             l == CustodyLamports(source)
  <1>1. /\ addr # source /\ CanMerge(stake[addr], stake[source], u)
        /\ stake' = [stake EXCEPT ![addr] = merged, ![source] = NoAccount]
        /\ UNCHANGED <<pool, list, token, supply>>
    BY DEF UserMerges
  <1>2. /\ TypeOK /\ stake \in [StakeAddrs -> StakeAccount]
        /\ stake[addr] \in StakeAccount /\ stake[source] \in StakeAccount
        /\ stake[addr].lamports \in Nat /\ stake[source].lamports \in Nat
    BY U64MaxAssumption DEF IInv, TypeOK, StakeAccount, U64
  <1>3. /\ merged.lamports = stake[addr].lamports + stake[source].lamports
        /\ merged.withdrawer = stake[addr].withdrawer
        /\ stake[source].withdrawer = stake[addr].withdrawer
    BY <1>1, <1>2, MergedFacts DEF CanMerge
  <1> HIDE DEF merged
  <1>4. /\ stake'[addr] = merged /\ stake'[source] = NoAccount
        /\ \A x \in StakeAddrs \ {addr, source} : stake'[x] = stake[x]
    BY <1>1, <1>2
  <1>5. /\ CustodyLamports(addr) \in Nat /\ l \in Nat
        /\ \A x \in StakeAddrs : CustodyLamports(x) \in Nat
    BY <1>2, CustodyFacts
  <1>6. CustodyLamports(source)' = 0
    BY <1>4, NoAccountFacts DEF CustodyLamports
  <1>7. CustodyLamports(addr)' = CustodyLamports(addr) + l
    BY <1>2, <1>3, <1>4 DEF CustodyLamports
  <1>8. \A x \in StakeAddrs \ {addr, source} :
          CustodyLamports(x)' = CustodyLamports(x)
    BY <1>4 DEF CustodyLamports
  <1>9. l = CustodyLamports(source)
    OBVIOUS
  <1> HIDE DEF l
  <1>10. CustodyTaken(source, l)
    <2>1. \A x \in StakeAddrs \ {source} :
            CustodyLamports(x)' \in Nat /\ CustodyLamports(x)' >= CustodyLamports(x)
      BY <1>5, <1>7, <1>8
    <2>2. QED BY <1>5, <1>6, <1>9, <2>1 DEF CustodyTaken
  <1>11. /\ CustodyLamports(source)' = CustodyLamports(source) - l
         /\ CustodyLamports(addr)' >= CustodyLamports(addr) + l
    BY <1>5, <1>6, <1>7, <1>9
  <1>12. Moved(source, addr, l)
    BY <1>1, <1>10, <1>11 DEF Moved
  <1>13. QED BY <1>5, <1>12

\* Plain transfers only add.
LEMMA OutsideTransferArrives ==
  ASSUME IInv, NEW addr \in StakeAddrs, NEW n \in OutsideTransfers,
         OutsideTransfer(addr, n)
  PROVE  Arrived
  <1> DEFINE new == [stake[addr] EXCEPT !.lamports = @ + n]
  <1>1. /\ n \in Nat /\ stake[addr] \in StakeAccount
        /\ stake \in [StakeAddrs -> StakeAccount]
        /\ stake[addr].lamports \in Nat
    BY PoolAssumption, U64MaxAssumption DEF IInv, TypeOK, StakeAccount, U64
  <1>2. /\ new \in StakeAccount /\ new.withdrawer = stake[addr].withdrawer
        /\ new.lamports >= stake[addr].lamports
    BY <1>1 DEF OutsideTransfer, StakeAccount
  <1>3. /\ stake' = [stake EXCEPT ![addr] = new]
        /\ UNCHANGED <<pool, list, token, supply>>
    BY <1>1 DEF OutsideTransfer
  <1> HIDE DEF new
  <1>4. QED BY <1>2, <1>3, OneAccountArrives

\* So do rewards.
LEMMA NextEpochArrives ==
  ASSUME IInv, NEW paid \in SUBSET StakeAddrs, NextEpoch(paid)
  PROVE  Arrived
  <1>1. /\ stake' = [x \in StakeAddrs |->
                       IF x \in paid
                       THEN [stake[x] EXCEPT !.lamports = @ + Reward]
                       ELSE stake[x]]
        /\ UNCHANGED <<pool, list, token, supply>>
    BY DEF NextEpoch
  <1>2. ASSUME NEW x \in StakeAddrs
        PROVE  CustodyLamports(x)' \in Nat
               /\ CustodyLamports(x)' >= CustodyLamports(x)
    <2>1. /\ stake[x] \in StakeAccount
          /\ stake[x].lamports \in Nat /\ Reward \in Nat
      BY PoolAssumption, U64MaxAssumption DEF IInv, TypeOK, StakeAccount, U64
    <2>2. /\ stake'[x].withdrawer = stake[x].withdrawer
          /\ stake'[x].lamports \in Nat
          /\ stake'[x].lamports >= stake[x].lamports
      BY <1>1, <2>1 DEF StakeAccount
    <2>3. QED BY <2>1, <2>2 DEF CustodyLamports
  <1>3. QED BY <1>1, <1>2 DEF Arrived

\* A holder burns tokens of its own.
LEMMA UserBurnsDiscards ==
  ASSUME NEW u \in Users, NEW n \in Nat, UserBurns(u, n)
  PROVE  Discarded(u, n)
  BY DEF UserBurns, Burn, Discarded

\* Initialize, SetOwner: the two counters stay.
LEMMA AccountStepsRevalue ==
  ASSUME IInv, NEW u \in Users,
         \/ \E fee \in Fees : process_initialize(u, fee)
         \/ \E w, f \in Users : process_set_owner(u, w, f)
  PROVE  Revalued
  <1>1. pool \in StakePoolAccount /\ pool.stake_total \in U64
    BY DEF IInv, TypeOK, StakePoolAccount
  <1>2. ASSUME NEW fee \in Fees, process_initialize(u, fee)
        PROVE  Revalued
    <2>1. list = {}
      <3>1. pool.version \in {0, 1}
        BY <1>1 DEF StakePoolAccount
      <3>2. ~(pool.version > 0)
        BY <1>2 DEF process_initialize, IsInitialized
      <3>3. pool.version = 0
        BY <3>1, <3>2
      <3>4. QED BY <3>3 DEF IInv
    <2>2. /\ pool'.stake_total = pool.stake_total
          /\ pool'.pool_total = pool.pool_total
          /\ UNCHANGED <<token, supply, stake>>
      BY <1>1, <1>2 DEF process_initialize, StakePoolAccount
    <2>3. QED BY <1>1, <2>1, <2>2 DEF Revalued, KeepsRecords
  <1>3. ASSUME NEW w \in Users, NEW f \in Users, process_set_owner(u, w, f)
        PROVE  Revalued
    <2>1. /\ pool'.stake_total = pool.stake_total
          /\ pool'.pool_total = pool.pool_total
          /\ UNCHANGED <<token, supply, stake, list>>
      BY <1>1, <1>3 DEF process_set_owner, StakePoolAccount
    <2>2. QED BY <1>1, <2>1 DEF Revalued, KeepsRecords, Contains
  <1>4. QED BY <1>2, <1>3

\* Updating records keeps their keys.
LEMMA UpdateKeepsRecords ==
  ASSUME IInv, NEW accounts \in UpdateArguments,
         list' = {UpdatedRecord(r, accounts) : r \in list}
  PROVE  KeepsRecords
  <1> DEFINE F(r) == UpdatedRecord(r, accounts)
  <1>1. \A r \in list : F(r).validator_account = r.validator_account
    BY UpdatedRecordFacts DEF IInv
  <1>2. list' = {F(r) : r \in list}
    OBVIOUS
  <1> HIDE DEF F
  <1>3. QED BY <1>1, <1>2 DEF KeepsRecords, Contains

\* UpdateListBalance, UpdatePoolBalance and the clients' update.
LEMMA UpdatesRevalue ==
  ASSUME IInv,
         \/ \E accounts \in UpdateArguments : process_update_list_balance(accounts)
         \/ process_update_pool_balance
         \/ UpdateTransaction
  PROVE  Revalued
  <1>1. pool \in StakePoolAccount /\ pool.stake_total \in U64
    BY DEF IInv, TypeOK, StakePoolAccount
  <1>2. ASSUME NEW accounts \in UpdateArguments,
               process_update_list_balance(accounts)
        PROVE  Revalued
    <2>1. /\ list' = {UpdatedRecord(r, accounts) : r \in list}
          /\ UNCHANGED <<pool, token, supply, stake>>
      BY <1>2 DEF process_update_list_balance
    <2>2. KeepsRecords
      BY <2>1, UpdateKeepsRecords
    <2>3. QED BY <1>1, <2>1, <2>2 DEF Revalued
  <1>3. CASE process_update_pool_balance
    <2> DEFINE total == SumBalances(list)
    <2>1. /\ total \in U64
          /\ pool' = [pool EXCEPT !.stake_total = total, !.last_update_epoch = epoch]
          /\ UNCHANGED <<list, token, supply, stake>>
      BY <1>3 DEF process_update_pool_balance
    <2> HIDE DEF total
    <2>2. pool'.stake_total = total /\ pool'.pool_total = pool.pool_total
      BY <1>1, <2>1 DEF StakePoolAccount
    <2>3. QED BY <2>1, <2>2 DEF Revalued, KeepsRecords, Contains
  <1>4. CASE UpdateTransaction
    <2> DEFINE updated == {UpdatedRecord(r, Validators) : r \in list}
               total == SumBalances(updated)
    <2>1. /\ total \in U64 /\ list' = updated
          /\ pool' = [pool EXCEPT !.stake_total = total, !.last_update_epoch = epoch]
          /\ UNCHANGED <<token, supply, stake>>
      BY <1>4 DEF UpdateTransaction
    <2>2. Validators \in UpdateArguments
      BY DEF UpdateArguments
    <2>3. KeepsRecords
      BY <2>1, <2>2, UpdateKeepsRecords
    <2> HIDE DEF total, updated
    <2>4. pool'.stake_total = total /\ pool'.pool_total = pool.pool_total
      BY <1>1, <2>1 DEF StakePoolAccount
    <2>5. QED BY <2>1, <2>3, <2>4 DEF Revalued
  <1>5. QED BY <1>2, <1>3, <1>4

\* Every step of the pool, its users and the cluster has one of the shapes.
LEMMA NextVaultStep ==
  ASSUME IInv, EmptyIsNoAccount, Next
  PROVE  VaultStep
  <1>1. token \in [Users -> Nat] /\ Authorities \subseteq Keys
        /\ Stakers \subseteq Keys /\ SplitSizes \subseteq U64
        /\ UserStakes \subseteq StakeAddrs
    BY PoolAssumption, AddressFacts DEF IInv, TypeOK
  <1>2. CASE OwnerNext
    <2>1. PICK u \in Users :
            \/ \E fee \in Fees : process_initialize(u, fee)
            \/ \E v \in Validators, w \in Users :
                 process_add_validator_stake_account(u, v, w)
            \/ \E w \in Users, v \in Validators, k \in Authorities :
                 process_remove_validator_stake_account(u, w, v, k)
            \/ \E addr \in StakeAddrs, k \in Stakers :
                 process_set_staking_auth(u, addr, k)
            \/ \E w, f \in Users : process_set_owner(u, w, f)
      BY <1>2 DEF OwnerNext
    <2>2. CASE \/ \E fee \in Fees : process_initialize(u, fee)
               \/ \E w, f \in Users : process_set_owner(u, w, f)
      BY <2>2, AccountStepsRevalue DEF VaultStep
    <2>3. ASSUME NEW v \in Validators, NEW w \in Users,
                 process_add_validator_stake_account(u, v, w)
          PROVE  VaultStep
      BY <2>3, AddIsEnter DEF VaultStep
    <2>4. ASSUME NEW w \in Users, NEW v \in Validators, NEW k \in Authorities,
                 process_remove_validator_stake_account(u, w, v, k)
          PROVE  VaultStep
      <3>1. k \in Keys
        BY <1>1
      <3>2. QED BY <2>4, <3>1, RemoveIsExit DEF VaultStep
    <2>5. ASSUME NEW addr \in StakeAddrs, NEW k \in Stakers,
                 process_set_staking_auth(u, addr, k)
          PROVE  VaultStep
      <3>1. k \in Keys
        BY <1>1
      <3>2. QED BY <2>5, <3>1, SetStakingAuthArrives DEF VaultStep
    <2>6. QED BY <2>1, <2>2, <2>3, <2>4, <2>5
  <1>3. CASE AnyoneNext
    <2>1. ASSUME NEW v \in Validators, NEW k \in Authorities,
                 NEW w \in Authorities,
                 process_create_validator_stake_account(v, k, w)
          PROVE  VaultStep
      <3>1. k \in Keys /\ w \in Keys
        BY <1>1
      <3>2. QED BY <2>1, <3>1, CreateArrives DEF VaultStep
    <2>2. CASE \/ \E accounts \in UpdateArguments :
                    process_update_list_balance(accounts)
               \/ process_update_pool_balance
               \/ CliUpdate
               \/ \E force \in BOOLEAN : MetacliUpdate(force)
      BY <2>2, UpdatesRevalue DEF VaultStep, CliUpdate, MetacliUpdate
    <2>3. ASSUME NEW addr \in StakeAddrs, NEW v \in Validators, NEW u \in Users,
                 process_deposit(addr, v, u)
          PROVE  VaultStep
      BY <2>3, DepositIsEnter DEF VaultStep
    <2>4. ASSUME NEW u \in Users, NEW v \in Validators, NEW addr \in UserStakes,
                 NEW k \in Authorities, NEW n \in 1 .. token[u],
                 process_withdraw(u, v, addr, k, n)
          PROVE  VaultStep
      <3>1. n \in Nat /\ k \in Keys
        BY <1>1
      <3>2. QED BY <2>4, <3>1, WithdrawIsExit DEF VaultStep
    <2>5. QED BY <1>3, <2>1, <2>2, <2>3, <2>4 DEF AnyoneNext
  <1>4. CASE EnvironmentNext
    <2>1. ASSUME NEW u \in Users, NEW addr \in UserStakes, NEW v \in Validators,
                 NEW n \in UserDeposits, UserCreatesStake(u, addr, v, n)
          PROVE  VaultStep
      <3>1. addr \in StakeAddrs
        BY <1>1
      <3>2. QED BY <2>1, <3>1, UserStakeArrives DEF VaultStep
    <2>2. ASSUME NEW u \in Users, NEW addr \in StakeAddrs, UserNext(u, addr)
          PROVE  VaultStep
      <3>1. CASE \/ \E v \in Validators : UserDelegates(u, addr, v)
                 \/ \E key \in Authorities, kind \in {"Staker", "Withdrawer"} :
                      UserAuthorizes(u, addr, key, kind)
                 \/ UserClosesStake(u, addr)
        BY <1>1, <3>1, UserStakeArrives DEF VaultStep
      <3>2. ASSUME NEW dest \in UserStakes, NEW n \in SplitSizes,
                   UserSplits(u, addr, dest, n)
            PROVE  VaultStep
        <4>1. n \in U64
          BY <1>1
        <4>2. QED BY <3>2, <4>1, UserSplitsMoves DEF VaultStep
      <3>3. ASSUME NEW source \in StakeAddrs, UserMerges(u, addr, source)
            PROVE  VaultStep
        BY <3>3, UserMergesMoves DEF VaultStep
      <3>4. QED BY <2>2, <3>1, <3>2, <3>3 DEF UserNext
    <2>3. ASSUME NEW addr \in StakeAddrs, NEW n \in OutsideTransfers,
                 OutsideTransfer(addr, n)
          PROVE  VaultStep
      BY <2>3, OutsideTransferArrives DEF VaultStep
    <2>4. ASSUME NEW u \in Users, NEW n \in 1 .. token[u], UserBurns(u, n)
          PROVE  VaultStep
      <3>1. n \in Nat
        BY <1>1
      <3>2. QED BY <2>4, <3>1, UserBurnsDiscards DEF VaultStep
    <2>5. ASSUME NEW paid \in SUBSET StakeAddrs, NextEpoch(paid)
          PROVE  VaultStep
      BY <2>5, NextEpochArrives DEF VaultStep
    <2>6. QED BY <1>4, <2>1, <2>2, <2>3, <2>4, <2>5 DEF EnvironmentNext
  <1>5. QED BY <1>2, <1>3, <1>4 DEF Next

-----------------------------------------------------------------------------
(***************************************************************************)
(* EmptyIsNoAccount is inductive, given IInv.                              *)
(***************************************************************************)

\* A step keeps it if an account that changes has a state afterwards, or is
\* dropped.
LEMMA EmptyKept ==
  ASSUME EmptyIsNoAccount,
         \A x \in StakeAddrs : \/ stake'[x] = stake[x]
                               \/ stake'[x].state # "None"
                               \/ stake'[x] = NoAccount
  PROVE  EmptyIsNoAccount'
  BY DEF EmptyIsNoAccount

\* The same for a step that writes one address.
LEMMA EmptyKeptByOne ==
  ASSUME IInv, EmptyIsNoAccount, NEW addr \in StakeAddrs, NEW new,
         stake' = [stake EXCEPT ![addr] = new],
         new.state # "None" \/ new = NoAccount
  PROVE  EmptyIsNoAccount'
  <1>1. stake \in [StakeAddrs -> StakeAccount]
    BY DEF IInv, TypeOK
  <1>2. \A x \in StakeAddrs : \/ stake'[x] = stake[x]
                              \/ stake'[x].state # "None"
                              \/ stake'[x] = NoAccount
    BY <1>1
  <1>3. QED BY <1>2, EmptyKept

\* The same for a step that writes two.
LEMMA EmptyKeptByTwo ==
  ASSUME IInv, EmptyIsNoAccount, NEW a \in StakeAddrs, NEW b \in StakeAddrs,
         NEW x, NEW y,
         stake' = [stake EXCEPT ![a] = x, ![b] = y],
         x.state # "None" \/ x = NoAccount, y.state # "None" \/ y = NoAccount
  PROVE  EmptyIsNoAccount'
  <1>1. stake \in [StakeAddrs -> StakeAccount]
    BY DEF IInv, TypeOK
  <1>2. \A z \in StakeAddrs : \/ stake'[z] = stake[z]
                              \/ stake'[z].state # "None"
                              \/ stake'[z] = NoAccount
    BY <1>1
  <1>3. QED BY <1>2, EmptyKept

\* What AuthorizedBoth, Authorized and a split make of an account that is
\* there.
LEMMA StateKept ==
  ASSUME NEW a \in StakeAccount, NEW k \in Keys, NEW kind, NEW n \in U64,
         NEW u, a.state # "None"
  PROVE  /\ AuthorizedBoth(a, k).state # "None"
         /\ Authorized(a, k, kind).state # "None"
         /\ CanSplit(a, u, n) =>
              /\ SplitSource(a, n).state # "None" \/ SplitSource(a, n) = NoAccount
              /\ SplitTarget(a, n).state # "None"
              /\ AuthorizedBoth(SplitTarget(a, n), k).state # "None"
  <1>1. /\ AuthorizedBoth(a, k).state # "None"
        /\ Authorized(a, k, kind).state # "None"
    BY AuthorizedBothFacts, AuthorizedFacts
  <1>2. ASSUME CanSplit(a, u, n)
        PROVE  /\ SplitSource(a, n).state # "None" \/ SplitSource(a, n) = NoAccount
               /\ SplitTarget(a, n).state # "None"
               /\ AuthorizedBoth(SplitTarget(a, n), k).state # "None"
    <2>1. SplitSource(a, n).state # "None" \/ SplitSource(a, n) = NoAccount
      BY DEF SplitSource, StakeAccount
    <2>2. SplitTarget(a, n) \in StakeAccount
      BY <1>2, SplitFacts
    <2>3. SplitTarget(a, n).state # "None"
      BY DEF SplitTarget, StakeAccount
    <2>4. QED BY <2>1, <2>2, <2>3, AuthorizedBothFacts
  <1>3. QED BY <1>1, <1>2

\* The instructions of the pool that change who holds lamports.
LEMMA PoolKeepsEmpty ==
  ASSUME IInv, EmptyIsNoAccount, NEW u \in Users, NEW v \in Validators,
         NEW k \in Keys,
         \/ \E w \in Users : process_add_validator_stake_account(u, v, w)
         \/ \E w \in Users : process_remove_validator_stake_account(u, w, v, k)
         \/ \E addr \in StakeAddrs : process_deposit(addr, v, u)
         \/ \E addr \in UserStakes : \E n \in Nat :
              process_withdraw(u, v, addr, k, n)
  PROVE  EmptyIsNoAccount'
  <1> DEFINE here == StakeAddress(v)
  <1>1. /\ here \in StakeAddrs /\ stake[here] \in StakeAccount
        /\ stake \in [StakeAddrs -> StakeAccount]
        /\ UserStakes \subseteq StakeAddrs /\ 0 \in U64
        /\ WithdrawAuthority \in Keys
    BY AddressFacts, U64MaxAssumption DEF IInv, TypeOK, U64, Keys
  <1>2. ASSUME NEW w \in Users, process_add_validator_stake_account(u, v, w)
        PROVE  EmptyIsNoAccount'
    <2>1. /\ stake[here].state # "None"
          /\ stake' = [stake EXCEPT ![here] =
                         AuthorizedBoth(stake[here], WithdrawAuthority)]
      BY <1>2 DEF process_add_validator_stake_account, DelegatedTo
    <2>2. AuthorizedBoth(stake[here], WithdrawAuthority).state # "None"
      BY <1>1, <2>1, StateKept
    <2>3. QED BY <1>1, <2>1, <2>2, EmptyKeptByOne
  <1>3. ASSUME NEW w \in Users, process_remove_validator_stake_account(u, w, v, k)
        PROVE  EmptyIsNoAccount'
    <2>1. /\ stake[here].state # "None"
          /\ stake' = [stake EXCEPT ![here] = AuthorizedBoth(stake[here], k)]
      BY <1>3 DEF process_remove_validator_stake_account, DelegatedTo
    <2>2. AuthorizedBoth(stake[here], k).state # "None"
      BY <1>1, <2>1, StateKept
    <2>3. QED BY <1>1, <2>1, <2>2, EmptyKeptByOne
  <1>4. ASSUME NEW addr \in StakeAddrs, process_deposit(addr, v, u)
        PROVE  EmptyIsNoAccount'
    <2> DEFINE merged == Merged(stake[here],
                                AuthorizedBoth(stake[addr], WithdrawAuthority))
    <2>1. /\ stake[here].state # "None"
          /\ stake' = [stake EXCEPT ![here] = merged, ![addr] = NoAccount]
      BY <1>4 DEF process_deposit, DelegatedTo
    <2>2. merged.state = stake[here].state
      BY <1>1 DEF Merged, StakeAccount
    <2> HIDE DEF merged
    <2>3. QED BY <1>1, <2>1, <2>2, EmptyKeptByTwo
  <1>5. ASSUME NEW addr \in UserStakes, NEW n \in Nat,
               process_withdraw(u, v, addr, k, n)
        PROVE  EmptyIsNoAccount'
    <2> DEFINE l == calc_lamports_amount(pool, n)
               rest == SplitSource(stake[here], l)
               out == AuthorizedBoth(SplitTarget(stake[here], l), k)
    <2>1. /\ stake[here].state # "None" /\ l \in U64
          /\ CanSplit(stake[here], WithdrawAuthority, l)
          /\ stake' = [stake EXCEPT ![here] = rest, ![addr] = out]
      BY <1>5 DEF process_withdraw, DelegatedTo
    <2> HIDE DEF l
    <2>2. /\ rest.state # "None" \/ rest = NoAccount
          /\ out.state # "None"
      BY <1>1, <2>1, StateKept
    <2> HIDE DEF rest, out
    <2>3. QED BY <1>1, <2>1, <2>2, EmptyKeptByTwo
  <1>6. QED BY <1>2, <1>3, <1>4, <1>5

\* What a wallet does to an account that is there.
LEMMA UserKeepsEmpty ==
  ASSUME IInv, EmptyIsNoAccount, NEW u \in Users, NEW addr \in StakeAddrs,
         UserNext(u, addr)
  PROVE  EmptyIsNoAccount'
  <1>1. /\ stake \in [StakeAddrs -> StakeAccount] /\ stake[addr] \in StakeAccount
        /\ UserStakes \subseteq StakeAddrs /\ 0 \in U64
        /\ WithdrawAuthority \in Keys
    BY AddressFacts, U64MaxAssumption DEF IInv, TypeOK, U64, Keys
  <1>2. ASSUME NEW v \in Validators, UserDelegates(u, addr, v)
        PROVE  EmptyIsNoAccount'
    <2> DEFINE new == [stake[addr] EXCEPT !.state = "Stake", !.voter = v]
    <2>1. new.state # "None" /\ stake' = [stake EXCEPT ![addr] = new]
      BY <1>1, <1>2 DEF UserDelegates, StakeAccount
    <2> HIDE DEF new
    <2>2. QED BY <2>1, EmptyKeptByOne
  <1>3. ASSUME NEW key \in Authorities, NEW kind \in {"Staker", "Withdrawer"},
               UserAuthorizes(u, addr, key, kind)
        PROVE  EmptyIsNoAccount'
    <2> DEFINE new == Authorized(stake[addr], key, kind)
    <2>1. stake[addr].state # "None" /\ stake' = [stake EXCEPT ![addr] = new]
      BY <1>3 DEF UserAuthorizes, CanAuthorize
    <2>2. key \in Keys
      BY PoolAssumption
    <2>3. new.state # "None"
      BY <1>1, <2>1, <2>2, StateKept
    <2> HIDE DEF new
    <2>4. QED BY <2>1, <2>3, EmptyKeptByOne
  <1>4. ASSUME NEW dest \in UserStakes, NEW n \in SplitSizes,
               UserSplits(u, addr, dest, n)
        PROVE  EmptyIsNoAccount'
    <2> DEFINE rest == SplitSource(stake[addr], n)
               split == SplitTarget(stake[addr], n)
    <2>1. /\ CanSplit(stake[addr], u, n) /\ stake[addr].state # "None"
          /\ stake' = [stake EXCEPT ![addr] = rest, ![dest] = split]
      BY <1>4 DEF UserSplits, CanSplit
    <2>2. n \in U64 /\ dest \in StakeAddrs
      BY <1>1, PoolAssumption
    <2>3. /\ rest.state # "None" \/ rest = NoAccount
          /\ split.state # "None"
      BY <1>1, <2>1, <2>2, StateKept
    <2> HIDE DEF rest, split
    <2>4. QED BY <2>1, <2>2, <2>3, EmptyKeptByTwo
  <1>5. ASSUME NEW source \in StakeAddrs, UserMerges(u, addr, source)
        PROVE  EmptyIsNoAccount'
    <2> DEFINE merged == Merged(stake[addr], stake[source])
    <2>1. /\ stake[addr].state # "None"
          /\ stake' = [stake EXCEPT ![addr] = merged, ![source] = NoAccount]
      BY <1>5 DEF UserMerges, CanMerge
    <2>2. merged.state = stake[addr].state
      BY <1>1 DEF Merged, StakeAccount
    <2> HIDE DEF merged
    <2>3. QED BY <2>1, <2>2, EmptyKeptByTwo
  <1>6. ASSUME UserClosesStake(u, addr)
        PROVE  EmptyIsNoAccount'
    BY <1>6, EmptyKeptByOne DEF UserClosesStake
  <1>7. QED BY <1>2, <1>3, <1>4, <1>5, <1>6 DEF UserNext

\* The steps of users, and rewards: none acts on an address without an
\* account except to create one.
LEMMA EnvironmentKeepsEmpty ==
  ASSUME IInv, EmptyIsNoAccount, EnvironmentNext
  PROVE  EmptyIsNoAccount'
  <1>1. stake \in [StakeAddrs -> StakeAccount] /\ UserStakes \subseteq StakeAddrs
    BY AddressFacts DEF IInv, TypeOK
  <1>2. ASSUME NEW u \in Users, NEW addr \in UserStakes, NEW v \in Validators,
               NEW n \in UserDeposits, UserCreatesStake(u, addr, v, n)
        PROVE  EmptyIsNoAccount'
    <2> DEFINE new == [state |-> "Stake", lamports |-> n, staker |-> u,
                       withdrawer |-> u, voter |-> v]
    <2>1. new.state # "None" /\ stake' = [stake EXCEPT ![addr] = new]
      BY <1>2 DEF UserCreatesStake
    <2> HIDE DEF new
    <2>2. QED BY <1>1, <2>1, EmptyKeptByOne
  <1>3. ASSUME NEW addr \in StakeAddrs, NEW n \in OutsideTransfers,
               OutsideTransfer(addr, n)
        PROVE  EmptyIsNoAccount'
    <2> DEFINE new == [stake[addr] EXCEPT !.lamports = @ + n]
    <2>1. stake[addr] \in StakeAccount
      BY <1>1
    <2>2. stake[addr].state # "None" /\ stake' = [stake EXCEPT ![addr] = new]
      BY <1>1, <1>3 DEF OutsideTransfer
    <2>3. new.state = stake[addr].state
      BY <2>1 DEF StakeAccount
    <2> HIDE DEF new
    <2>4. QED BY <2>2, <2>3, EmptyKeptByOne
  <1>4. ASSUME NEW paid \in SUBSET StakeAddrs, NextEpoch(paid)
        PROVE  EmptyIsNoAccount'
    <2>1. \A x \in StakeAddrs : stake'[x] = stake[x] \/ stake'[x].state # "None"
      BY <1>1, <1>4 DEF NextEpoch, StakeAccount
    <2>2. QED BY <2>1, EmptyKept
  <1>5. ASSUME NEW u \in Users, NEW n, UserBurns(u, n)
        PROVE  EmptyIsNoAccount'
    BY <1>5 DEF UserBurns, EmptyIsNoAccount
  <1>6. QED BY <1>2, <1>3, <1>4, <1>5, UserKeepsEmpty DEF EnvironmentNext

\* Every step keeps EmptyIsNoAccount.
LEMMA NextEmpty == IInv /\ EmptyIsNoAccount /\ [Next]_vars => EmptyIsNoAccount'
  <1> SUFFICES ASSUME IInv, EmptyIsNoAccount, [Next]_vars
               PROVE  EmptyIsNoAccount'
    OBVIOUS
  <1>1. /\ token \in [Users -> Nat] /\ WithdrawAuthority \in Keys
        /\ Authorities \subseteq Keys /\ Stakers \subseteq Keys
        /\ Users \subseteq Keys
    BY PoolAssumption DEF IInv, TypeOK, Keys
  <1>2. CASE UNCHANGED stake
    BY <1>2 DEF EmptyIsNoAccount
  <1>3. CASE OwnerNext
    <2>1. ASSUME NEW u \in Users, NEW v \in Validators, NEW w \in Users,
                 process_add_validator_stake_account(u, v, w)
          PROVE  EmptyIsNoAccount'
      BY <1>1, <2>1, PoolKeepsEmpty
    <2>2. ASSUME NEW u \in Users, NEW w \in Users, NEW v \in Validators,
                 NEW k \in Authorities,
                 process_remove_validator_stake_account(u, w, v, k)
          PROVE  EmptyIsNoAccount'
      BY <1>1, <2>2, PoolKeepsEmpty
    <2>3. ASSUME NEW u \in Users, NEW addr \in StakeAddrs, NEW k \in Stakers,
                 process_set_staking_auth(u, addr, k)
          PROVE  EmptyIsNoAccount'
      <3> DEFINE new == Authorized(stake[addr], k, "Staker")
      <3>1. /\ stake[addr].state # "None" /\ stake[addr] \in StakeAccount
            /\ stake' = [stake EXCEPT ![addr] = new] /\ 0 \in U64
        BY <2>3, U64MaxAssumption
           DEF process_set_staking_auth, CanAuthorize, IInv, TypeOK, U64
      <3>2. new.state # "None"
        BY <1>1, <3>1, StateKept
      <3> HIDE DEF new
      <3>3. QED BY <3>1, <3>2, EmptyKeptByOne
    <2>4. QED BY <1>2, <1>3, <2>1, <2>2, <2>3
             DEF OwnerNext, process_initialize, process_set_owner
  <1>4. CASE AnyoneNext
    <2>1. ASSUME NEW u \in Users, NEW v \in Validators, NEW addr \in UserStakes,
                 NEW k \in Authorities, NEW n \in 1 .. token[u],
                 process_withdraw(u, v, addr, k, n)
          PROVE  EmptyIsNoAccount'
      <3>1. n \in Nat /\ k \in Keys
        BY <1>1
      <3>2. QED BY <2>1, <3>1, PoolKeepsEmpty
    <2>2. ASSUME NEW v \in Validators, NEW k \in Authorities,
                 NEW w \in Authorities,
                 process_create_validator_stake_account(v, k, w)
          PROVE  EmptyIsNoAccount'
      <3> DEFINE addr == StakeAddress(v)
                 new == [state |-> "Initialized",
                         lamports |-> OneSol + RentReserve,
                         staker |-> k, withdrawer |-> w, voter |-> NoKey]
      <3>1. /\ new.state # "None" /\ stake' = [stake EXCEPT ![addr] = new]
            /\ addr \in StakeAddrs
        BY <2>2, AddressFacts DEF process_create_validator_stake_account
      <3> HIDE DEF new, addr
      <3>2. QED BY <3>1, EmptyKeptByOne
    <2>3. ASSUME NEW addr \in StakeAddrs, NEW v \in Validators, NEW u \in Users,
                 process_deposit(addr, v, u)
          PROVE  EmptyIsNoAccount'
      BY <1>1, <2>3, PoolKeepsEmpty
    <2>4. CASE \/ \E accounts \in UpdateArguments :
                    process_update_list_balance(accounts)
               \/ process_update_pool_balance
               \/ CliUpdate
               \/ \E force \in BOOLEAN : MetacliUpdate(force)
      BY <1>2, <2>4 DEF process_update_list_balance, process_update_pool_balance,
                        CliUpdate, MetacliUpdate, UpdateTransaction
    <2>5. QED BY <1>4, <2>1, <2>2, <2>3, <2>4 DEF AnyoneNext
  <1>5. CASE EnvironmentNext
    BY <1>5, EnvironmentKeepsEmpty
  <1>6. CASE UNCHANGED vars
    BY <1>2, <1>6 DEF vars
  <1>7. QED BY <1>3, <1>4, <1>5, <1>6 DEF Next

\* The two invariants the refinement rests on.
THEOREM VaultInvariance == Spec => [](IInv /\ EmptyIsNoAccount)
  <1>1. Init => EmptyIsNoAccount
    BY DEF Init, EmptyIsNoAccount
  <1>2. QED BY <1>1, Invariance, NextEmpty, PTL DEF Spec

-----------------------------------------------------------------------------
(***************************************************************************)
(* The refinement.                                                         *)
(***************************************************************************)

\* What one move of custody does to the function.
LEMMA CustodyExcept ==
  ASSUME TypeOK, NEW p \in StakeAddrs, NEW d \in Int, CustodyMoves(p, d)
  PROVE  /\ Custody' = [Custody EXCEPT ![p] = @ + d]
         /\ Custody'[p] = Custody[p] + d
         /\ Custody[p] = CustodyLamports(p)
  <1>1. \A x \in StakeAddrs : CustodyLamports(x) \in Nat
    BY CustodyFacts
  <1>2. \A x \in StakeAddrs \ {p} : CustodyLamports(x)' = CustodyLamports(x)
    BY <1>1 DEF CustodyMoves
  <1>3. CustodyLamports(p)' = CustodyLamports(p) + d
    BY DEF CustodyMoves
  <1>4. QED BY <1>2, <1>3 DEF Custody

\* Custody that does not change in any place does not change as a function.
LEMMA CustodyUnchanged ==
  ASSUME UNCHANGED stake
  PROVE  Custody' = Custody
  BY DEF Custody, CustodyLamports

\* Lamports taken from one address are lamports taken from one place.
LEMMA TakenIsTakenFrom ==
  ASSUME NEW p \in StakeAddrs, NEW l \in Nat, CustodyTaken(p, l)
  PROVE  Vault!TakenFrom(p, l)
  BY DEF CustodyTaken, Vault!TakenFrom, Custody

\* Add and Deposit are the vault's Enter.
LEMMA EnteredIsEnter ==
  ASSUME TypeOK, NEW u \in Users, NEW v \in Validators,
         NEW n \in Nat, NEW l \in Nat, Entered(u, v, n, l)
  PROVE  \E p \in StakeAddrs : Vault!Enter(u, p)
  <1> DEFINE p == StakeAddress(v)
  <1>1. token \in [Users -> Nat] /\ pool \in StakePoolAccount /\ p \in StakeAddrs
    BY AddressFacts DEF TypeOK
  <1>2. /\ token' = [token EXCEPT ![u] = @ + n] /\ token'[u] - token[u] = n
    BY <1>1 DEF Entered
  <1>3. /\ Custody' = [Custody EXCEPT ![p] = @ + l]
        /\ Custody'[p] - Custody[p] = l
    <2>1. Custody[p] \in Nat
      BY <1>1, CustodyFacts DEF Custody
    <2>2. QED BY <1>1, <2>1, CustodyExcept DEF Entered
  <1>4. /\ pool'.pool_total = Add64(pool.pool_total, n)
        /\ pool'.stake_total = Add64(pool.stake_total, l)
    BY DEF Entered
  <1>5. IF pool.stake_total = 0 THEN n = l
        ELSE n * pool.stake_total <= l * pool.pool_total
             /\ l * pool.pool_total < (n + 1) * pool.stake_total
    BY <1>1, DepositPrice DEF Entered
  <1> HIDE DEF p
  <1>6. Vault!Booked(u, n, l)
    BY <1>2, <1>4 DEF Vault!Booked, Vault!Add64, Add64
  <1>7. IF pool.stake_total = 0 THEN n = l
        ELSE Vault!RoundsDown(n, l, pool.pool_total, pool.stake_total)
    BY <1>5 DEF Vault!RoundsDown
  <1> DEFINE dt == token'[u] - token[u]
             dl == Custody'[p] - Custody[p]
  <1>8. dt = n /\ dl = l
    BY <1>2, <1>3
  <1> HIDE DEF dt, dl
  <1>9. /\ dl >= 0 /\ dt >= 0 /\ Vault!Booked(u, dt, dl)
        /\ Custody' = [Custody EXCEPT ![p] = @ + dl]
        /\ IF pool.stake_total = 0 THEN dt = dl
           ELSE Vault!RoundsDown(dt, dl, pool.pool_total, pool.stake_total)
    BY <1>3, <1>6, <1>7, <1>8
  <1>10. Vault!Enter(u, p)
    BY <1>9 DEF Vault!Enter, dt, dl
  <1>11. QED BY <1>1, <1>10

\* The prices of the two exits.
LEMMA WithdrawnPrice ==
  ASSUME TypeOK, NEW u \in Users, NEW v \in Validators,
         NEW n \in Nat, NEW l \in Nat, Withdrawn(u, v, n, l)
  PROVE  /\ pool.pool_total # 0 /\ pool.stake_total # 0
         /\ l * pool.pool_total <= n * pool.stake_total
         /\ n * pool.stake_total < (l + 1) * pool.pool_total
  <1>1. pool.pool_total \in Nat /\ pool.stake_total \in Nat
    BY U64MaxAssumption DEF TypeOK, StakePoolAccount, U64
  <1>2. l \in U64 /\ l = CheckedMulDiv(n, pool.stake_total, pool.pool_total) /\ l > 0
    BY DEF Withdrawn, Left, calc_lamports_amount
  <1>3. /\ pool.pool_total # 0
        /\ l * pool.pool_total <= n * pool.stake_total
        /\ n * pool.stake_total < (l + 1) * pool.pool_total
    BY <1>1, <1>2, MulDivFacts
  <1>4. pool.stake_total # 0
    <2>1. l * pool.pool_total > 0
      BY <1>1, <1>2, <1>3
    <2>2. QED BY <1>1, <1>3, <2>1
  <1>5. QED BY <1>3, <1>4

\* Remove prices a whole account like a deposit.
LEMMA RemovedPrice ==
  ASSUME TypeOK, NEW u \in Users, NEW v \in Validators,
         NEW n \in Nat, NEW l \in Nat, Removed(u, v, n, l)
  PROVE  /\ pool.stake_total # 0
         /\ n * pool.stake_total <= l * pool.pool_total
         /\ l * pool.pool_total < (n + 1) * pool.stake_total
  <1>1. pool.pool_total \in Nat /\ pool.stake_total \in Nat
    BY U64MaxAssumption DEF TypeOK, StakePoolAccount, U64
  <1>2. n \in U64 /\ n = CheckedMulDiv(l, pool.pool_total, pool.stake_total)
    BY DEF Removed, Left, calc_pool_withdraw_amount
  <1>3. QED BY <1>1, <1>2, MulDivFacts

\* Withdraw and Remove are the vault's Exit.
LEMMA LeftIsExit ==
  ASSUME TypeOK, NEW u \in Users, NEW v \in Validators,
         NEW n \in Nat, NEW l \in Nat,
         Withdrawn(u, v, n, l) \/ Removed(u, v, n, l)
  PROVE  \E p \in StakeAddrs : Vault!Exit(u, p)
  <1> DEFINE p == StakeAddress(v)
  <1>1. /\ token \in [Users -> Nat] /\ pool \in StakePoolAccount
        /\ pool.pool_total \in Int /\ pool.stake_total \in Int
        /\ p \in StakeAddrs
    BY AddressFacts, U64MaxAssumption DEF TypeOK, StakePoolAccount, U64
  <1>2. Left(u, v, n, l)
    BY DEF Withdrawn, Removed
  <1>3. /\ token' = [token EXCEPT ![u] = @ + (-n)] /\ token[u] - token'[u] = n
    <2> DEFINE less == token[u] - n
               more == token[u] + (-n)
    <2>1. token' = [token EXCEPT ![u] = less] /\ token[u] \in Nat
      BY <1>1, <1>2 DEF Left
    <2>2. less = more
      BY <2>1
    <2>3. token'[u] = less
      BY <1>1, <2>1
    <2>4. token[u] - token'[u] = n
      BY <2>1, <2>3
    <2> HIDE DEF less, more
    <2>5. token' = [token EXCEPT ![u] = more]
      BY <2>1, <2>2
    <2>6. QED BY <2>4, <2>5 DEF more
  <1>4. /\ Custody[p] = CustodyLamports(p) /\ Custody[p] \in Nat
        /\ l \in 0 .. Custody[p]
    <2>1. Custody[p] = CustodyLamports(p) /\ CustodyLamports(p) \in Nat
      BY <1>1, CustodyFacts DEF Custody
    <2>2. l <= CustodyLamports(p)
      BY <1>2 DEF Left, CustodyTaken
    <2>3. QED BY <2>1, <2>2
  <1>5. /\ pool'.pool_total = Add64(pool.pool_total, -n)
        /\ pool'.stake_total = Add64(pool.stake_total, -l)
    BY <1>1, <1>2 DEF Left, Add64, Sub64
  <1>6. Vault!Booked(u, -n, -l)
    BY <1>3, <1>5 DEF Vault!Booked, Vault!Add64, Add64
  <1>7. Vault!TakenFrom(p, l)
    BY <1>1, <1>2, TakenIsTakenFrom DEF Left
  <1>8. \/ Vault!RoundsDown(l, n, pool.stake_total, pool.pool_total)
        \/ l = Custody[p] /\ Vault!RoundsDown(n, l, pool.pool_total, pool.stake_total)
    <2>1. CASE Withdrawn(u, v, n, l)
      BY <2>1, WithdrawnPrice DEF Vault!RoundsDown
    <2>2. CASE Removed(u, v, n, l)
      <3>1. l = Custody[p]
        BY <1>4, <2>2 DEF Removed
      <3>2. QED BY <2>2, <3>1, RemovedPrice DEF Vault!RoundsDown
    <2>3. QED BY <2>1, <2>2
  <1> HIDE DEF p
  <1> DEFINE dt == token[u] - token'[u]
  <1>9. dt = n
    BY <1>3
  <1> HIDE DEF dt
  <1>10. /\ dt >= 0 /\ Vault!Booked(u, -dt, -l)
         /\ \/ Vault!RoundsDown(l, dt, pool.stake_total, pool.pool_total)
            \/ l = Custody[p]
               /\ Vault!RoundsDown(dt, l, pool.pool_total, pool.stake_total)
    BY <1>6, <1>8, <1>9
  <1>11. Vault!Exit(u, p)
    BY <1>4, <1>7, <1>10 DEF Vault!Exit, dt
  <1>12. QED BY <1>1, <1>11

\* A move between two accounts of the pool is the vault's Rearrange.
LEMMA MovedIsRearrange ==
  ASSUME TypeOK, NEW p \in StakeAddrs, NEW q \in StakeAddrs, NEW l \in Nat,
         Moved(p, q, l)
  PROVE  Vault!Rearrange(p, q)
  <1>1. /\ p # q /\ CustodyTaken(p, l)
        /\ CustodyLamports(p)' = CustodyLamports(p) - l
        /\ CustodyLamports(q)' >= CustodyLamports(q) + l
        /\ UNCHANGED <<token, supply, list, pool>>
    BY DEF Moved
  <1>2. CustodyLamports(p) \in Nat
    BY CustodyFacts
  <1> DEFINE dl == Custody[p] - Custody'[p]
  <1>3. dl = l
    BY <1>1, <1>2 DEF Custody
  <1>4. Vault!TakenFrom(p, l) /\ Custody'[q] >= Custody[q] + l
    BY <1>1, TakenIsTakenFrom DEF Custody
  <1> HIDE DEF dl
  <1>5. dl >= 0 /\ Vault!TakenFrom(p, dl) /\ Custody'[q] >= Custody[q] + dl
    BY <1>3, <1>4
  <1>6. QED BY <1>1, <1>5 DEF Vault!Rearrange, dl

\* Every shape is a step of the vault, or changes nothing of it.
LEMMA ShapeRefines ==
  ASSUME TypeOK, VaultStep
  PROVE  [Vault!Next]_(Vault!vars)
  <1>1. ASSUME NEW u \in Users, NEW v \in Validators, NEW n \in Nat, NEW l \in Nat,
               Entered(u, v, n, l) \/ Withdrawn(u, v, n, l) \/ Removed(u, v, n, l)
        PROVE  Vault!Next
    BY <1>1, EnteredIsEnter, LeftIsExit DEF Vault!Next
  <1>2. ASSUME NEW u \in Users, NEW n \in Nat, Discarded(u, n)
        PROVE  Vault!Next
    <2>1. /\ token \in [Users -> Nat]
          /\ token' = [token EXCEPT ![u] = @ - n] /\ n <= token[u]
          /\ UNCHANGED <<pool, stake>>
      BY <1>2 DEF Discarded, TypeOK
    <2>2. token[u] - token'[u] = n
      BY <2>1
    <2>3. Custody' = Custody
      BY <2>1, CustodyUnchanged
    <2>4. /\ token[u] - token'[u] >= 0
          /\ token' = [token EXCEPT ![u] = @ - (token[u] - token'[u])]
      <3> DEFINE d == token[u] - token'[u]
      <3>1. d = n /\ d >= 0
        BY <2>2
      <3> HIDE DEF d
      <3>2. token' = [token EXCEPT ![u] = @ - d]
        BY <2>1, <3>1
      <3>3. QED BY <3>1, <3>2 DEF d
    <2>5. Vault!Discard(u)
      BY <2>1, <2>3, <2>4 DEF Vault!Discard
    <2>6. QED BY <2>5 DEF Vault!Next
  <1>3. CASE Arrived
    <2>1. Custody' \in [StakeAddrs -> Nat]
          /\ \A x \in StakeAddrs : Custody'[x] >= Custody[x]
      BY <1>3 DEF Arrived, Custody
    <2>2. Vault!Accrue
      BY <1>3, <2>1 DEF Arrived, Vault!Accrue, Custody
    <2>3. QED BY <2>2 DEF Vault!Next
  <1>4. CASE Revalued
    <2>1. Custody' = Custody
      BY <1>4, CustodyUnchanged DEF Revalued
    <2>2. Vault!Revalue
      BY <1>4, <2>1 DEF Revalued, Vault!Revalue, Vault!U64, U64
    <2>3. QED BY <2>2 DEF Vault!Next
  <1>5. ASSUME NEW p \in StakeAddrs, NEW q \in StakeAddrs, NEW l \in Nat,
               Moved(p, q, l)
        PROVE  Vault!Next
    BY <1>5, MovedIsRearrange DEF Vault!Next
  <1>6. QED BY <1>1, <1>2, <1>3, <1>4, <1>5 DEF VaultStep

\* StakePool implements ShareVault: whatever users, owners, keepers, rewards
\* and epochs do, lamports leave the pool's control only for tokens and tokens
\* appear only for lamports, at the ratio of the two counters, rounded by
\* less than one unit.
THEOREM PoolImplementsVault == Spec => PoolIsVault
  <1>1. Init => Vault!Init
    <2> SUFFICES ASSUME Init PROVE Vault!Init
      OBVIOUS
    <2>1. \A x \in StakeAddrs : CustodyLamports(x) = 0
      BY NoAccountFacts DEF Init, CustodyLamports
    <2>2. QED BY <2>1 DEF Init, Vault!Init, Custody
  <1>2. IInv /\ EmptyIsNoAccount /\ [Next]_vars => [Vault!Next]_(Vault!vars)
    <2> SUFFICES ASSUME IInv, EmptyIsNoAccount, [Next]_vars
                 PROVE  [Vault!Next]_(Vault!vars)
      OBVIOUS
    <2>1. CASE Next
      BY <2>1, NextVaultStep, ShapeRefines DEF IInv
    <2>2. CASE UNCHANGED vars
      BY <2>2 DEF vars, Vault!vars, Custody, CustodyLamports
    <2>3. QED BY <2>1, <2>2
  <1>3. QED BY <1>1, <1>2, VaultInvariance, PTL DEF Spec, PoolIsVault, Vault!Spec

-----------------------------------------------------------------------------
(***************************************************************************)
(* The action properties, from the same seven shapes.                      *)
(***************************************************************************)

\* What a shape may take out of custody goes to another account of the pool,
\* or is paid for.
LEMMA ShapePays ==
  ASSUME TypeOK, VaultStep, NEW addr \in StakeAddrs
  PROVE  LET lost == CustodyLamports(addr) - CustodyLamports(addr)'
         IN lost > 0 =>
              \/ \E other \in StakeAddrs \ {addr} :
                   CustodyLamports(other)' - CustodyLamports(other) >= lost
              \/ lost * pool.pool_total
                   < (supply - supply' + 1) * pool.stake_total
  <1> DEFINE lost == CustodyLamports(addr) - CustodyLamports(addr)'
             paid == lost * pool.pool_total
                       < (supply - supply' + 1) * pool.stake_total
             kept == \E other \in StakeAddrs \ {addr} :
                       CustodyLamports(other)' - CustodyLamports(other) >= lost
  <1>1. /\ pool.pool_total \in Nat /\ pool.stake_total \in Nat /\ supply \in Nat
        /\ \A x \in StakeAddrs : CustodyLamports(x) \in Nat
    BY CustodyFacts, U64MaxAssumption DEF TypeOK, StakePoolAccount, U64
  <1>2. ASSUME NEW u \in Users, NEW v \in Validators, NEW n \in Nat, NEW l \in Nat,
               Entered(u, v, n, l)
        PROVE  ~(lost > 0)
    <2>1. CustodyLamports(addr)' =
            CustodyLamports(addr) + IF addr = StakeAddress(v) THEN l ELSE 0
      BY <1>2 DEF Entered, CustodyMoves
    <2>2. QED BY <1>1, <2>1
  <1>3. ASSUME NEW u \in Users, NEW v \in Validators, NEW n \in Nat, NEW l \in Nat,
               Left(u, v, n, l), l * pool.pool_total < (n + 1) * pool.stake_total,
               lost > 0
        PROVE  paid
    <2>1. /\ CustodyTaken(StakeAddress(v), l) /\ supply' = supply - n
      BY <1>3 DEF Left
    <2>2. lost \in Nat /\ lost <= l /\ supply - supply' = n
      BY <1>1, <1>3, <2>1 DEF CustodyTaken
    <2> HIDE DEF lost
    <2>3. lost * pool.pool_total <= l * pool.pool_total
      BY <1>1, <2>2
    <2>4. lost * pool.pool_total < (n + 1) * pool.stake_total
      BY <1>1, <1>3, <2>2, <2>3
    <2>5. QED BY <2>2, <2>4
  <1>4. ASSUME NEW u \in Users, NEW v \in Validators, NEW n \in Nat, NEW l \in Nat,
               Withdrawn(u, v, n, l), lost > 0
        PROVE  paid
    <2>1. l * pool.pool_total <= n * pool.stake_total /\ pool.stake_total # 0
      BY <1>4, WithdrawnPrice
    <2>2. l * pool.pool_total < (n + 1) * pool.stake_total
      BY <1>1, <2>1
    <2>3. QED BY <1>3, <1>4, <2>2 DEF Withdrawn
  <1>5. ASSUME NEW u \in Users, NEW v \in Validators, NEW n \in Nat, NEW l \in Nat,
               Removed(u, v, n, l), lost > 0
        PROVE  paid
    <2>1. l * pool.pool_total < (n + 1) * pool.stake_total
      BY <1>5, RemovedPrice
    <2>2. QED BY <1>3, <1>5, <2>1 DEF Removed
  <1>6. ASSUME NEW p \in StakeAddrs, NEW q \in StakeAddrs, NEW l \in Nat,
               Moved(p, q, l), lost > 0
        PROVE  kept
    <2>1. /\ p # q /\ CustodyTaken(p, l)
          /\ CustodyLamports(p)' = CustodyLamports(p) - l
          /\ CustodyLamports(q)' >= CustodyLamports(q) + l
          /\ CustodyLamports(q)' \in Nat
      BY <1>6 DEF Moved, CustodyTaken
    <2>2. addr = p
      BY <1>1, <1>6, <2>1 DEF CustodyTaken
    <2>3. lost = l
      BY <1>1, <2>1, <2>2
    <2>4. CustodyLamports(q)' - CustodyLamports(q) >= l
      BY <1>1, <2>1
    <2> HIDE DEF lost
    <2>5. QED BY <2>1, <2>2, <2>3, <2>4
  <1>7. ASSUME UNCHANGED stake
        PROVE  ~(lost > 0)
    BY <1>1, <1>7 DEF CustodyLamports
  <1>8. ASSUME Arrived
        PROVE  ~(lost > 0)
    BY <1>1, <1>8 DEF Arrived
  <1> HIDE DEF paid, kept, lost
  <1>9. lost > 0 => kept \/ paid
    BY <1>2, <1>4, <1>5, <1>6, <1>7, <1>8 DEF VaultStep, Discarded, Revalued
  <1>10. QED BY <1>9 DEF lost, kept, paid

\* Stake leaves the pool's control only in exchange for tokens worth it.
THEOREM ExitsPaid == Spec => ExitsArePaid
  <1>1. IInv /\ EmptyIsNoAccount /\ [Next]_vars =>
          [\A addr \in StakeAddrs :
             LET lost == CustodyLamports(addr) - CustodyLamports(addr)'
             IN lost > 0 =>
                  \/ \E other \in StakeAddrs \ {addr} :
                       CustodyLamports(other)' - CustodyLamports(other) >= lost
                  \/ lost * pool.pool_total
                       < (supply - supply' + 1) * pool.stake_total]_vars
    BY NextVaultStep, ShapePays DEF IInv
  <1>2. QED BY <1>1, VaultInvariance, PTL DEF Spec, ExitsArePaid

\* The two counters move together, by what really moved at one validator.
LEMMA ShapeMovesTogether ==
  ASSUME TypeOK, VaultStep, pool'.pool_total # pool.pool_total
  PROVE  \E v \in Validators :
           /\ pool'.stake_total =
                Add64(pool.stake_total, Booked(v)' - Booked(v))
           /\ \A r \in list' : r.validator_account = v => r.balance = Booked(v)'
           /\ \A w \in Validators \ {v} : Booked(w)' = Booked(w)
  <1>1. /\ pool.stake_total \in Nat
        /\ \A w \in Validators : Booked(w) \in Nat
    BY CustodyFacts, AddressFacts, U64MaxAssumption
       DEF TypeOK, StakePoolAccount, U64, Booked
  <1>2. ASSUME NEW v \in Validators, NEW d \in Int, BooksMove(v, d),
               pool'.stake_total = Add64(pool.stake_total, d)
        PROVE  /\ pool'.stake_total =
                    Add64(pool.stake_total, Booked(v)' - Booked(v))
               /\ \A r \in list' : r.validator_account = v => r.balance = Booked(v)'
               /\ \A w \in Validators \ {v} : Booked(w)' = Booked(w)
    <2>1. Booked(v)' = Booked(v) + d
      BY <1>2 DEF BooksMove
    <2>2. Booked(v)' - Booked(v) = d
      BY <1>1, <2>1
    <2>3. QED BY <1>2, <2>2 DEF BooksMove
  <1>3. ASSUME NEW u \in Users, NEW v \in Validators, NEW n \in Nat, NEW l \in Nat,
               Entered(u, v, n, l)
        PROVE  BooksMove(v, l) /\ pool'.stake_total = Add64(pool.stake_total, l)
    BY <1>3 DEF Entered
  <1>4. ASSUME NEW u \in Users, NEW v \in Validators, NEW n \in Nat, NEW l \in Nat,
               Withdrawn(u, v, n, l) \/ Removed(u, v, n, l)
        PROVE  /\ -l \in Int /\ BooksMove(v, -l)
               /\ pool'.stake_total = Add64(pool.stake_total, -l)
    <2>1. BooksMove(v, -l) /\ pool'.stake_total = Sub64(pool.stake_total, l)
      BY <1>4 DEF Withdrawn, Removed, Left
    <2>2. QED BY <1>1, <2>1 DEF Add64, Sub64
  <1>5. /\ ~Arrived /\ ~Revalued /\ \A u \in Users, n \in Nat : ~Discarded(u, n)
        /\ \A p, q \in StakeAddrs, l \in Nat : ~Moved(p, q, l)
    BY DEF Arrived, Revalued, Discarded, Moved
  <1>6. PICK u \in Users, v \in Validators, n \in Nat, l \in Nat :
          Entered(u, v, n, l) \/ Withdrawn(u, v, n, l) \/ Removed(u, v, n, l)
    BY <1>5 DEF VaultStep
  <1>7. QED BY <1>2, <1>3, <1>4, <1>6

\* pool_total never moves without the stake that pays for it.
THEOREM CountersMoveTogether == Spec => TokensMoveWithStake
  <1>1. IInv /\ EmptyIsNoAccount /\ [Next]_vars =>
          [pool.pool_total' # pool.pool_total =>
             \E v \in Validators :
               /\ pool.stake_total' =
                    Add64(pool.stake_total, Booked(v)' - Booked(v))
               /\ \A r \in list' : r.validator_account = v
                                     => r.balance = Booked(v)'
               /\ \A w \in Validators \ {v} : Booked(w)' = Booked(w)]_vars
    BY NextVaultStep, ShapeMovesTogether DEF IInv
  <1>2. QED BY <1>1, VaultInvariance, PTL DEF Spec, TokensMoveWithStake

\* Tokens bought: the price of those who hold does not fall.
LEMMA EntryPrice ==
  ASSUME NEW S \in Nat, NEW P \in Nat, NEW n \in Nat, NEW l \in Nat,
         IF S = 0 THEN n = l ELSE n * S <= l * P
  PROVE  S * (P + n) <= (S + l) * P
  <1>1. n * S <= l * P
    <2>1. CASE S = 0
      <3>1. n * S = 0 /\ l * P >= 0
        BY <2>1
      <3>2. QED BY <3>1
    <2>2. CASE S # 0
      BY <2>2
    <2>3. QED BY <2>1, <2>2
  <1>2. S * (P + n) = S * P + n * S /\ (S + l) * P = S * P + l * P
    OBVIOUS
  <1>3. QED BY <1>1, <1>2

\* Tokens redeemed for given lamports, rounded down.
LEMMA ExitPrice ==
  ASSUME NEW S \in Nat, NEW P \in Nat, NEW n \in Nat, NEW l \in Nat,
         n <= P, P # 0, l * P <= n * S
  PROVE  l <= S /\ S * (P - n) <= (S - l) * P
  <1>1. S * (P - n) = S * P - n * S /\ (S - l) * P = S * P - l * P
    OBVIOUS
  <1>2. n * S <= P * S
    OBVIOUS
  <1>3. l <= S
    <2>1. SUFFICES ASSUME l >= S + 1 PROVE FALSE
      OBVIOUS
    <2>2. l * P >= (S + 1) * P
      BY <2>1
    <2>3. (S + 1) * P = S * P + P /\ S * P = P * S
      OBVIOUS
    <2>4. QED BY <1>2, <2>2, <2>3
  <1>4. QED BY <1>1, <1>3

\* Lamports removed for tokens, rounded down: the price falls by less than
\* one token's worth.
LEMMA RemovalPrice ==
  ASSUME NEW S \in Nat, NEW P \in Nat, NEW n \in Nat, NEW l \in Nat,
         NEW T \in Nat, l * P < (n + 1) * S, T >= S - l
  PROVE  S * (P - n) < T * P + S
  <1>1. S * (P - n) = S * P - n * S /\ (n + 1) * S = n * S + S
        /\ (S - l) * P = S * P - l * P
    OBVIOUS
  <1>2. (S - l) * P <= T * P
    OBVIOUS
  <1>3. QED BY <1>1, <1>2

\* Each shape keeps the share price as SharePriceHolds states it.
LEMMA ShapeKeepsPrice ==
  ASSUME TypeOK, pool'.stake_total \in U64, VaultStep
  PROVE  LET S == pool.stake_total   P == pool.pool_total
             T == pool'.stake_total  Q == pool'.pool_total
             removed == \E r \in list : ~Contains(list', r.validator_account)
         IN /\ supply' > supply /\ Q > P /\ T >= S => S * Q <= T * P
            /\ supply' < supply /\ Q < P /\ ~removed => S * Q <= T * P
            /\ removed /\ Q <= P => S * Q < T * P + S
  <1> DEFINE S == pool.stake_total
             P == pool.pool_total
             T == pool'.stake_total
             Q == pool'.pool_total
             removed == \E r \in list : ~Contains(list', r.validator_account)
             Goal == /\ supply' > supply /\ Q > P /\ T >= S => S * Q <= T * P
                     /\ supply' < supply /\ Q < P /\ ~removed => S * Q <= T * P
                     /\ removed /\ Q <= P => S * Q < T * P + S
  <1>1. /\ S \in U64 /\ P \in U64 /\ T \in U64 /\ S \in Nat /\ P \in Nat
        /\ T \in Nat /\ supply \in Nat /\ pool \in StakePoolAccount
    BY U64MaxAssumption DEF TypeOK, StakePoolAccount, U64
  <1>2. ASSUME NEW u \in Users, NEW v \in Validators, NEW n \in Nat, NEW l \in Nat,
               Entered(u, v, n, l)
        PROVE  Goal
    <2>1. /\ n \in U64 /\ l \in U64 /\ supply' = supply + n /\ ~removed
          /\ Q = Add64(P, n) /\ T = Add64(S, l)
      BY <1>2 DEF Entered, KeepsRecords
    <2>2. IF S = 0 THEN n = l ELSE n * S <= l * P
      BY <1>1, <1>2, DepositPrice DEF Entered
    <2> HIDE DEF S, P, T, Q, removed
    <2>3. S * (P + n) <= (S + l) * P
      BY <1>1, <2>2, EntryPrice
    <2>4. Q > P /\ T >= S => Q = P + n /\ T = S + l
      BY <1>1, <2>1, WrapCases
    <2>5. ~(supply' < supply)
      BY <1>1, <2>1
    <2>6. QED BY <2>1, <2>3, <2>4, <2>5
  <1>3. ASSUME NEW u \in Users, NEW v \in Validators, NEW n \in Nat, NEW l \in Nat,
               Left(u, v, n, l)
        PROVE  /\ Q \in U64 /\ ~(supply' > supply)
               /\ Q <= P => Q = P - n /\ n <= P
               /\ l <= S => T = S - l
               /\ T >= S - l
    <2>1. /\ n \in U64 /\ l \in U64 /\ supply' = supply - n
          /\ Q = Sub64(P, n) /\ T = Sub64(S, l)
      BY <1>3 DEF Left
    <2> HIDE DEF S, P, T, Q
    <2>2. Q \in U64
      BY <1>1, <2>1, WrapType
    <2>3. /\ Q <= P => Q = P - n
          /\ T = S - l \/ T = S - l + (U64Max + 1)
      BY <1>1, <2>1, WrapCases
    <2>4. l <= S => T = S - l
      BY <1>1, <2>1, <2>3, U64MaxAssumption DEF U64
    <2>5. Q <= P => n <= P
      BY <1>1, <2>2, <2>3, U64MaxAssumption DEF U64
    <2>6. T >= S - l
      BY <1>1, <2>3, U64MaxAssumption
    <2>7. ~(supply' > supply)
      BY <1>1, <2>1
    <2>8. QED BY <2>2, <2>3, <2>4, <2>5, <2>6, <2>7
  <1>4. ASSUME NEW u \in Users, NEW v \in Validators, NEW n \in Nat, NEW l \in Nat,
               Withdrawn(u, v, n, l)
        PROVE  Goal
    <2>1. /\ Q \in U64 /\ ~(supply' > supply) /\ ~removed
          /\ Q <= P => Q = P - n /\ n <= P
          /\ l <= S => T = S - l
      BY <1>3, <1>4 DEF Withdrawn, KeepsRecords
    <2>2. P # 0 /\ l * P <= n * S
      BY <1>4, WithdrawnPrice
    <2> HIDE DEF S, P, T, Q, removed
    <2>3. n <= P => l <= S /\ S * (P - n) <= (S - l) * P
      BY <1>1, <2>2, ExitPrice
    <2>4. Q < P => Q <= P
      BY <1>1, <2>1, U64MaxAssumption DEF U64
    <2>5. QED BY <2>1, <2>3, <2>4
  <1>5. ASSUME NEW u \in Users, NEW v \in Validators, NEW n \in Nat, NEW l \in Nat,
               Removed(u, v, n, l)
        PROVE  Goal
    <2>1. /\ removed /\ ~(supply' > supply) /\ T >= S - l
          /\ Q <= P => Q = P - n /\ n <= P
      BY <1>3, <1>5 DEF Removed, KeepsRecords
    <2>2. l * P < (n + 1) * S
      BY <1>5, RemovedPrice
    <2> HIDE DEF S, P, T, Q, removed
    <2>3. S * (P - n) < T * P + S
      BY <1>1, <2>1, <2>2, RemovalPrice
    <2>4. QED BY <2>1, <2>3
  <1>6. ASSUME NEW u \in Users, NEW n \in Nat, Discarded(u, n)
        PROVE  Goal
    BY <1>1, <1>6 DEF Discarded, Contains
  <1>7. CASE Arrived
    BY <1>1, <1>7 DEF Arrived, Contains
  <1>8. CASE Revalued
    BY <1>1, <1>8 DEF Revalued, KeepsRecords
  <1>9. ASSUME NEW p \in StakeAddrs, NEW q \in StakeAddrs, NEW l \in Nat,
               Moved(p, q, l)
        PROVE  Goal
    BY <1>1, <1>9 DEF Moved, Contains
  <1>10. QED BY <1>2, <1>4, <1>5, <1>6, <1>7, <1>8, <1>9 DEF VaultStep

\* Rounding never favours the one who enters or leaves.
THEOREM SharePrice == Spec => SharePriceHolds
  <1>1. IInv /\ IInv' /\ EmptyIsNoAccount /\ [Next]_vars =>
          [LET S == pool.stake_total   P == pool.pool_total
               removed == \E r \in list : ~Contains(list', r.validator_account)
           IN /\ supply' > supply /\ P' > P /\ S' >= S => S * P' <= S' * P
              /\ supply' < supply /\ P' < P /\ ~removed => S * P' <= S' * P
              /\ removed /\ P' <= P => S * P' < S' * P + S]_vars
    <2> SUFFICES ASSUME IInv, IInv', EmptyIsNoAccount, Next
                 PROVE  LET S == pool.stake_total   P == pool.pool_total
                            removed == \E r \in list :
                                         ~Contains(list', r.validator_account)
                        IN /\ supply' > supply /\ P' > P /\ S' >= S
                                => S * P' <= S' * P
                           /\ supply' < supply /\ P' < P /\ ~removed
                                => S * P' <= S' * P
                           /\ removed /\ P' <= P => S * P' < S' * P + S
      OBVIOUS
    <2>1. TypeOK /\ pool'.stake_total \in U64
      BY DEF IInv, TypeOK, StakePoolAccount
    <2>2. VaultStep
      BY NextVaultStep
    <2>3. QED BY <2>1, <2>2, ShapeKeepsPrice
  <1>2. QED BY <1>1, VaultInvariance, PTL DEF Spec, SharePriceHolds

-----------------------------------------------------------------------------
(***************************************************************************)
(* The records of the first epoch.                                         *)
(***************************************************************************)

\* The pool is the staker and the withdrawer of an account.
PoolHolds(a) == a.withdrawer = WithdrawAuthority /\ a.staker = WithdrawAuthority

\* RecordsBacked with what makes it inductive: while a record promises
\* anything, nobody but the pool can split its account or take from it.
BackedInv ==
  epoch = 0 =>
    \A r \in list :
      r.balance > 0 =>
        /\ PoolHolds(stake[StakeAddress(r.validator_account)])
        /\ r.balance <= stake[StakeAddress(r.validator_account)].lamports

\* Steps after which an account of the pool is one of the pool, with no less
\* in it.
LEMMA BackedKept ==
  ASSUME IInv, IInv', BackedInv, UNCHANGED <<epoch, list>>,
         \A x \in PoolStakes :
           PoolHolds(stake[x]) => /\ PoolHolds(stake'[x])
                                  /\ stake'[x].lamports >= stake[x].lamports
  PROVE  BackedInv'
  <1> SUFFICES ASSUME epoch = 0, NEW r \in list, r.balance > 0
               PROVE  /\ PoolHolds(stake'[StakeAddress(r.validator_account)])
                      /\ r.balance
                           <= stake'[StakeAddress(r.validator_account)].lamports
    BY DEF BackedInv
  <1> DEFINE x == StakeAddress(r.validator_account)
  <1>1. r \in ValidatorStakeInfo /\ r.balance \in Nat
    BY U64MaxAssumption DEF IInv, TypeOK, ValidatorStakeInfo, U64
  <1>2. x \in PoolStakes /\ x \in StakeAddrs
    BY <1>1 DEF ValidatorStakeInfo, PoolStakes, StakeAddrs
  <1>3. PoolHolds(stake[x]) /\ r.balance <= stake[x].lamports
    BY DEF BackedInv
  <1>4. stake[x].lamports \in Nat /\ stake'[x].lamports \in Nat
    BY <1>2, U64MaxAssumption DEF IInv, TypeOK, StakeAccount, U64
  <1> HIDE DEF x
  <1>5. PoolHolds(stake'[x]) /\ r.balance <= stake'[x].lamports
    BY <1>1, <1>2, <1>3, <1>4
  <1>6. QED BY <1>5 DEF x

\* The same for a step that writes one address.
LEMMA BackedKeptByOne ==
  ASSUME IInv, IInv', BackedInv, UNCHANGED <<epoch, list>>,
         NEW addr \in StakeAddrs, NEW new,
         stake' = [stake EXCEPT ![addr] = new],
         PoolHolds(stake[addr]) => /\ PoolHolds(new)
                                   /\ new.lamports >= stake[addr].lamports
  PROVE  BackedInv'
  <1>1. stake \in [StakeAddrs -> StakeAccount] /\ PoolStakes \subseteq StakeAddrs
    BY DEF IInv, TypeOK, StakeAddrs
  <1>2. \A x \in PoolStakes : stake[x].lamports \in Nat
    BY <1>1, U64MaxAssumption DEF StakeAccount, U64
  <1>3. \A x \in PoolStakes : PoolHolds(stake[x]) =>
          PoolHolds(stake'[x]) /\ stake'[x].lamports >= stake[x].lamports
    BY <1>1, <1>2
  <1>4. QED BY <1>3, BackedKept

\* The same for a step that does not write accounts of the pool.
LEMMA BackedKeptBySame ==
  ASSUME IInv, IInv', BackedInv, UNCHANGED <<epoch, list>>,
         \A x \in PoolStakes : PoolHolds(stake[x]) => stake'[x] = stake[x]
  PROVE  BackedInv'
  <1>1. \A x \in PoolStakes : stake[x].lamports \in Nat
    BY U64MaxAssumption DEF IInv, TypeOK, StakeAccount, StakeAddrs, U64
  <1>2. \A x \in PoolStakes : stake[x].lamports >= stake[x].lamports
    BY <1>1
  <1>3. QED BY <1>2, BackedKept

\* Steps that write the balance of one record, with what the pool then holds,
\* and no account of another record that the pool holds.
LEMMA BackedKeptByBalance ==
  ASSUME IInv, BackedInv, NEW v \in Validators, NEW b \in U64,
         UNCHANGED epoch, list' = SetBalance(list, v, b),
         b > 0 => PoolHolds(stake'[StakeAddress(v)]),
         b = stake'[StakeAddress(v)].lamports,
         \A w \in Validators \ {v} :
           PoolHolds(stake[StakeAddress(w)]) =>
             stake'[StakeAddress(w)] = stake[StakeAddress(w)]
  PROVE  BackedInv'
  <1> SUFFICES ASSUME epoch = 0, NEW q \in list', q.balance > 0
               PROVE  /\ PoolHolds(stake'[StakeAddress(q.validator_account)])
                      /\ q.balance
                           <= stake'[StakeAddress(q.validator_account)].lamports
    BY DEF BackedInv
  <1>1. list \in SUBSET ValidatorStakeInfo /\ b \in Nat
    BY U64MaxAssumption DEF IInv, TypeOK, U64
  <1>2. /\ q.validator_account = v => q.balance = b
        /\ q.validator_account # v => q \in list
    BY <1>1, SetBalanceRecords
  <1>3. CASE q.validator_account = v
    BY <1>1, <1>2, <1>3
  <1>4. CASE q.validator_account # v
    <2>1. q \in list /\ q.validator_account \in Validators \ {v}
      BY <1>1, <1>2, <1>4 DEF ValidatorStakeInfo
    <2>2. QED BY <2>1 DEF BackedInv
  <1>5. QED BY <1>3, <1>4

\* AddValidatorStakeAccount: the account comes to the pool with the record.
LEMMA AddKeepsBacked ==
  ASSUME IInv, BackedInv, NEW u \in Users, NEW v \in Validators, NEW w \in Users,
         process_add_validator_stake_account(u, v, w)
  PROVE  BackedInv'
  <1> DEFINE addr == StakeAddress(v)
             new == AuthorizedBoth(stake[addr], WithdrawAuthority)
             rec == [validator_account |-> v, balance |-> stake[addr].lamports,
                     last_update_epoch |-> epoch]
  <1>1. /\ ~Contains(list, v) /\ list' = list \cup {rec} /\ UNCHANGED epoch
        /\ stake' = [stake EXCEPT ![addr] = new]
    BY DEF process_add_validator_stake_account
  <1>2. /\ addr \in StakeAddrs /\ stake[addr] \in StakeAccount
        /\ stake \in [StakeAddrs -> StakeAccount]
        /\ list \in SUBSET ValidatorStakeInfo /\ stake[addr].lamports \in Nat
    BY AddressFacts, U64MaxAssumption DEF IInv, TypeOK, StakeAccount, U64
  <1>3. PoolHolds(new) /\ new.lamports = stake[addr].lamports
    BY <1>2, AuthorizedBothFacts DEF PoolHolds, Keys
  <1>4. rec.validator_account = v /\ rec.balance = stake[addr].lamports
    OBVIOUS
  <1> HIDE DEF new, rec
  <1>5. stake'[addr] = new /\ \A x \in StakeAddrs \ {addr} : stake'[x] = stake[x]
    BY <1>1, <1>2
  <1> SUFFICES ASSUME epoch = 0, NEW q \in list', q.balance > 0
               PROVE  /\ PoolHolds(stake'[StakeAddress(q.validator_account)])
                      /\ q.balance
                           <= stake'[StakeAddress(q.validator_account)].lamports
    BY <1>1 DEF BackedInv
  <1>6. CASE q = rec
    BY <1>2, <1>3, <1>4, <1>5, <1>6
  <1>7. CASE q # rec
    <2>1. q \in list /\ q.validator_account \in Validators \ {v}
      BY <1>1, <1>2, <1>7 DEF ValidatorStakeInfo, Contains
    <2>2. StakeAddress(q.validator_account) \in StakeAddrs \ {addr}
      BY <2>1, AddressFacts
    <2>3. QED BY <1>5, <2>1, <2>2 DEF BackedInv
  <1>8. QED BY <1>6, <1>7

\* RemoveValidatorStakeAccount: the record goes with the account.
LEMMA RemoveKeepsBacked ==
  ASSUME IInv, BackedInv, NEW u \in Users, NEW w \in Users, NEW v \in Validators,
         NEW k \in Keys, process_remove_validator_stake_account(u, w, v, k)
  PROVE  BackedInv'
  <1> DEFINE addr == StakeAddress(v)
             new == AuthorizedBoth(stake[addr], k)
  <1>1. /\ list' = Retain(list, v) /\ UNCHANGED epoch
        /\ stake' = [stake EXCEPT ![addr] = new]
    BY DEF process_remove_validator_stake_account
  <1>2. /\ stake \in [StakeAddrs -> StakeAccount]
        /\ list \in SUBSET ValidatorStakeInfo
    BY DEF IInv, TypeOK
  <1> SUFFICES ASSUME epoch = 0, NEW q \in list', q.balance > 0
               PROVE  /\ PoolHolds(stake'[StakeAddress(q.validator_account)])
                      /\ q.balance
                           <= stake'[StakeAddress(q.validator_account)].lamports
    BY <1>1 DEF BackedInv
  <1>3. q \in list /\ q.validator_account \in Validators \ {v}
    BY <1>1, <1>2 DEF Retain, ValidatorStakeInfo
  <1>4. StakeAddress(q.validator_account) \in StakeAddrs \ {addr}
    BY <1>3, AddressFacts
  <1> HIDE DEF new, addr
  <1>5. stake'[StakeAddress(q.validator_account)]
          = stake[StakeAddress(q.validator_account)]
    BY <1>1, <1>2, <1>4
  <1>6. QED BY <1>3, <1>5 DEF BackedInv

\* Deposit: the source belongs to the deposit authority, so no record rests
\* on it; the target was the pool's and takes the sum.
LEMMA DepositKeepsBacked ==
  ASSUME IInv, BackedInv, NEW addr \in StakeAddrs, NEW v \in Validators,
         NEW u \in Users, process_deposit(addr, v, u)
  PROVE  BackedInv'
  <1> DEFINE target == StakeAddress(v)
             joined == AuthorizedBoth(stake[addr], WithdrawAuthority)
             merged == Merged(stake[target], joined)
             b == stake'[target].lamports
  <1>1. /\ addr # target /\ UNCHANGED epoch
        /\ CanAuthorizeBoth(stake[addr], DepositAuthority, WithdrawAuthority)
        /\ CanMerge(stake[target], joined, WithdrawAuthority)
        /\ stake' = [stake EXCEPT ![target] = merged, ![addr] = NoAccount]
        /\ list' = SetBalance(list, v, b)
    BY DEF process_deposit
  <1>2. /\ target \in StakeAddrs /\ stake[addr] \in StakeAccount
        /\ stake[target] \in StakeAccount
        /\ stake \in [StakeAddrs -> StakeAccount]
    BY AddressFacts DEF IInv, TypeOK
  <1>3. joined \in StakeAccount /\ joined.withdrawer = WithdrawAuthority
    BY <1>2, AuthorizedBothFacts DEF Keys
  <1> HIDE DEF joined
  <1>4. merged \in StakeAccount
    BY <1>1, <1>2, <1>3, MergedFacts
  <1>5. PoolHolds(merged)
    BY <1>1, <1>2, <1>3 DEF PoolHolds, CanMerge, Merged, StakeAccount
  <1>6. ~PoolHolds(stake[addr])
    BY <1>1, <1>2, CanAuthorizeBothFacts, KeyAssumption DEF PoolHolds
  <1> HIDE DEF merged
  <1>7. /\ stake'[target] = merged
        /\ \A x \in StakeAddrs \ {target, addr} : stake'[x] = stake[x]
    BY <1>1, <1>2
  <1>8. b \in U64 /\ PoolHolds(stake'[target])
    BY <1>4, <1>5, <1>7 DEF StakeAccount
  <1>9. \A w \in Validators \ {v} :
          PoolHolds(stake[StakeAddress(w)]) =>
            stake'[StakeAddress(w)] = stake[StakeAddress(w)]
    BY <1>6, <1>7, AddressFacts
  <1>10. b = stake'[target].lamports
    OBVIOUS
  <1> HIDE DEF b
  <1>11. QED BY <1>1, <1>8, <1>9, <1>10, BackedKeptByBalance

\* Withdraw: the record is what is left.
LEMMA WithdrawKeepsBacked ==
  ASSUME IInv, BackedInv, NEW u \in Users, NEW v \in Validators,
         NEW addr \in UserStakes, NEW k \in Keys, NEW n \in Nat,
         process_withdraw(u, v, addr, k, n)
  PROVE  BackedInv'
  <1> DEFINE source == StakeAddress(v)
             l == calc_lamports_amount(pool, n)
             rest == SplitSource(stake[source], l)
             split == SplitTarget(stake[source], l)
             out == AuthorizedBoth(split, k)
             b == stake'[source].lamports
  <1>1. /\ l \in U64 /\ UNCHANGED epoch
        /\ CanSplit(stake[source], WithdrawAuthority, l)
        /\ CanAuthorizeBoth(split, WithdrawAuthority, k)
        /\ stake' = [stake EXCEPT ![source] = rest, ![addr] = out]
        /\ list' = SetBalance(list, v, b)
    BY DEF process_withdraw
  <1>2. /\ source \in StakeAddrs /\ addr \in StakeAddrs /\ source # addr
        /\ stake[source] \in StakeAccount
        /\ stake \in [StakeAddrs -> StakeAccount]
    BY AddressFacts DEF IInv, TypeOK
  <1> HIDE DEF l
  <1>3. /\ rest \in StakeAccount /\ split \in StakeAccount
        /\ split.withdrawer = stake[source].withdrawer
    BY <1>1, <1>2, SplitFacts
  <1>4. PoolHolds(stake[source])
    <2> HIDE DEF split
    <2>1. split.withdrawer = WithdrawAuthority
      BY <1>1, <1>3, CanAuthorizeBothFacts
    <2>2. stake[source].staker = WithdrawAuthority
      BY <1>1 DEF CanSplit
    <2>3. QED BY <1>3, <2>1, <2>2 DEF PoolHolds
  <1>5. rest.lamports > 0 => PoolHolds(rest)
    <2>1. CASE l = stake[source].lamports
      BY <2>1, NoAccountFacts DEF SplitSource
    <2>2. CASE l # stake[source].lamports
      BY <1>2, <1>4, <2>2 DEF SplitSource, PoolHolds, StakeAccount
    <2>3. QED BY <2>1, <2>2
  <1> HIDE DEF rest, split, out
  <1>6. /\ stake'[source] = rest
        /\ \A x \in StakeAddrs \ {source, addr} : stake'[x] = stake[x]
    BY <1>1, <1>2
  <1>7. b > 0 => PoolHolds(stake'[source])
    BY <1>3, <1>5, <1>6 DEF StakeAccount
  <1>8. b \in U64
    BY <1>3, <1>6 DEF StakeAccount
  <1>9. \A w \in Validators \ {v} :
          stake'[StakeAddress(w)] = stake[StakeAddress(w)]
    BY <1>6, AddressFacts
  <1>10. b = stake'[source].lamports
    OBVIOUS
  <1> HIDE DEF b
  <1>11. QED BY <1>1, <1>7, <1>8, <1>9, <1>10, BackedKeptByBalance

\* In the first epoch every record is fresh, and an update changes none.
LEMMA UpdatesKeepBacked ==
  ASSUME IInv, BackedInv,
         \/ \E accounts \in UpdateArguments : process_update_list_balance(accounts)
         \/ process_update_pool_balance
         \/ UpdateTransaction
  PROVE  BackedInv'
  <1>1. UNCHANGED <<epoch, stake>>
    BY DEF process_update_list_balance, process_update_pool_balance,
           UpdateTransaction
  <1> SUFFICES ASSUME epoch = 0 PROVE BackedInv'
    BY <1>1 DEF BackedInv
  <1>2. ASSUME NEW accounts
        PROVE  {UpdatedRecord(r, accounts) : r \in list} = list
    <2>1. ASSUME NEW r \in list PROVE UpdatedRecord(r, accounts) = r
      <3>1. r.last_update_epoch \in Nat
        BY DEF IInv, TypeOK, ValidatorStakeInfo
      <3>2. QED BY <3>1 DEF UpdatedRecord
    <2>2. QED BY <2>1
  <1>3. list' = list
    BY <1>2 DEF process_update_list_balance, process_update_pool_balance,
                UpdateTransaction
  <1>4. QED BY <1>1, <1>3 DEF BackedInv

\* A wallet is neither the staker nor the withdrawer of an account of the
\* pool, so nothing it does with the stake program reaches one.
LEMMA UserKeepsBacked ==
  ASSUME IInv, IInv', BackedInv, NEW u \in Users, NEW addr \in StakeAddrs,
         UserNext(u, addr)
  PROVE  BackedInv'
  <1>1. /\ stake \in [StakeAddrs -> StakeAccount] /\ u # WithdrawAuthority
        /\ UserStakes \subseteq StakeAddrs /\ PoolStakes \subseteq StakeAddrs
        /\ PoolStakes \cap UserStakes = {}
    BY KeyAssumption DEF IInv, TypeOK, StakeAddrs
  <1>2. ASSUME NEW new, stake' = [stake EXCEPT ![addr] = new],
               ~PoolHolds(stake[addr]), UNCHANGED <<epoch, list>>
        PROVE  BackedInv'
    BY <1>2, BackedKeptByOne
  <1>3. ASSUME NEW v \in Validators, UserDelegates(u, addr, v)
        PROVE  BackedInv'
    <2>1. /\ ~PoolHolds(stake[addr]) /\ UNCHANGED <<epoch, list>>
          /\ stake' = [stake EXCEPT ![addr] =
                         [stake[addr] EXCEPT !.state = "Stake", !.voter = v]]
      BY <1>1, <1>3 DEF UserDelegates, PoolHolds
    <2>2. QED BY <1>2, <2>1
  <1>4. ASSUME NEW key \in Authorities, NEW kind \in {"Staker", "Withdrawer"},
               UserAuthorizes(u, addr, key, kind)
        PROVE  BackedInv'
    <2>1. /\ ~PoolHolds(stake[addr]) /\ UNCHANGED <<epoch, list>>
          /\ stake' = [stake EXCEPT ![addr] = Authorized(stake[addr], key, kind)]
      BY <1>1, <1>4 DEF UserAuthorizes, CanAuthorize, PoolHolds
    <2>2. QED BY <1>2, <2>1
  <1>5. ASSUME NEW dest \in UserStakes, NEW n \in SplitSizes,
               UserSplits(u, addr, dest, n)
        PROVE  BackedInv'
    <2>1. /\ ~PoolHolds(stake[addr]) /\ UNCHANGED <<epoch, list>>
          /\ stake' = [stake EXCEPT ![addr] = SplitSource(stake[addr], n),
                                    ![dest] = SplitTarget(stake[addr], n)]
      BY <1>1, <1>5 DEF UserSplits, CanSplit, PoolHolds
    <2>2. \A x \in PoolStakes : PoolHolds(stake[x]) => stake'[x] = stake[x]
      BY <1>1, <2>1
    <2>3. QED BY <1>1, <2>1, <2>2, BackedKeptBySame
  <1>6. ASSUME NEW source \in StakeAddrs, UserMerges(u, addr, source)
        PROVE  BackedInv'
    <2>1. /\ ~PoolHolds(stake[addr]) /\ ~PoolHolds(stake[source])
          /\ UNCHANGED <<epoch, list>>
          /\ stake' = [stake EXCEPT ![addr] = Merged(stake[addr], stake[source]),
                                    ![source] = NoAccount]
      BY <1>1, <1>6 DEF UserMerges, CanMerge, PoolHolds
    <2>2. \A x \in PoolStakes : PoolHolds(stake[x]) => stake'[x] = stake[x]
      BY <1>1, <2>1
    <2>3. QED BY <1>1, <2>1, <2>2, BackedKeptBySame
  <1>7. ASSUME UserClosesStake(u, addr)
        PROVE  BackedInv'
    <2>1. /\ ~PoolHolds(stake[addr]) /\ UNCHANGED <<epoch, list>>
          /\ stake' = [stake EXCEPT ![addr] = NoAccount]
      BY <1>1, <1>7 DEF UserClosesStake, PoolHolds
    <2>2. QED BY <1>2, <2>1
  <1>8. QED
    BY <1>3, <1>4, <1>5, <1>6, <1>7 DEF UserNext

\* Every step keeps the records of the first epoch backed, if the owner gives
\* the staking authority to no other key.
LEMMA NextBacked ==
  ASSUME Stakers \subseteq {WithdrawAuthority}, IInv, IInv', EmptyIsNoAccount,
         BackedInv, [Next]_vars
  PROVE  BackedInv'
  <1>1. /\ token \in [Users -> Nat] /\ epoch \in Nat /\ Authorities \subseteq Keys
        /\ stake \in [StakeAddrs -> StakeAccount]
        /\ \A x \in StakeAddrs : stake[x].lamports \in Nat
    BY PoolAssumption, U64MaxAssumption DEF IInv, TypeOK, StakeAccount, U64
  <1>2. CASE UNCHANGED <<epoch, list, stake>>
    BY <1>2 DEF BackedInv
  <1>3. CASE OwnerNext
    <2>1. ASSUME NEW u \in Users, NEW fee \in Fees, process_initialize(u, fee)
          PROVE  BackedInv'
      BY <2>1 DEF process_initialize, BackedInv
    <2>2. ASSUME NEW u \in Users, NEW w \in Users, NEW v \in Validators,
                 NEW k \in Authorities,
                 process_remove_validator_stake_account(u, w, v, k)
          PROVE  BackedInv'
      BY <1>1, <2>2, RemoveKeepsBacked
    <2>3. ASSUME NEW u \in Users, NEW addr \in StakeAddrs, NEW k \in Stakers,
                 process_set_staking_auth(u, addr, k)
          PROVE  BackedInv'
      <3> DEFINE new == Authorized(stake[addr], k, "Staker")
      <3>1. /\ stake' = [stake EXCEPT ![addr] = new] /\ UNCHANGED <<epoch, list>>
            /\ k = WithdrawAuthority /\ stake[addr] \in StakeAccount
        BY <1>1, <2>3 DEF process_set_staking_auth
      <3>2. /\ new.withdrawer = stake[addr].withdrawer
            /\ new.staker = WithdrawAuthority
            /\ new.lamports = stake[addr].lamports
        BY <3>1 DEF Authorized, StakeAccount
      <3>3. new.lamports >= stake[addr].lamports
        BY <1>1, <3>2
      <3> HIDE DEF new
      <3>4. QED BY <3>1, <3>2, <3>3, BackedKeptByOne DEF PoolHolds
    <2>4. QED
      BY <1>2, <1>3, <2>1, <2>2, <2>3, AddKeepsBacked
         DEF OwnerNext, process_set_owner
  <1>4. CASE AnyoneNext
    <2>1. ASSUME NEW v \in Validators, NEW k \in Authorities,
                 NEW w \in Authorities,
                 process_create_validator_stake_account(v, k, w)
          PROVE  BackedInv'
      <3> DEFINE addr == StakeAddress(v)
                 new == [state |-> "Initialized",
                         lamports |-> OneSol + RentReserve,
                         staker |-> k, withdrawer |-> w, voter |-> NoKey]
      <3>1. /\ stake[addr].state = "None" /\ addr \in StakeAddrs
            /\ stake' = [stake EXCEPT ![addr] = new] /\ UNCHANGED <<epoch, list>>
        BY <2>1, AddressFacts DEF process_create_validator_stake_account
      <3>2. ~PoolHolds(stake[addr])
        BY <3>1, NoAccountFacts, KeyAssumption DEF EmptyIsNoAccount, PoolHolds, Keys
      <3> HIDE DEF new, addr
      <3>3. QED BY <3>1, <3>2, BackedKeptByOne
    <2>2. CASE \/ \E accounts \in UpdateArguments :
                    process_update_list_balance(accounts)
               \/ process_update_pool_balance
               \/ CliUpdate
               \/ \E force \in BOOLEAN : MetacliUpdate(force)
      BY <2>2, UpdatesKeepBacked DEF CliUpdate, MetacliUpdate
    <2>3. ASSUME NEW u \in Users, NEW v \in Validators, NEW addr \in UserStakes,
                 NEW k \in Authorities, NEW n \in 1 .. token[u],
                 process_withdraw(u, v, addr, k, n)
          PROVE  BackedInv'
      <3>1. n \in Nat /\ k \in Keys
        BY <1>1
      <3>2. QED BY <2>3, <3>1, WithdrawKeepsBacked
    <2>4. QED BY <1>4, <2>1, <2>2, <2>3, DepositKeepsBacked DEF AnyoneNext
  <1>5. CASE EnvironmentNext
    <2>1. ASSUME NEW u \in Users, NEW addr \in UserStakes, NEW v \in Validators,
                 NEW n \in UserDeposits, UserCreatesStake(u, addr, v, n)
          PROVE  BackedInv'
      <3> DEFINE new == [state |-> "Stake", lamports |-> n, staker |-> u,
                         withdrawer |-> u, voter |-> v]
      <3>1. /\ stake[addr].state = "None" /\ addr \in StakeAddrs
            /\ stake' = [stake EXCEPT ![addr] = new] /\ UNCHANGED <<epoch, list>>
        BY <2>1, AddressFacts DEF UserCreatesStake
      <3>2. ~PoolHolds(stake[addr])
        BY <3>1, NoAccountFacts, KeyAssumption DEF EmptyIsNoAccount, PoolHolds, Keys
      <3> HIDE DEF new
      <3>3. QED BY <3>1, <3>2, BackedKeptByOne
    <2>2. ASSUME NEW addr \in StakeAddrs, NEW n \in OutsideTransfers,
                 OutsideTransfer(addr, n)
          PROVE  BackedInv'
      <3> DEFINE new == [stake[addr] EXCEPT !.lamports = @ + n]
      <3>1. /\ stake' = [stake EXCEPT ![addr] = new] /\ UNCHANGED <<epoch, list>>
            /\ stake[addr] \in StakeAccount /\ n \in Nat
        BY <1>1, <2>2, PoolAssumption DEF OutsideTransfer
      <3>2. /\ new.withdrawer = stake[addr].withdrawer
            /\ new.staker = stake[addr].staker
            /\ new.lamports >= stake[addr].lamports
        BY <1>1, <3>1 DEF StakeAccount
      <3> HIDE DEF new
      <3>3. QED BY <3>1, <3>2, BackedKeptByOne DEF PoolHolds
    <2>3. ASSUME NEW paid \in SUBSET StakeAddrs, NextEpoch(paid)
          PROVE  BackedInv'
      BY <1>1, <2>3 DEF NextEpoch, BackedInv
    <2>4. ASSUME NEW u \in Users, NEW n, UserBurns(u, n)
          PROVE  BackedInv'
      BY <1>2, <2>4 DEF UserBurns
    <2>5. QED BY <1>5, <2>1, <2>2, <2>3, <2>4, UserKeepsBacked DEF EnvironmentNext
  <1>6. CASE UNCHANGED vars
    BY <1>2, <1>6 DEF vars
  <1>7. QED BY <1>3, <1>4, <1>5, <1>6 DEF Next

\* Through any sequence of additions, deposits, withdrawals and removals of
\* the first epoch, with accounts drained and created again by anyone for any
\* authorities and lamports sent to them from outside, no record promises more
\* than the pool controls at its validator, as long as the owner gives no
\* other key the staking authority.
THEOREM FirstEpochBooks ==
  ASSUME Stakers \subseteq {WithdrawAuthority}
  PROVE  Spec => []RecordsBacked
  <1>1. Init => BackedInv
    BY DEF Init, BackedInv
  <1>2. IInv /\ IInv' /\ EmptyIsNoAccount /\ BackedInv /\ [Next]_vars => BackedInv'
    BY NextBacked
  <1>3. IInv /\ BackedInv => RecordsBacked
    <2> SUFFICES ASSUME IInv, BackedInv, epoch = 0, NEW r \in list
                 PROVE  r.balance
                          <= CustodyLamports(StakeAddress(r.validator_account))
      BY DEF RecordsBacked
    <2>1. r.balance \in Nat /\ r.validator_account \in Validators
      BY U64MaxAssumption DEF IInv, TypeOK, ValidatorStakeInfo, U64
    <2>2. CustodyLamports(StakeAddress(r.validator_account)) \in Nat
      BY <2>1, AddressFacts, CustodyFacts DEF IInv
    <2>3. CASE r.balance = 0
      BY <2>2, <2>3
    <2>4. CASE r.balance > 0
      BY <2>4 DEF BackedInv, PoolHolds, CustodyLamports
    <2>5. QED BY <2>1, <2>3, <2>4
  <1>4. QED BY <1>1, <1>2, <1>3, VaultInvariance, PTL DEF Spec

=============================================================================
