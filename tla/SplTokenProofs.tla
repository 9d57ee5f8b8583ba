---------------------------- MODULE SplTokenProofs ----------------------------
(***************************************************************************)
(* Theorems about SplToken, for every value of its constants.              *)
(***************************************************************************)
EXTENDS SplToken, ArithmeticProofs

\* The inductive invariant.  Backing needs no help beyond the types: the
\* two sides of it change together in every instruction.  That wrapped SOL
\* is never frozen is what FrozenHoldsStill needs: CloseAccount looks at the
\* balance of the other accounts only, and at no account's freezing.  That
\* an account which is not initialized holds nothing is what
\* SpendsAreAuthorized needs: InitializeAccount overwrites the amount.
NativeNotFrozen == \A a \in Accounts : is_native(a) => ~is_frozen(a)

EmptyUntilInitialized ==
  \A a \in Accounts : is_initialized(a) \/ account[a].amount = 0

IInv == TypeOK /\ NativeBacked /\ NativeNotFrozen /\ EmptyUntilInitialized

(***************************************************************************)
(* Lemmas about the operators the handlers are built from.                 *)
(***************************************************************************)

\* Charging a spend to the allowance changes the delegation only, and keeps
\* it a u64 when MaySpend holds.
LEMMA ChargedFacts ==
  ASSUME NEW acc \in Account, NEW k \in Keys, NEW n \in U64,
         k = acc.delegate => n <= acc.delegated_amount
  PROVE  LET c == Charged(acc, k, n)
         IN  /\ c \in Account
             /\ c.mint = acc.mint /\ c.owner = acc.owner /\ c.amount = acc.amount
             /\ c.state = acc.state /\ c.is_native = acc.is_native
             /\ c.close_authority = acc.close_authority
             /\ IF k = acc.delegate
                THEN c.delegated_amount = acc.delegated_amount - n
                ELSE c = acc
  <1>1. CASE k = acc.delegate
    <2>1. acc.delegated_amount - n \in U64
      BY <1>1, U64MaxAssumption DEF Account, U64
    <2>2. QED BY <1>1, <2>1 DEF Charged, Account
  <1>2. CASE k # acc.delegate
    BY <1>2 DEF Charged
  <1>3. QED BY <1>1, <1>2

\* Nothing is an initialized account.
LEMMA NoAccountFacts == NoAccount \in Account /\ NoAccount.is_native = None
                        /\ NoAccount.amount = 0 /\ NoAccount.mint # NativeMint
                        /\ NoAccount.state = "Uninitialized"
  BY U64MaxAssumption, TokenAssumption
     DEF NoAccount, Account, AccountState, U64, None

(***************************************************************************)
(* The invariant holds initially and is preserved, one lemma per group of  *)
(* actions.                                                                *)
(***************************************************************************)
LEMMA InitInv == Init => IInv
  BY NoAccountFacts, U64MaxAssumption, TokenAssumption
     DEF Init, IInv, TypeOK, NativeBacked, NativeNotFrozen, EmptyUntilInitialized,
         is_frozen, Mint, Multisig, U64, is_native, is_initialized

\* Instructions that initialize something.
LEMMA InitializeInv == ASSUME IInv, InitializeNext PROVE IInv'
  <1> USE U64MaxAssumption, TokenAssumption
          DEF IInv, TypeOK, NativeBacked, NativeNotFrozen, EmptyUntilInitialized, U64,
              is_native, is_initialized, is_frozen
  <1>1. ASSUME NEW m \in Mints, NEW k \in Authorities,
               NEW f \in Authorities \cup {NoKey},
               process_initialize_mint(m, k, f)
        PROVE  IInv'
    BY <1>1 DEF process_initialize_mint, Mint, Keys
  <1>2. ASSUME NEW a \in Accounts, NEW m \in Mints \cup {NativeMint},
               NEW k \in Owners, NEW funds \in RentReserve .. cash,
               process_initialize_account(a, m, k, funds)
        PROVE  IInv'
    <2> DEFINE new == account'[a]
    <2>1. account' = [account EXCEPT ![a] = new]
      BY <1>2 DEF process_initialize_account
    <2>2. /\ new \in Account /\ new.mint = m /\ new.state = "Initialized"
          /\ m = NativeMint => new.is_native = RentReserve
                               /\ new.amount = funds - RentReserve
          /\ m # NativeMint => new.is_native = None
      <3>1. account[a] \in Account /\ k \in Keys /\ 0 \in U64
            /\ funds - RentReserve \in U64 /\ RentReserve \in U64
        BY <1>2 DEF process_initialize_account
      <3>2. new = [account[a] EXCEPT
              !.mint = m, !.owner = k, !.delegate = NoKey, !.delegated_amount = 0,
              !.state = "Initialized",
              !.is_native = IF m = NativeMint THEN RentReserve ELSE None,
              !.amount = IF m = NativeMint THEN funds - RentReserve ELSE 0]
        BY <1>2 DEF process_initialize_account
      <3> HIDE DEF new, IInv, TypeOK, U64
      <3>3. QED BY <3>1, <3>2 DEF Account, AccountState
    <2> HIDE DEF new
    <2>3. QED BY <1>2, <2>1, <2>2 DEF process_initialize_account, None
  <1>3. ASSUME NEW k \in Multisigs, NEW m \in 1 .. MaxSigners,
               NEW signers \in SignerLists,
               process_initialize_multisig(k, m, signers)
        PROVE  IInv'
    BY <1>3 DEF process_initialize_multisig, Multisig
  <1>4. QED BY <1>1, <1>2, <1>3 DEF InitializeNext

\* An instruction that writes the data of one account, its mint's supply
\* perhaps too, and moves no lamports.
LEMMA DataStep ==
  ASSUME IInv, NEW a \in Accounts, NEW new \in Account,
         account' = [account EXCEPT ![a] = new],
         is_initialized(a), new.state # "Uninitialized",
         new.mint = account[a].mint, new.is_native = account[a].is_native,
         is_native(a) => new.amount = account[a].amount /\ new.state = account[a].state,
         mint' \in [Mints -> Mint],
         \A m \in Mints : mint'[m].is_initialized = mint[m].is_initialized,
         UNCHANGED <<tx, lamports, multisig, cash>>
  PROVE  IInv'
  BY DEF IInv, TypeOK, NativeBacked, NativeNotFrozen,
          EmptyUntilInitialized, is_native,
          is_initialized, is_frozen

\* An instruction that writes the authorities of a mint.
LEMMA AuthoritiesStep ==
  ASSUME IInv, mint' \in [Mints -> Mint],
         \A m \in Mints : mint'[m].is_initialized = mint[m].is_initialized,
         UNCHANGED <<tx, account, lamports, multisig, cash>>
  PROVE  IInv'
  BY DEF IInv, TypeOK, NativeBacked, NativeNotFrozen,
          EmptyUntilInitialized, is_native,
          is_initialized, is_frozen

\* What Transfer and Burn write to the account they take from.
LEMMA SpentFacts ==
  ASSUME TypeOK, NEW a \in Accounts, NEW k \in Keys,
         NEW n \in 0 .. account[a].amount, MaySpend(a, k, n)
  PROVE  LET new == Spent(account[a], k, n)
         IN  /\ new \in Account /\ n \in U64
             /\ new.amount = account[a].amount - n
             /\ new.mint = account[a].mint /\ new.owner = account[a].owner
             /\ new.state = account[a].state
             /\ new.is_native = account[a].is_native
             /\ new.close_authority = account[a].close_authority
             /\ IF k = account[a].delegate
                THEN new.delegated_amount = account[a].delegated_amount - n
                ELSE new.delegated_amount = account[a].delegated_amount
  <1> DEFINE c == Charged(account[a], k, n)
  <1>1. account[a] \in Account /\ n \in U64 /\ account[a].amount - n \in U64
    BY U64MaxAssumption DEF TypeOK, Account, U64
  <1>2. k = account[a].delegate => n <= account[a].delegated_amount
    BY DEF MaySpend
  <1>3. /\ c \in Account /\ c.amount = account[a].amount
        /\ c.mint = account[a].mint /\ c.owner = account[a].owner
        /\ c.state = account[a].state /\ c.is_native = account[a].is_native
        /\ c.close_authority = account[a].close_authority
        /\ IF k = account[a].delegate
           THEN c.delegated_amount = account[a].delegated_amount - n
           ELSE c = account[a]
    BY <1>1, <1>2, ChargedFacts
  <1> HIDE DEF c
  <1>4. QED BY <1>1, <1>3 DEF Account, c, Spent

\* Instructions on token accounts and their tokens.
LEMMA TokenInv == ASSUME IInv, TokenNext PROVE IInv'
  <1>0. PICK a \in Accounts :
          \/ \E d \in Accounts, k \in Keys : \E n \in 0 .. account[a].amount :
               process_transfer(a, d, k, n)
          \/ \E k \in Keys : \E n \in 0 .. account[a].amount : process_burn(a, k, n)
          \/ \E m \in Mints, n \in Issues : process_mint_to(m, a, n)
          \/ \E k \in Delegates, n \in Allowances : process_approve(a, k, n)
          \/ process_revoke(a)
          \/ \E freeze \in BOOLEAN : process_toggle_freeze_account(a, freeze)
          \/ \E dest \in Accounts \cup {NoKey} : process_close_account(a, dest)
    BY DEF TokenNext
  <1>t. TypeOK /\ account[a] \in Account
    BY DEF IInv, TypeOK
  <1>1. ASSUME NEW d \in Accounts, NEW k \in Keys, NEW n \in 0 .. account[a].amount,
               process_transfer(a, d, k, n)
        PROVE  IInv'
    <2>1. CASE a = d
      <3>1. UNCHANGED <<tx, mint, account, lamports, multisig, cash>>
        BY <1>1, <2>1 DEF process_transfer, Moved
      <3>2. QED BY <3>1 DEF IInv, TypeOK, NativeBacked, NativeNotFrozen,
          EmptyUntilInitialized, is_native,
          is_initialized, is_frozen
    <2>2. CASE a # d
      <3> DEFINE new == Spent(account[a], k, n)
                 got == [account[d] EXCEPT !.amount = @ + n]
      <3>1. /\ new \in Account /\ n \in U64 /\ new.amount = account[a].amount - n
            /\ new.mint = account[a].mint /\ new.state = account[a].state
            /\ new.is_native = account[a].is_native
        BY <1>1, <1>t, SpentFacts DEF process_transfer
      <3>2. /\ got \in Account /\ got.amount = account[d].amount + n
            /\ got.mint = account[d].mint /\ got.state = account[d].state
            /\ got.is_native = account[d].is_native
        <4>1. account[d] \in Account /\ account[d].amount + n \in U64
          BY <1>1, <1>t, <2>2 DEF process_transfer, TypeOK
        <4>2. QED BY <4>1 DEF Account
      <3>3. account' = [account EXCEPT ![a] = new, ![d] = got]
        BY <1>1, <1>t, <2>2 DEF process_transfer, Moved, TypeOK
      <3> HIDE DEF new, got
      <3>4. is_native(a) <=> is_native(d)
        BY <1>1, <1>t DEF process_transfer, TypeOK
      <3>5. lamports' \in [Accounts -> U64]
        BY <1>1, <1>t, <2>2, U64MaxAssumption DEF process_transfer, TypeOK, U64
      <3>6. TypeOK'
        BY <1>1, <1>t, <2>2, <3>1, <3>2, <3>3, <3>5
           DEF process_transfer, TypeOK, is_native, is_initialized
      <3>7. NativeBacked'
        <4>1. account[d] \in Account /\ lamports[a] \in Nat /\ lamports[d] \in Nat
              /\ account[a].amount \in Nat /\ account[d].amount \in Nat
          BY <1>t, U64MaxAssumption DEF TypeOK, Account, U64
        <4>2. CASE is_native(a)
          BY <1>1, <1>t, <2>2, <3>1, <3>2, <3>3, <3>4, <4>1, <4>2
             DEF process_transfer, TypeOK, IInv, NativeBacked, is_native
        <4>3. CASE ~is_native(a)
          BY <1>1, <1>t, <2>2, <3>1, <3>2, <3>3, <3>4, <4>3
             DEF process_transfer, TypeOK, IInv, NativeBacked, is_native
        <4>4. QED BY <4>2, <4>3
      <3>8. NativeNotFrozen'
        BY <1>t, <3>1, <3>2, <3>3
           DEF IInv, NativeNotFrozen, TypeOK, is_native, is_frozen
      <3>9. EmptyUntilInitialized'
        BY <1>1, <1>t, <3>1, <3>2, <3>3
           DEF process_transfer, IInv, EmptyUntilInitialized, TypeOK, is_initialized
      <3>10. QED BY <3>6, <3>7, <3>8, <3>9 DEF IInv
    <2>3. QED BY <2>1, <2>2
  <1>2. ASSUME NEW k \in Keys, NEW n \in 0 .. account[a].amount,
               process_burn(a, k, n)
        PROVE  IInv'
    <2> DEFINE new == Spent(account[a], k, n)
               m == account[a].mint
    <2>1. /\ new \in Account /\ n \in U64
          /\ new.mint = account[a].mint /\ new.state = account[a].state
          /\ new.is_native = account[a].is_native
      BY <1>2, <1>t, SpentFacts DEF process_burn
    <2>2. account' = [account EXCEPT ![a] = new]
      BY <1>2 DEF process_burn
    <2>3. m \in Mints /\ mint[m] \in Mint /\ mint[m].supply - n \in U64
      BY <1>2, <1>t, <2>1, U64MaxAssumption DEF process_burn, TypeOK, Mint, U64
    <2>4. mint' \in [Mints -> Mint]
          /\ \A x \in Mints : mint'[x].is_initialized = mint[x].is_initialized
      BY <1>2, <1>t, <2>3 DEF process_burn, TypeOK, Mint
    <2> HIDE DEF new, m
    <2>5. QED BY <1>2, <2>1, <2>2, <2>4, DataStep
              DEF process_burn, is_initialized
  <1>3. ASSUME NEW m \in Mints, NEW n \in Issues, process_mint_to(m, a, n)
        PROVE  IInv'
    <2> DEFINE new == [account[a] EXCEPT !.amount = @ + n]
    <2>1. /\ new \in Account
          /\ new.mint = account[a].mint /\ new.state = account[a].state
          /\ new.is_native = account[a].is_native
      BY <1>3, <1>t DEF process_mint_to, Account
    <2>2. account' = [account EXCEPT ![a] = new]
      BY <1>3, <1>t DEF process_mint_to, TypeOK
    <2>3. mint' \in [Mints -> Mint]
          /\ \A x \in Mints : mint'[x].is_initialized = mint[x].is_initialized
      BY <1>3, <1>t DEF process_mint_to, TypeOK, Mint
    <2> HIDE DEF new
    <2>4. QED BY <1>3, <2>1, <2>2, <2>3, DataStep
              DEF process_mint_to, is_initialized
  <1>4. ASSUME NEW k \in Delegates, NEW n \in Allowances, process_approve(a, k, n)
        PROVE  IInv'
    <2> DEFINE new == [account[a] EXCEPT !.delegate = k, !.delegated_amount = n]
    <2>1. /\ new \in Account /\ new.amount = account[a].amount
          /\ new.mint = account[a].mint /\ new.state = account[a].state
          /\ new.is_native = account[a].is_native
      BY <1>t, TokenAssumption DEF Account
    <2>2. account' = [account EXCEPT ![a] = new]
      BY <1>4, <1>t DEF process_approve, TypeOK
    <2> HIDE DEF new
    <2>3. QED BY <1>4, <1>t, <2>1, <2>2, DataStep
              DEF process_approve, is_initialized, TypeOK
  <1>5. CASE process_revoke(a)
    <2> DEFINE new == [account[a] EXCEPT !.delegate = NoKey, !.delegated_amount = 0]
    <2>1. /\ new \in Account /\ new.amount = account[a].amount
          /\ new.mint = account[a].mint /\ new.state = account[a].state
          /\ new.is_native = account[a].is_native
      <3>1. 0 \in U64
        BY U64MaxAssumption DEF U64
      <3>2. QED BY <1>t, <3>1 DEF Account
    <2>2. account' = [account EXCEPT ![a] = new]
      BY <1>5, <1>t DEF process_revoke, TypeOK
    <2> HIDE DEF new
    <2>3. QED BY <1>5, <1>t, <2>1, <2>2, DataStep
              DEF process_revoke, is_initialized, TypeOK
  <1>6. ASSUME NEW freeze \in BOOLEAN, process_toggle_freeze_account(a, freeze)
        PROVE  IInv'
    <2> DEFINE new == [account[a] EXCEPT
                         !.state = IF freeze THEN "Frozen" ELSE "Initialized"]
    <2>1. /\ new \in Account /\ new.amount = account[a].amount
          /\ new.mint = account[a].mint /\ new.state # "Uninitialized"
          /\ new.is_native = account[a].is_native
      BY <1>t DEF Account, AccountState
    <2>2. account' = [account EXCEPT ![a] = new]
      BY <1>6, <1>t DEF process_toggle_freeze_account, TypeOK
    <2> HIDE DEF new
    <2>3. QED BY <1>6, <1>t, <2>1, <2>2, DataStep
              DEF process_toggle_freeze_account, TypeOK
  <1>7. ASSUME NEW dest \in Accounts \cup {NoKey}, process_close_account(a, dest)
        PROVE  IInv'
    <2>1. /\ Closed(account[a]) \in Account /\ Closed(account[a]).amount = 0
          /\ Closed(account[a]).mint = account[a].mint
          /\ Closed(account[a]).state = account[a].state
          /\ Closed(account[a]).is_native = account[a].is_native
      BY <1>t, U64MaxAssumption DEF Closed, Account, U64
    <2>2. account' = [account EXCEPT ![a] = Closed(account[a])]
      BY <1>7, <1>t DEF process_close_account, TypeOK
    <2>3. /\ lamports' \in [Accounts -> U64] /\ cash' \in Nat
          /\ \A b \in Accounts \ {a} : lamports'[b] >= lamports[b]
          /\ lamports'[a] = 0
      BY <1>7, <1>t, U64MaxAssumption DEF process_close_account, TypeOK, U64
    <2>4. TypeOK'
      BY <1>7, <1>t, <2>1, <2>2, <2>3
         DEF process_close_account, TypeOK, is_native, is_initialized
    <2>5. NativeBacked'
      <3> SUFFICES ASSUME NEW b \in Accounts, is_native(b)'
                   PROVE  account'[b].amount <= lamports'[b]
        BY DEF NativeBacked
      <3>1. CASE b = a
        BY <1>t, <2>1, <2>2, <2>3, <3>1 DEF TypeOK
      <3>2. CASE b # a
        <4>1. account'[b] = account[b] /\ is_native(b)
          BY <1>t, <2>2, <3>2 DEF TypeOK, is_native
        <4>2. account[b].amount \in Nat /\ lamports[b] \in Nat /\ lamports'[b] \in Nat
          BY <1>t, <2>3, U64MaxAssumption DEF TypeOK, Account, U64
        <4>3. account[b].amount <= lamports[b] /\ lamports'[b] >= lamports[b]
          BY <2>3, <3>2, <4>1 DEF IInv, NativeBacked
        <4>4. QED BY <4>1, <4>2, <4>3
      <3>3. QED BY <3>1, <3>2
    <2>6. NativeNotFrozen'
      BY <1>t, <2>1, <2>2 DEF IInv, NativeNotFrozen, TypeOK, is_native, is_frozen
    <2>7. EmptyUntilInitialized'
      BY <1>t, <2>1, <2>2 DEF IInv, EmptyUntilInitialized, TypeOK, is_initialized
    <2>8. QED BY <2>4, <2>5, <2>6, <2>7 DEF IInv
  <1>8. QED BY <1>0, <1>1, <1>2, <1>3, <1>4, <1>5, <1>6, <1>7

\* SetAuthority.
LEMMA AuthorityInv == ASSUME IInv, AuthorityNext PROVE IInv'
  <1>1. ASSUME NEW a \in Accounts, NEW k \in Owners, set_account_owner(a, k)
        PROVE  IInv'
    <2> DEFINE new == [account[a] EXCEPT !.owner = k]
    <2>1. TypeOK /\ account[a] \in Account /\ k \in Keys
      BY TokenAssumption DEF IInv, TypeOK
    <2>2. /\ new \in Account /\ new.amount = account[a].amount
          /\ new.mint = account[a].mint /\ new.state = account[a].state
          /\ new.is_native = account[a].is_native
      BY <2>1 DEF Account
    <2>3. account' = [account EXCEPT ![a] = new]
      BY <1>1, <2>1 DEF set_account_owner, TypeOK
    <2> HIDE DEF new
    <2>4. QED BY <1>1, <2>1, <2>2, <2>3, DataStep
              DEF set_account_owner, is_initialized, TypeOK
  <1>2. ASSUME NEW a \in Accounts, NEW k \in Closers, set_close_authority(a, k)
        PROVE  IInv'
    <2> DEFINE new == [account[a] EXCEPT !.close_authority = k]
    <2>1. TypeOK /\ account[a] \in Account /\ k \in Keys \cup {NoKey}
      BY TokenAssumption DEF IInv, TypeOK
    <2>2. /\ new \in Account /\ new.amount = account[a].amount
          /\ new.mint = account[a].mint /\ new.state = account[a].state
          /\ new.is_native = account[a].is_native
      BY <2>1 DEF Account
    <2>3. account' = [account EXCEPT ![a] = new]
      BY <1>2, <2>1 DEF set_close_authority, TypeOK
    <2> HIDE DEF new
    <2>4. QED BY <1>2, <2>1, <2>2, <2>3, DataStep
              DEF set_close_authority, is_initialized, TypeOK
  <1>3. ASSUME NEW m \in Mints, NEW k \in Authorities \cup {NoKey},
               set_mint_authority(m, k) \/ set_freeze_authority(m, k)
        PROVE  IInv'
    <2>1. k \in Keys \cup {NoKey} /\ mint \in [Mints -> Mint]
      BY TokenAssumption DEF IInv, TypeOK
    <2>2. mint' \in [Mints -> Mint]
          /\ \A x \in Mints : mint'[x].is_initialized = mint[x].is_initialized
      BY <1>3, <2>1 DEF set_mint_authority, set_freeze_authority, Mint
    <2>3. QED BY <1>3, <2>2, AuthoritiesStep
              DEF set_mint_authority, set_freeze_authority
  <1>4. QED BY <1>1, <1>2, <1>3 DEF AuthorityNext

\* The runtime: transactions begin and end, lamports arrive.
LEMMA RuntimeInv ==
  ASSUME IInv,
         \/ \E signers \in SUBSET Wallets \ {{}} : BeginTransaction(signers)
         \/ EndTransaction
         \/ \E a \in Accounts : \E n \in 1 .. cash : PlainTransfer(a, n)
  PROVE  IInv'
  <1>1. ASSUME NEW signers \in SUBSET Wallets \ {{}}, BeginTransaction(signers)
        PROVE  IInv'
    BY <1>1 DEF BeginTransaction, IInv, TypeOK, NativeBacked, NativeNotFrozen,
          EmptyUntilInitialized, is_native,
          is_initialized, is_frozen
  <1>2. CASE EndTransaction
    BY <1>2, NoAccountFacts
       DEF EndTransaction, IInv, TypeOK, NativeBacked, NativeNotFrozen,
          EmptyUntilInitialized, is_native,
          is_initialized, is_frozen
  <1>3. ASSUME NEW a \in Accounts, NEW n \in 1 .. cash, PlainTransfer(a, n)
        PROVE  IInv'
    <2>1. /\ lamports' \in [Accounts -> U64] /\ cash' \in Nat
          /\ \A b \in Accounts : lamports'[b] >= lamports[b]
      BY <1>3, U64MaxAssumption DEF PlainTransfer, IInv, TypeOK, U64
    <2>2. \A b \in Accounts : /\ account[b].amount \in Nat /\ lamports[b] \in Nat
                              /\ lamports'[b] \in Nat
      BY <2>1, U64MaxAssumption DEF IInv, TypeOK, Account, U64
    <2>3. NativeBacked'
      BY <1>3, <2>1, <2>2 DEF PlainTransfer, IInv, NativeBacked, is_native
    <2>4. TypeOK'
      BY <1>3, <2>1 DEF PlainTransfer, IInv, TypeOK, is_native, is_initialized
    <2>5. NativeNotFrozen'
      BY <1>3 DEF PlainTransfer, IInv, NativeNotFrozen, is_native, is_frozen
    <2>6. EmptyUntilInitialized'
      BY <1>3 DEF PlainTransfer, IInv, EmptyUntilInitialized, is_initialized
    <2>7. QED BY <2>3, <2>4, <2>5, <2>6 DEF IInv
  <1>4. QED BY <1>1, <1>2, <1>3

\* Every step of the program and of the runtime preserves the invariant.
THEOREM Invariance == Spec => []IInv
  <1>1. IInv /\ [Next]_vars => IInv'
    <2> SUFFICES ASSUME IInv, [Next]_vars PROVE IInv'
      OBVIOUS
    <2>1. CASE Next
      BY <2>1, InitializeInv, TokenInv, AuthorityInv, RuntimeInv
         DEF Next, Instruction
    <2>2. CASE UNCHANGED vars
      BY <2>2 DEF vars, IInv, TypeOK, NativeBacked, NativeNotFrozen,
          EmptyUntilInitialized, is_native,
          is_initialized, is_frozen
    <2>3. QED BY <2>1, <2>2
  <1>2. QED BY <1>1, InitInv, PTL DEF Spec

\* Account data keeps its shape and finds its mint, and no amount leaves the
\* u64 range, through every sequence of instructions of token/program.
THEOREM TypeCorrect == Spec => []TypeOK
  <1>1. IInv => TypeOK
    BY DEF IInv
  <1>2. QED BY <1>1, Invariance, PTL

\* A wrapped SOL account holds at least as many lamports as tokens, for any
\* number of accounts, transfers between them, and closing and reuse within
\* one transaction (process_transfer, process_close_account).
THEOREM WrappedSolBacked == Spec => []NativeBacked
  <1>1. IInv => NativeBacked
    BY DEF IInv
  <1>2. QED BY <1>1, Invariance, PTL

(***************************************************************************)
(* Action properties.                                                      *)
(***************************************************************************)

\* Only five instructions write to a mint: every other step leaves all of
\* them alone.
LEMMA MintWriters ==
  ASSUME Next
  PROVE  \/ UNCHANGED mint
         \/ \E m \in Mints : \/ \E k, f \in Keys \cup {NoKey} :
                                  process_initialize_mint(m, k, f)
                             \/ \E a \in Accounts, n \in U64 : process_mint_to(m, a, n)
                             \/ \E k \in Keys \cup {NoKey} :
                                  set_mint_authority(m, k) \/ set_freeze_authority(m, k)
         \/ \E a \in Accounts, k \in Keys : \E n \in 0 .. account[a].amount :
              process_burn(a, k, n)
  <1>1. CASE InitializeNext
    BY <1>1, TokenAssumption
       DEF InitializeNext, process_initialize_account, process_initialize_multisig
  <1>2. CASE TokenNext
    <2>1. PICK a \in Accounts :
            \/ \E d \in Accounts, k \in Keys : \E n \in 0 .. account[a].amount :
                 process_transfer(a, d, k, n)
            \/ \E k \in Keys : \E n \in 0 .. account[a].amount : process_burn(a, k, n)
            \/ \E m \in Mints, n \in Issues : process_mint_to(m, a, n)
            \/ \E k \in Delegates, n \in Allowances : process_approve(a, k, n)
            \/ process_revoke(a)
            \/ \E freeze \in BOOLEAN : process_toggle_freeze_account(a, freeze)
            \/ \E dest \in Accounts \cup {NoKey} : process_close_account(a, dest)
      BY <1>2 DEF TokenNext
    <2>2. CASE \E d \in Accounts, k \in Keys : \E n \in 0 .. account[a].amount :
                 process_transfer(a, d, k, n)
      BY <2>2 DEF process_transfer
    <2>3. CASE \E m \in Mints, n \in Issues : process_mint_to(m, a, n)
      BY <2>3, TokenAssumption
    <2>4. CASE \/ \E k \in Delegates, n \in Allowances : process_approve(a, k, n)
               \/ process_revoke(a)
               \/ \E freeze \in BOOLEAN : process_toggle_freeze_account(a, freeze)
               \/ \E dest \in Accounts \cup {NoKey} : process_close_account(a, dest)
      BY <2>4 DEF process_approve, process_revoke,
                  process_toggle_freeze_account, process_close_account
    <2>5. QED BY <2>1, <2>2, <2>3, <2>4
  <1>3. CASE AuthorityNext
    BY <1>3, TokenAssumption
       DEF AuthorityNext, set_account_owner, set_close_authority
  <1>4. QED
    BY <1>1, <1>2, <1>3
       DEF Next, Instruction, BeginTransaction, EndTransaction, PlainTransfer

\* A mint that gave up its mint or freeze authority never has one again, and
\* a fixed supply never grows (process_set_authority, process_mint_to,
\* process_initialize_mint).
THEOREM GivingUpIsFinal == Spec => GivenUpForGood
  <1> DEFINE A == \A m \in Mints :
                    mint[m].is_initialized =>
                      /\ mint'[m].is_initialized
                      /\ mint[m].mint_authority = NoKey =>
                           /\ mint'[m].mint_authority = NoKey
                           /\ mint'[m].supply <= mint[m].supply
                      /\ mint[m].freeze_authority = NoKey =>
                           mint'[m].freeze_authority = NoKey
  <1>1. TypeOK /\ [Next]_vars => [A]_vars
    <2> SUFFICES ASSUME TypeOK, Next PROVE A
      OBVIOUS
    <2>t. /\ mint \in [Mints -> Mint]
          /\ \A m \in Mints : mint[m].supply \in Nat /\ mint[m].supply <= mint[m].supply
      BY U64MaxAssumption DEF TypeOK, Mint, U64
    <2>1. CASE UNCHANGED mint
      BY <2>1, <2>t
    <2>2. ASSUME NEW m \in Mints, NEW k \in Keys \cup {NoKey}, NEW f \in Keys \cup {NoKey},
                 process_initialize_mint(m, k, f)
          PROVE  A
      BY <2>2, <2>t DEF process_initialize_mint
    <2>3. ASSUME NEW m \in Mints, NEW a \in Accounts, NEW n \in U64,
                 process_mint_to(m, a, n)
          PROVE  A
      BY <2>3, <2>t DEF process_mint_to, Mint
    <2>4. ASSUME NEW m \in Mints, NEW k \in Keys \cup {NoKey},
                 set_mint_authority(m, k) \/ set_freeze_authority(m, k)
          PROVE  A
      BY <2>4, <2>t DEF set_mint_authority, set_freeze_authority, MayHandOver, Mint
    <2>5. ASSUME NEW a \in Accounts, NEW k \in Keys, NEW n \in 0 .. account[a].amount,
                 process_burn(a, k, n)
          PROVE  A
      <3>1. n \in Nat /\ account[a].mint \in Mints
        BY <2>5, U64MaxAssumption DEF process_burn, TypeOK
      <3>2. QED BY <2>5, <2>t, <3>1 DEF process_burn, Mint
    <2>6. QED BY <2>1, <2>2, <2>3, <2>4, <2>5, MintWriters
  <1>2. QED BY <1>1, TypeCorrect, PTL DEF Spec, GivenUpForGood

\* Every step either leaves an account's data alone or is one of these.
LEMMA AccountWriters ==
  ASSUME TypeOK, Next, NEW a \in Accounts
  PROVE  \/ account'[a] = account[a]
         \/ \E m, k : \E funds \in Nat : process_initialize_account(a, m, k, funds)
         \/ \E b \in Accounts, k \in Keys : \E n \in 0 .. account[a].amount :
              process_transfer(a, b, k, n)
         \/ \E b \in Accounts, k \in Keys : \E n \in 0 .. account[b].amount :
              process_transfer(b, a, k, n) /\ a # b
         \/ \E k \in Keys : \E n \in 0 .. account[a].amount : process_burn(a, k, n)
         \/ \E m \in Mints, n \in U64 : process_mint_to(m, a, n)
         \/ \E k \in Keys, n \in U64 : process_approve(a, k, n)
         \/ process_revoke(a)
         \/ \E freeze \in BOOLEAN : process_toggle_freeze_account(a, freeze)
         \/ \E dest \in Accounts \cup {NoKey} : process_close_account(a, dest)
         \/ \E k \in Keys : set_account_owner(a, k)
         \/ \E k \in Keys \cup {NoKey} : set_close_authority(a, k)
         \/ EndTransaction
  <1>t. account \in [Accounts -> Account]
    BY DEF TypeOK
  <1>1. CASE InitializeNext
    <2>1. ASSUME NEW b \in Accounts, NEW m \in Mints \cup {NativeMint}, NEW k \in Owners,
                 NEW funds \in RentReserve .. cash,
                 process_initialize_account(b, m, k, funds)
          PROVE  \/ account'[a] = account[a]
                 \/ \E mm, kk : \E ff \in Nat : process_initialize_account(a, mm, kk, ff)
      <3>1. funds \in Nat
        BY <2>1, TokenAssumption, U64MaxAssumption DEF TypeOK, U64
      <3>2. CASE a = b
        BY <2>1, <3>1, <3>2
      <3>3. CASE a # b
        BY <2>1, <3>3, <1>t DEF process_initialize_account
      <3>4. QED BY <3>2, <3>3
    <2>2. QED BY <1>1, <2>1 DEF InitializeNext, process_initialize_mint,
                               process_initialize_multisig
  <1>2. CASE TokenNext
    <2>1. PICK b \in Accounts :
            \/ \E d \in Accounts, k \in Keys : \E n \in 0 .. account[b].amount :
                 process_transfer(b, d, k, n)
            \/ \E k \in Keys : \E n \in 0 .. account[b].amount : process_burn(b, k, n)
            \/ \E m \in Mints, n \in Issues : process_mint_to(m, b, n)
            \/ \E k \in Delegates, n \in Allowances : process_approve(b, k, n)
            \/ process_revoke(b)
            \/ \E freeze \in BOOLEAN : process_toggle_freeze_account(b, freeze)
            \/ \E dest \in Accounts \cup {NoKey} : process_close_account(b, dest)
      BY <1>2 DEF TokenNext
    <2>2. ASSUME NEW d \in Accounts, NEW k \in Keys, NEW n \in 0 .. account[b].amount,
                 process_transfer(b, d, k, n), a # b, a # d
          PROVE  account'[a] = account[a]
      BY <2>2, <1>t DEF process_transfer, Moved
    <2>3. CASE \E d \in Accounts, k \in Keys : \E n \in 0 .. account[b].amount :
                 process_transfer(b, d, k, n)
      BY <2>2, <2>3
    <2>4. CASE a = b
      BY <2>1, <2>3, <2>4, TokenAssumption
    <2>5. CASE a # b /\ ~\E d \in Accounts, k \in Keys : \E n \in 0 .. account[b].amount :
                           process_transfer(b, d, k, n)
      BY <2>1, <2>5, <1>t
         DEF process_burn, process_mint_to, process_approve, process_revoke,
             process_toggle_freeze_account, process_close_account
    <2>6. QED BY <2>3, <2>4, <2>5
  <1>3. CASE AuthorityNext
    <2>1. ASSUME NEW b \in Accounts, a # b,
                 \/ \E k \in Owners : set_account_owner(b, k)
                 \/ \E k \in Closers : set_close_authority(b, k)
          PROVE  account'[a] = account[a]
      BY <2>1, <1>t DEF set_account_owner, set_close_authority
    <2>2. QED BY <1>3, <2>1, TokenAssumption
              DEF AuthorityNext, set_mint_authority, set_freeze_authority
  <1>4. QED
    BY <1>1, <1>2, <1>3 DEF Next, Instruction, BeginTransaction, PlainTransfer

\* Whoever signs, a frozen account keeps its tokens, owner and delegate, and
\* only the freeze authority of its mint can end that by signing a thaw, unless
\* it is closed and removed (the is_frozen checks of process_transfer,
\* process_approve, process_burn, process_set_authority and so on, and
\* validate_owner in process_toggle_freeze_account).
THEOREM FrozenStays == Spec => FrozenHoldsStill
  <1> DEFINE A(a) == LET old == account[a]   new == account'[a]
                     IN is_frozen(a) =>
                          \/ /\ new.amount = old.amount /\ new.owner = old.owner
                             /\ new.delegate = old.delegate
                             /\ new.delegated_amount = old.delegated_amount
                             /\ \/ new.state = "Frozen"
                                \/ /\ mint[old.mint].freeze_authority # NoKey
                                   /\ validate_owner(mint[old.mint].freeze_authority)
                          \/ lamports[a] = 0 /\ new = NoAccount
  <1>1. IInv /\ [Next]_vars => [\A a \in Accounts : A(a)]_vars
    <2> SUFFICES ASSUME IInv, Next, NEW a \in Accounts, is_frozen(a) PROVE A(a)
      OBVIOUS
    <2>t. /\ TypeOK /\ account \in [Accounts -> Account] /\ ~is_native(a)
          /\ account[a].state = "Frozen"
      BY DEF IInv, TypeOK, NativeNotFrozen, is_frozen
    <2>1. CASE account'[a] = account[a]
      BY <2>1, <2>t
    <2>2. CASE \E freeze \in BOOLEAN : process_toggle_freeze_account(a, freeze)
      BY <2>2, <2>t DEF process_toggle_freeze_account, MayHandOver, Account
    <2>3. CASE \E dest \in Accounts \cup {NoKey} : process_close_account(a, dest)
      BY <2>3, <2>t DEF process_close_account, Closed, Account
    <2>4. CASE EndTransaction
      BY <2>4, <2>t DEF EndTransaction
    <2>5. QED
      BY <2>1, <2>2, <2>3, <2>4, <2>t, AccountWriters
         DEF is_initialized, is_frozen, AnyFrozen, process_initialize_account,
             process_transfer, process_burn, process_mint_to, process_approve,
             process_revoke, set_account_owner, set_close_authority
  <1>2. QED BY <1>1, Invariance, PTL DEF Spec, FrozenHoldsStill

\* Tokens leave an account only with the signatures of its owner, of its
\* delegate within the allowance, which is charged, or of the close authority
\* of wrapped SOL; an allowance grows only by the owner's (validate_owner and
\* the delegate branches of process_transfer and process_burn).
THEOREM SpendsNeedConsent == Spec => SpendsAreAuthorized
  <1> DEFINE A(a) ==
        LET old == account[a]   new == account'[a]   spent == old.amount - new.amount
        IN lamports[a] > 0 =>
             /\ spent > 0 =>
                  \/ validate_owner(old.owner)
                  \/ /\ validate_owner(old.delegate)
                     /\ new.delegated_amount = old.delegated_amount - spent
                  \/ /\ is_native(a) /\ new.amount = 0 /\ lamports'[a] = 0
                     /\ validate_owner(old.close_authority)
             /\ new.delegated_amount > old.delegated_amount =>
                  validate_owner(old.owner)
  <1>1. IInv /\ [Next]_vars => [\A a \in Accounts : A(a)]_vars
    <2> SUFFICES ASSUME IInv, Next, NEW a \in Accounts, lamports[a] > 0 PROVE A(a)
      OBVIOUS
    <2>t. /\ TypeOK /\ account \in [Accounts -> Account] /\ account[a] \in Account
          /\ account[a].amount \in Nat /\ account[a].delegated_amount \in Nat
      BY U64MaxAssumption DEF IInv, TypeOK, Account, U64
    \* Steps that lower neither the balance nor raise the allowance.
    <2>1. ASSUME account'[a].amount >= account[a].amount,
                 account'[a].amount \in Nat,
                 account'[a].delegated_amount = account[a].delegated_amount
          PROVE  A(a)
      BY <2>1, <2>t
    <2>2. CASE account'[a] = account[a]
      BY <2>1, <2>2, <2>t
    <2>3. ASSUME NEW m, NEW k, NEW funds \in Nat,
                 process_initialize_account(a, m, k, funds)
          PROVE  A(a)
      <3>1. account[a].amount = 0
        BY <2>3 DEF process_initialize_account, IInv, EmptyUntilInitialized
      <3>2. account'[a].amount \in Nat /\ account'[a].delegated_amount = 0
        <4>1. funds - RentReserve \in Nat
          BY <2>3, TokenAssumption, U64MaxAssumption
             DEF process_initialize_account, U64
        <4>2. QED BY <2>3, <2>t, <4>1 DEF process_initialize_account, Account
      <3>3. QED BY <2>t, <3>1, <3>2
    \* Spending: Transfer and Burn.
    <2>4. ASSUME NEW k \in Keys, NEW n \in 0 .. account[a].amount, MaySpend(a, k, n),
                 account'[a] = Spent(account[a], k, n)
          PROVE  A(a)
      <3>1. /\ account'[a].amount = account[a].amount - n
            /\ IF k = account[a].delegate
               THEN account'[a].delegated_amount = account[a].delegated_amount - n
               ELSE account'[a].delegated_amount = account[a].delegated_amount
        BY <2>4, <2>t, SpentFacts
      <3>2. validate_owner(k) /\ k \in {account[a].delegate, account[a].owner}
        BY <2>4 DEF MaySpend
      <3>3. n \in Nat /\ account[a].amount - (account[a].amount - n) = n
        BY <2>t
      <3>4. CASE k = account[a].delegate
        BY <2>t, <3>1, <3>2, <3>3, <3>4
      <3>5. CASE k # account[a].delegate
        BY <2>t, <3>1, <3>2, <3>3, <3>5
      <3>6. QED BY <3>4, <3>5
    <2>5. ASSUME NEW b \in Accounts, NEW k \in Keys, NEW n \in 0 .. account[a].amount,
                 process_transfer(a, b, k, n)
          PROVE  A(a)
      <3>1. CASE a = b
        BY <2>2, <2>5, <3>1 DEF process_transfer, Moved
      <3>2. CASE a # b
        <4>1. account'[a] = Spent(account[a], k, n) /\ MaySpend(a, k, n)
          BY <2>5, <2>t, <3>2 DEF process_transfer, Moved
        <4>2. QED BY <2>4, <4>1
      <3>3. QED BY <3>1, <3>2
    <2>6. ASSUME NEW b \in Accounts, NEW k \in Keys, NEW n \in 0 .. account[b].amount,
                 process_transfer(b, a, k, n), a # b
          PROVE  A(a)
      <3>1. account'[a] = [account[a] EXCEPT !.amount = @ + n]
        BY <2>6, <2>t DEF process_transfer, Moved
      <3>2. n \in Nat
        BY <2>6, <2>t, U64MaxAssumption DEF Account, U64
      <3>3. account'[a].amount = account[a].amount + n
            /\ account'[a].delegated_amount = account[a].delegated_amount
        BY <2>t, <3>1 DEF Account
      <3>4. QED BY <2>1, <2>t, <3>2, <3>3
    <2>7. ASSUME NEW k \in Keys, NEW n \in 0 .. account[a].amount, process_burn(a, k, n)
          PROVE  A(a)
      <3>1. account'[a] = Spent(account[a], k, n) /\ MaySpend(a, k, n)
        BY <2>7, <2>t DEF process_burn
      <3>2. QED BY <2>4, <3>1
    <2>8. ASSUME NEW m \in Mints, NEW n \in U64, process_mint_to(m, a, n)
          PROVE  A(a)
      <3>1. account'[a].amount = account[a].amount + n /\ n \in Nat
            /\ account'[a].delegated_amount = account[a].delegated_amount
        BY <2>8, <2>t, U64MaxAssumption DEF process_mint_to, Account, U64
      <3>2. QED BY <2>1, <2>t, <3>1
    \* Granting and revoking: the owner signed.
    <2>9. CASE \/ \E k \in Keys, n \in U64 : process_approve(a, k, n)
               \/ process_revoke(a)
      <3>1. validate_owner(account[a].owner) /\ account'[a].amount = account[a].amount
        BY <2>9, <2>t DEF process_approve, process_revoke, Account
      <3>2. QED BY <2>t, <3>1
    <2>10. CASE \E dest \in Accounts \cup {NoKey} : process_close_account(a, dest)
      <3>1. /\ is_native(a) \/ account[a].amount = 0
            /\ is_initialized(a) /\ validate_owner(CloseAuthority(a))
            /\ account'[a].amount = 0
            /\ account'[a].delegated_amount = account[a].delegated_amount
        BY <2>10, <2>t DEF process_close_account, Closed, Account
      <3>2. lamports'[a] = 0
        BY <2>10, <2>t DEF process_close_account, TypeOK
      <3>3. CASE account[a].amount = 0
        BY <2>1, <3>1, <3>3
      <3>4. CASE is_native(a) /\ account[a].close_authority # NoKey
        BY <2>t, <3>1, <3>2, <3>4 DEF CloseAuthority
      <3>5. CASE is_native(a) /\ account[a].close_authority = NoKey
        BY <2>t, <3>1, <3>5 DEF CloseAuthority
      <3>6. QED BY <3>1, <3>3, <3>4, <3>5
    <2>11. CASE \/ \E k \in Keys : set_account_owner(a, k)
                \/ \E k \in Keys \cup {NoKey} : set_close_authority(a, k)
                \/ \E freeze \in BOOLEAN : process_toggle_freeze_account(a, freeze)
      <3>1. account'[a].amount = account[a].amount
            /\ account'[a].delegated_amount = account[a].delegated_amount
        BY <2>11, <2>t DEF set_account_owner, set_close_authority,
                           process_toggle_freeze_account, Account
      <3>2. QED BY <2>1, <2>t, <3>1
    <2>12. CASE EndTransaction
      BY <2>2, <2>12, <2>t DEF EndTransaction, TypeOK
    <2>13. QED
      BY <2>2, <2>3, <2>5, <2>6, <2>7, <2>8, <2>9, <2>10, <2>11, <2>12, <2>t,
         AccountWriters
  <1>2. QED BY <1>1, Invariance, PTL DEF Spec, SpendsAreAuthorized

(***************************************************************************)
(* The supply.                                                             *)
(***************************************************************************)

\* The invariant for one mint.
Covered(m) == SumFunctionOnSet(Held(m), Accounts) <= mint[m].supply

\* What the accounts of a mint hold is a natural number.
LEMMA HeldFacts ==
  ASSUME TypeOK, NEW m \in Mints
  PROVE  /\ \A a \in Accounts : Held(m)[a] \in Nat /\ Held(m)[a] \in Int
         /\ SumFunctionOnSet(Held(m), Accounts) \in Int
         /\ mint[m].supply \in Nat
  <1>1. \A a \in Accounts : account[a].amount \in Nat
    BY U64MaxAssumption DEF TypeOK, Account, U64
  <1>2. \A a \in Accounts : Held(m)[a] \in Nat /\ Held(m)[a] \in Int
    BY <1>1 DEF Held
  <1>3. mint[m].supply \in Nat
    BY U64MaxAssumption DEF TypeOK, Mint, U64
  <1>4. QED BY <1>2, <1>3, TokenAssumption, SumType

\* A step after which no account holds more of the mint.
LEMMA LessHeld ==
  ASSUME TypeOK, TypeOK', NEW m \in Mints, Covered(m),
         mint'[m].supply = mint[m].supply,
         \A a \in Accounts : Held(m)'[a] <= Held(m)[a]
  PROVE  Covered(m)'
  <1> DEFINE f == Held(m)
             g == Held(m)'
  <1>1. \A a \in Accounts : f[a] \in Int /\ g[a] \in Int /\ g[a] <= f[a]
    <2>1. \A a \in Accounts : account'[a].amount \in Int
      BY U64MaxAssumption DEF TypeOK, Account, U64
    <2>2. \A a \in Accounts : g[a] \in Int
      BY <2>1 DEF Held
    <2>3. QED BY <2>2, HeldFacts
  <1>2. SumFunctionOnSet(f, Accounts) \in Int /\ mint[m].supply \in Nat
    BY HeldFacts
  <1> HIDE DEF f, g
  <1>3. SumFunctionOnSet(g, Accounts) \in Int
    BY <1>1, TokenAssumption, SumType
  <1>4. SumFunctionOnSet(g, Accounts) <= SumFunctionOnSet(f, Accounts)
    BY <1>1, TokenAssumption, SumMonotone
  <1>5. SumFunctionOnSet(f, Accounts) <= mint[m].supply
    BY DEF Covered, f
  <1>6. SumFunctionOnSet(g, Accounts) <= mint[m].supply
    BY <1>2, <1>3, <1>4, <1>5
  <1>7. QED BY <1>6 DEF Covered, g

\* A step that changes what one account holds by as much as the supply.
LEMMA OneHeld ==
  ASSUME TypeOK, TypeOK', NEW m \in Mints, Covered(m), NEW a \in Accounts, NEW n \in Int,
         mint'[m].supply = mint[m].supply + n,
         Held(m)'[a] = Held(m)[a] + n,
         \A b \in Accounts \ {a} : Held(m)'[b] = Held(m)[b]
  PROVE  Covered(m)'
  <1> DEFINE f == Held(m)
             g == Held(m)'
  <1>1. \A b \in Accounts : f[b] \in Int /\ g[b] \in Int
    BY HeldFacts
  <1>2. SumFunctionOnSet(f, Accounts) \in Int /\ mint[m].supply \in Nat
    BY HeldFacts
  <1>3. g[a] = f[a] + n /\ \A b \in Accounts \ {a} : g[b] = f[b]
    OBVIOUS
  <1> HIDE DEF f, g
  <1>4. SumFunctionOnSet(g, Accounts) = SumFunctionOnSet(f, Accounts) - f[a] + g[a]
    BY <1>1, <1>3, TokenAssumption, SumUpdate
  <1>5. SumFunctionOnSet(f, Accounts) <= mint[m].supply
    BY DEF Covered, f
  <1>6. SumFunctionOnSet(g, Accounts) <= mint'[m].supply
    BY <1>1, <1>2, <1>3, <1>4, <1>5
  <1>7. QED BY <1>6 DEF Covered, g

\* A step that moves part of what one account holds to another.
LEMMA MovedHeld ==
  ASSUME TypeOK, TypeOK', NEW m \in Mints, Covered(m),
         NEW a \in Accounts, NEW d \in Accounts, a # d, NEW n \in Int,
         mint'[m].supply = mint[m].supply,
         Held(m)'[a] = Held(m)[a] - n, Held(m)'[d] = Held(m)[d] + n,
         \A b \in Accounts \ {a, d} : Held(m)'[b] = Held(m)[b]
  PROVE  Covered(m)'
  <1> DEFINE f == Held(m)
             g == Held(m)'
             h == [b \in Accounts |-> IF b = a THEN f[b] - n ELSE f[b]]
  <1>1. \A b \in Accounts : f[b] \in Int /\ g[b] \in Int
    BY HeldFacts
  <1>2. SumFunctionOnSet(f, Accounts) \in Int /\ mint[m].supply \in Nat
    BY HeldFacts
  <1>3. /\ g[a] = f[a] - n /\ g[d] = f[d] + n
        /\ \A b \in Accounts \ {a, d} : g[b] = f[b]
    OBVIOUS
  <1> HIDE DEF f, g
  <1>4. /\ \A b \in Accounts : h[b] \in Int
        /\ \A b \in Accounts \ {a} : h[b] = f[b]
        /\ h[a] = f[a] - n /\ h[d] = f[d]
        /\ \A b \in Accounts \ {d} : g[b] = h[b]
    BY <1>1, <1>3
  <1> HIDE DEF h
  <1>5. SumFunctionOnSet(h, Accounts) = SumFunctionOnSet(f, Accounts) - f[a] + h[a]
    BY <1>1, <1>4, TokenAssumption, SumUpdate
  <1>6. SumFunctionOnSet(g, Accounts) = SumFunctionOnSet(h, Accounts) - h[d] + g[d]
    BY <1>1, <1>4, TokenAssumption, SumUpdate
  <1>7. SumFunctionOnSet(g, Accounts) = SumFunctionOnSet(f, Accounts)
    BY <1>1, <1>2, <1>3, <1>4, <1>5, <1>6
  <1>8. QED BY <1>7 DEF Covered, f, g

\* A transfer leaves what the accounts hold within the supply.
LEMMA TransferCovered ==
  ASSUME TypeOK, TypeOK', NEW m \in Mints, Covered(m),
         NEW a \in Accounts, NEW d \in Accounts, NEW k \in Keys,
         NEW n \in 0 .. account[a].amount, process_transfer(a, d, k, n)
  PROVE  Covered(m)'
  <1>1. mint' = mint /\ account[a].mint = account[d].mint
    BY DEF process_transfer
  <1>2. CASE a = d
    <2>1. account' = account
      BY <1>2 DEF process_transfer, Moved
    <2>2. QED BY <1>1, <2>1 DEF Covered, Held
  <1>3. CASE a # d
    <2> DEFINE new == Spent(account[a], k, n)
    <2>1. new.amount = account[a].amount - n /\ new.mint = account[a].mint /\ n \in U64
      BY SpentFacts DEF process_transfer
    <2>2. account' = [account EXCEPT ![a] = new, ![d].amount = @ + n]
      BY <1>3 DEF process_transfer, Moved
    <2> HIDE DEF new
    <2>3. /\ account'[a] = new
          /\ account'[d].amount = account[d].amount + n
          /\ account'[d].mint = account[d].mint
          /\ \A b \in Accounts \ {a, d} : account'[b] = account[b]
      BY <1>3, <2>2 DEF TypeOK, Account
    <2>4. n \in Int
      BY <2>1, U64MaxAssumption DEF U64
    <2>5. CASE account[a].mint = m
      <3>1. /\ Held(m)'[a] = Held(m)[a] - n /\ Held(m)'[d] = Held(m)[d] + n
            /\ \A b \in Accounts \ {a, d} : Held(m)'[b] = Held(m)[b]
        BY <1>1, <2>1, <2>3, <2>5 DEF Held
      <3>2. QED BY <1>1, <1>3, <2>4, <3>1, MovedHeld
    <2>6. CASE account[a].mint # m
      <3>1. \A b \in Accounts : Held(m)'[b] = Held(m)[b] /\ Held(m)[b] \in Nat
        BY <1>1, <2>1, <2>3, <2>6, HeldFacts DEF Held
      <3>2. \A b \in Accounts : Held(m)'[b] <= Held(m)[b]
        BY <3>1
      <3>3. QED BY <1>1, <3>2, LessHeld
    <2>7. QED BY <2>5, <2>6
  <1>4. QED BY <1>2, <1>3

\* So does minting.
LEMMA MintCovered ==
  ASSUME TypeOK, TypeOK', NEW m \in Mints, Covered(m),
         NEW x \in Mints, NEW a \in Accounts, NEW n \in U64, process_mint_to(x, a, n)
  PROVE  Covered(m)'
  <1>1. /\ account[a].mint = x
        /\ account' = [account EXCEPT ![a].amount = @ + n]
        /\ mint' = [mint EXCEPT ![x].supply = @ + n]
    BY DEF process_mint_to
  <1>2. /\ account'[a].mint = x /\ account'[a].amount = account[a].amount + n
        /\ \A b \in Accounts \ {a} : account'[b] = account[b]
    BY <1>1 DEF TypeOK, Account
  <1>3. n \in Int
    BY U64MaxAssumption DEF U64
  <1>4. CASE m = x
    <2>1. mint'[m].supply = mint[m].supply + n
      BY <1>1, <1>4 DEF TypeOK, Mint
    <2>2. /\ Held(m)'[a] = Held(m)[a] + n
          /\ \A b \in Accounts \ {a} : Held(m)'[b] = Held(m)[b]
      BY <1>1, <1>2, <1>4 DEF Held
    <2>3. QED BY <1>3, <2>1, <2>2, OneHeld
  <1>5. CASE m # x
    <2>1. mint'[m] = mint[m]
      BY <1>1, <1>5 DEF TypeOK
    <2>2. \A b \in Accounts : Held(m)'[b] = Held(m)[b] /\ Held(m)[b] \in Nat
      <3>1. \A b \in Accounts : Held(m)[b] \in Nat
        BY HeldFacts
      <3>2. \A b \in Accounts : Held(m)'[b] = Held(m)[b]
        BY <1>1, <1>2, <1>5 DEF Held
      <3>3. QED BY <3>1, <3>2
    <2>3. \A b \in Accounts : Held(m)'[b] <= Held(m)[b]
      BY <2>2
    <2>4. QED BY <2>1, <2>3, LessHeld
  <1>6. QED BY <1>4, <1>5

\* So does burning.
LEMMA BurnCovered ==
  ASSUME TypeOK, TypeOK', NEW m \in Mints, Covered(m),
         NEW a \in Accounts, NEW k \in Keys, NEW n \in 0 .. account[a].amount,
         process_burn(a, k, n)
  PROVE  Covered(m)'
  <1> DEFINE x == account[a].mint
             new == Spent(account[a], k, n)
  <1>1. /\ new.amount = account[a].amount - n /\ new.mint = x /\ n \in U64
    BY SpentFacts DEF process_burn
  <1>2. /\ account' = [account EXCEPT ![a] = new]
        /\ mint' = [mint EXCEPT ![x].supply = @ - n] /\ x \in Mints
    BY DEF process_burn, TypeOK
  <1> HIDE DEF new
  <1>3. account'[a] = new /\ \A b \in Accounts \ {a} : account'[b] = account[b]
    BY <1>2 DEF TypeOK
  <1>4. n \in Int /\ -n \in Int /\ account[a].amount \in Int
    BY <1>1, U64MaxAssumption DEF U64, TypeOK, Account
  <1>5. CASE m = x
    <2>1. mint'[m].supply = mint[m].supply - n /\ mint[m].supply \in Int
      BY <1>2, <1>5, HeldFacts DEF TypeOK, Mint
    <2>2. /\ Held(m)'[a] = account[a].amount - n /\ Held(m)[a] = account[a].amount
          /\ \A b \in Accounts \ {a} : Held(m)'[b] = Held(m)[b]
      BY <1>1, <1>3, <1>5 DEF Held
    <2>3. mint'[m].supply = mint[m].supply + (-n) /\ Held(m)'[a] = Held(m)[a] + (-n)
      BY <1>4, <2>1, <2>2
    <2>4. QED BY <1>4, <2>2, <2>3, OneHeld
  <1>6. CASE m # x
    <2>1. mint'[m] = mint[m]
      BY <1>2, <1>6 DEF TypeOK
    <2>2. \A b \in Accounts : Held(m)'[b] = Held(m)[b] /\ Held(m)[b] \in Nat
      BY <1>1, <1>3, <1>6, HeldFacts DEF Held
    <2>3. \A b \in Accounts : Held(m)'[b] <= Held(m)[b]
      BY <2>2
    <2>4. QED BY <2>1, <2>3, LessHeld
  <1>7. QED BY <1>5, <1>6

\* Every other step leaves the supply alone and gives no account tokens.
LEMMA OthersCovered ==
  ASSUME IInv, TypeOK', Next, NEW m \in Mints, Covered(m),
         ~\E a, d \in Accounts, k \in Keys : \E n \in 0 .. account[a].amount :
            process_transfer(a, d, k, n),
         ~\E x \in Mints, a \in Accounts, n \in U64 : process_mint_to(x, a, n),
         ~\E a \in Accounts, k \in Keys : \E n \in 0 .. account[a].amount :
            process_burn(a, k, n)
  PROVE  Covered(m)'
  <1>t. TypeOK
    BY DEF IInv
  <1>1. mint'[m].supply = mint[m].supply
    <2>1. \/ UNCHANGED mint
          \/ \E x \in Mints : \/ \E k, f \in Keys \cup {NoKey} :
                                   process_initialize_mint(x, k, f)
                              \/ \E k \in Keys \cup {NoKey} :
                                   set_mint_authority(x, k) \/ set_freeze_authority(x, k)
      BY MintWriters
    <2>2. mint \in [Mints -> Mint]
      BY <1>t DEF TypeOK
    <2>3. ASSUME NEW x \in Mints, NEW k, NEW f,
                 \/ process_initialize_mint(x, k, f)
                 \/ set_mint_authority(x, k) \/ set_freeze_authority(x, k)
          PROVE  mint'[m].supply = mint[m].supply
      BY <2>2, <2>3 DEF process_initialize_mint, set_mint_authority,
                        set_freeze_authority, Mint
    <2>4. QED BY <2>1, <2>3
  <1>2. ASSUME NEW a \in Accounts PROVE Held(m)'[a] <= Held(m)[a]
    <2> DEFINE Same == account'[a].mint = account[a].mint
                       /\ account'[a].amount = account[a].amount
               Gone == account'[a].mint = m => account'[a].amount = 0
    <2>1. account \in [Accounts -> Account]
      BY <1>t DEF TypeOK
    <2>2. ASSUME NEW x, NEW k, NEW funds \in Nat,
                 process_initialize_account(a, x, k, funds)
          PROVE  Gone
      BY <2>1, <2>2, TokenAssumption DEF process_initialize_account, Account
    <2>3. ASSUME NEW k, NEW n, process_approve(a, k, n) PROVE Same
      BY <2>1, <2>3 DEF process_approve, Account
    <2>4. ASSUME process_revoke(a) PROVE Same
      BY <2>1, <2>4 DEF process_revoke, Account
    <2>5. ASSUME NEW freeze, process_toggle_freeze_account(a, freeze) PROVE Same
      BY <2>1, <2>5 DEF process_toggle_freeze_account, Account
    <2>6. ASSUME NEW k, set_account_owner(a, k) \/ set_close_authority(a, k) PROVE Same
      BY <2>1, <2>6 DEF set_account_owner, set_close_authority, Account
    <2>7. ASSUME NEW dest, process_close_account(a, dest) PROVE Gone
      BY <2>1, <2>7 DEF process_close_account, Closed, Account
    <2>8. ASSUME EndTransaction PROVE Same \/ Gone
      BY <2>1, <2>8, NoAccountFacts DEF EndTransaction
    <2>9. Same \/ Gone
      <3> HIDE DEF Same, Gone
      <3>1. account'[a] = account[a] => Same
        BY DEF Same
      <3>2. QED
        BY <1>t, <2>2, <2>3, <2>4, <2>5, <2>6, <2>7, <2>8, <3>1, AccountWriters
    <2>10. /\ Held(m)[a] = IF account[a].mint = m THEN account[a].amount ELSE 0
           /\ Held(m)'[a] = IF account'[a].mint = m THEN account'[a].amount ELSE 0
           /\ Held(m)[a] \in Nat
      BY <1>t, HeldFacts DEF Held
    <2>11. QED BY <2>9, <2>10
  <1>3. QED BY <1>t, <1>1, <1>2, LessHeld

\* The accounts of a mint never hold more than its supply says, for any
\* number of accounts and mints, through transfers (from an account to
\* itself too), mints and burns, closing and reuse within a transaction
\* (process_transfer, process_mint_to, process_burn, process_close_account).
THEOREM SupplyCovers == Spec => []SupplyCoversAccounts
  <1>1. Init => SupplyCoversAccounts
    <2> SUFFICES ASSUME Init, NEW m \in Mints
                 PROVE  SumFunctionOnSet(Held(m), Accounts) <= mint[m].supply
      BY DEF SupplyCoversAccounts
    <2> DEFINE f == Held(m)
    <2>1. TypeOK /\ mint[m].supply = 0
      BY InitInv DEF IInv, Init
    <2>2. \A a \in Accounts : f[a] = 0
      BY NoAccountFacts DEF Init, Held
    <2>4. SumFunctionOnSet(f, Accounts) = 0
      <3> HIDE DEF f
      <3>1. QED BY <2>2, TokenAssumption, SumZero
    <2>5. QED BY <2>1, <2>4
  <1>2. IInv /\ IInv' /\ SupplyCoversAccounts /\ [Next]_vars => SupplyCoversAccounts'
    <2> SUFFICES ASSUME IInv, IInv', SupplyCoversAccounts, [Next]_vars, NEW m \in Mints
                 PROVE  Covered(m)'
      BY DEF SupplyCoversAccounts, Covered
    <2>1. Covered(m) /\ TypeOK /\ TypeOK'
      BY DEF SupplyCoversAccounts, Covered, IInv
    <2>2. CASE Next
      BY <2>1, <2>2, TransferCovered, MintCovered, BurnCovered, OthersCovered
    <2>3. CASE UNCHANGED vars
      BY <2>1, <2>3 DEF vars, Covered, Held
    <2>4. QED BY <2>2, <2>3
  <1>3. QED BY <1>1, <1>2, Invariance, PTL DEF Spec

=============================================================================
