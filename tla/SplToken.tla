------------------------------- MODULE SplToken -------------------------------
(***************************************************************************)
(* The token program (token/program/src/processor.rs): mints, token        *)
(* accounts with delegates, freezing and closing, wrapped SOL, multisig    *)
(* owners.                                                                 *)
(*                                                                         *)
(* Instructions come in transactions.  A closed account has no lamports    *)
(* but keeps its data until the transaction ends, and later instructions   *)
(* of the same transaction can still use it; so tx, the wallets that       *)
(* signed, is part of the state, and an account without lamports is        *)
(* removed when the transaction ends.  A failing instruction undoes its    *)
(* transaction, which is a behaviour without that transaction.  The        *)
(* ...Checked instructions do what the others do or fail on the decimals.  *)
(***************************************************************************)
EXTENDS PoolMath, Sequences, FiniteSetsExt

CONSTANTS
  Wallets,      \* keys that sign
  Multisigs,    \* addresses of multisig accounts
  Mints,        \* addresses of mints
  NativeMint,   \* native_mint::id(): tokens of it are wrapped SOL
  Accounts,     \* addresses of token accounts
  NoKey,        \* COption::None, and the zero key
  MaxSigners,   \* MAX_SIGNERS, 11 in the code
  RentReserve,  \* rent.minimum_balance of a token account
  \* Bounds on the environment.
  Owners,       \* owners of accounts
  Authorities,  \* mint and freeze authorities
  Issues,       \* amounts that are minted
  Allowances,   \* amounts that are approved
  Delegates,    \* keys that get an approval
  Closers,      \* values SetAuthority gives a close authority
  SignerLists,  \* signers of the multisig accounts
  Cash          \* lamports outside token accounts at the start

Keys == Wallets \cup Multisigs

ASSUME TokenAssumption ==
  /\ Wallets \cap Multisigs = {} /\ NoKey \notin Keys
  /\ NativeMint \notin Mints /\ NoKey \notin Mints \cup {NativeMint}
  /\ MaxSigners \in Nat /\ RentReserve \in U64 \ {0} /\ Cash \in Nat
  /\ Owners \subseteq Keys /\ Authorities \subseteq Keys /\ Delegates \subseteq Keys
  /\ Issues \subseteq U64 /\ Allowances \subseteq U64
  /\ Closers \subseteq Keys \cup {NoKey}
  /\ SignerLists \subseteq Seq(Wallets)
  /\ IsFiniteSet(Accounts)

VARIABLES
  tx,        \* wallets that signed the running transaction; {} between two
  mint,      \* the Mint accounts
  account,   \* the token Accounts: their data
  lamports,  \* and their lamports
  multisig,  \* the Multisig accounts
  cash       \* lamports elsewhere

vars == <<tx, mint, account, lamports, multisig, cash>>

Mint ==
  [mint_authority : Keys \cup {NoKey}, supply : U64, is_initialized : BOOLEAN,
   freeze_authority : Keys \cup {NoKey}]

AccountState == {"Uninitialized", "Initialized", "Frozen"}

Account ==
  [mint : Mints \cup {NativeMint, NoKey}, owner : Keys \cup {NoKey}, amount : U64,
   delegate : Keys \cup {NoKey}, state : AccountState, is_native : U64 \cup {None},
   delegated_amount : U64, close_authority : Keys \cup {NoKey}]

Multisig == [m : 0 .. MaxSigners, is_initialized : BOOLEAN, signers : Seq(Wallets)]

\* Zeroed account data.
NoAccount ==
  [mint |-> NoKey, owner |-> NoKey, amount |-> 0, delegate |-> NoKey,
   state |-> "Uninitialized", is_native |-> None, delegated_amount |-> 0,
   close_authority |-> NoKey]

is_initialized(a) == account[a].state # "Uninitialized"
is_frozen(a) == account[a].state = "Frozen"
is_native(a) == account[a].is_native # None

-----------------------------------------------------------------------------
(***************************************************************************)
(* validate_owner, for the key that the instruction expects: its signature *)
(* or, for a multisig, m of its positions.  One signature counts for every *)
(* position that holds its key.                                            *)
(***************************************************************************)
NumSigners(k) ==
  Cardinality({i \in DOMAIN multisig[k].signers : multisig[k].signers[i] \in tx})

validate_owner(k) ==
  IF k \in Multisigs
  THEN multisig[k].is_initialized /\ NumSigners(k) >= multisig[k].m
  ELSE k \in tx

\* close_authority.unwrap_or(owner)
CloseAuthority(a) ==
  IF account[a].close_authority = NoKey THEN account[a].owner
  ELSE account[a].close_authority

\* Mutant of MaySpend: a delegate is not held to its allowance.
MaySpendAny(a, authority, n) ==
  /\ n <= account[a].amount
  /\ validate_owner(authority)
  /\ authority \in {account[a].delegate, account[a].owner}

\* Transfer and Burn: the authority is the delegate, within its allowance,
\* or the owner.  An owner who is its own delegate has the allowance only.
MaySpend(a, authority, n) ==
  /\ n <= account[a].amount
  /\ validate_owner(authority)
  /\ IF authority = account[a].delegate THEN n <= account[a].delegated_amount
     ELSE authority = account[a].owner

\* Mutant of Charged: the allowance is not used up.
ChargedNothing(acc, authority, n) == acc

Charged(acc, authority, n) ==
  IF authority = acc.delegate
  THEN [acc EXCEPT !.delegated_amount = @ - n,
                   !.delegate = IF acc.delegated_amount = n THEN NoKey ELSE @]
  ELSE acc

\* What Transfer and Burn leave of the account they take from.
Spent(acc, authority, n) ==
  [Charged(acc, authority, n) EXCEPT !.amount = acc.amount - n]

-----------------------------------------------------------------------------
(***************************************************************************)
(* Initialization.  The system program creates and funds the account in    *)
(* the same transaction.                                                   *)
(***************************************************************************)
process_initialize_mint(m, mint_authority, freeze_authority) ==
  /\ ~mint[m].is_initialized
  /\ mint' = [mint EXCEPT ![m].mint_authority = mint_authority,
                          ![m].is_initialized = TRUE,
                          ![m].freeze_authority = freeze_authority]
  /\ UNCHANGED <<tx, account, lamports, multisig, cash>>

\* InitializeAccount and InitializeAccount2.  funds are the account's
\* lamports; those of a wrapped SOL account beyond the reserve are tokens.
process_initialize_account(a, m, owner, funds) ==
  /\ ~is_initialized(a)
  /\ funds \in U64 /\ funds >= RentReserve /\ funds <= cash
  /\ m # NativeMint => mint[m].is_initialized
  /\ account' = [account EXCEPT
       ![a] = [@ EXCEPT
         !.mint = m, !.owner = owner, !.delegate = NoKey, !.delegated_amount = 0,
         !.state = "Initialized",
         !.is_native = IF m = NativeMint THEN RentReserve ELSE None,
         !.amount = IF m = NativeMint THEN funds - RentReserve ELSE 0]]
  /\ lamports' = [lamports EXCEPT ![a] = funds]
  /\ cash' = cash - funds
  /\ UNCHANGED <<tx, mint, multisig>>

process_initialize_multisig(k, m, signers) ==
  /\ ~multisig[k].is_initialized
  /\ Len(signers) \in 1 .. MaxSigners /\ m \in 1 .. MaxSigners
  /\ multisig' = [multisig EXCEPT
       ![k] = [m |-> m, is_initialized |-> TRUE, signers |-> signers]]
  /\ UNCHANGED <<tx, mint, account, lamports, cash>>

(***************************************************************************)
(* Moving tokens.                                                          *)
(***************************************************************************)

\* Mutant of Moved: the copy of the destination, read before the source was
\* written, is written last also when both are one account.
MovedStale(s, d, authority, n) ==
  [account EXCEPT ![s] = Spent(@, authority, n),
                  ![d].amount = account[d].amount + n]

\* A transfer to itself is checked in full and changes nothing.
Moved(s, d, authority, n) ==
  IF s = d THEN account
  ELSE [account EXCEPT ![s] = Spent(@, authority, n),
                       ![d].amount = @ + n]

AnyFrozen(s, d) == is_frozen(s) \/ is_frozen(d)

process_transfer(s, d, authority, n) ==
  /\ is_initialized(s) /\ is_initialized(d)
  /\ ~AnyFrozen(s, d)
  /\ account[s].mint = account[d].mint
  /\ MaySpend(s, authority, n)
  /\ s # d => account[d].amount + n \in U64
  /\ account' = Moved(s, d, authority, n)
  /\ IF is_native(s) /\ s # d
     THEN /\ n <= lamports[s] /\ lamports[d] + n \in U64
          /\ lamports' = [lamports EXCEPT ![s] = @ - n, ![d] = @ + n]
     ELSE UNCHANGED lamports
  /\ UNCHANGED <<tx, mint, multisig, cash>>

process_approve(a, delegate, n) ==
  /\ is_initialized(a) /\ ~is_frozen(a)
  /\ validate_owner(account[a].owner)
  /\ account' = [account EXCEPT ![a].delegate = delegate,
                                ![a].delegated_amount = n]
  /\ UNCHANGED <<tx, mint, lamports, multisig, cash>>

process_revoke(a) ==
  /\ is_initialized(a) /\ ~is_frozen(a)
  /\ validate_owner(account[a].owner)
  /\ account' = [account EXCEPT ![a].delegate = NoKey,
                                ![a].delegated_amount = 0]
  /\ UNCHANGED <<tx, mint, lamports, multisig, cash>>

process_mint_to(m, a, n) ==
  /\ is_initialized(a) /\ ~is_frozen(a) /\ ~is_native(a)
  /\ account[a].mint = m /\ mint[m].is_initialized
  /\ mint[m].mint_authority # NoKey /\ validate_owner(mint[m].mint_authority)
  /\ account[a].amount + n \in U64 /\ mint[m].supply + n \in U64
  /\ account' = [account EXCEPT ![a].amount = @ + n]
  /\ mint' = [mint EXCEPT ![m].supply = @ + n]
  /\ UNCHANGED <<tx, lamports, multisig, cash>>

process_burn(a, authority, n) ==
  LET m == account[a].mint
  IN /\ is_initialized(a) /\ ~is_frozen(a) /\ ~is_native(a)
     /\ MaySpend(a, authority, n)
     /\ mint[m].is_initialized /\ n <= mint[m].supply
     /\ account' = [account EXCEPT ![a] = Spent(@, authority, n)]
     /\ mint' = [mint EXCEPT ![m].supply = @ - n]
     /\ UNCHANGED <<tx, lamports, multisig, cash>>

(***************************************************************************)
(* SetAuthority, one action per AuthorityType.                             *)
(***************************************************************************)
set_account_owner(a, new_authority) ==
  /\ is_initialized(a) /\ ~is_frozen(a)
  /\ validate_owner(account[a].owner)
  /\ new_authority # NoKey
  /\ account' = [account EXCEPT ![a].owner = new_authority]
  /\ UNCHANGED <<tx, mint, lamports, multisig, cash>>

set_close_authority(a, new_authority) ==
  /\ is_initialized(a) /\ ~is_frozen(a)
  /\ validate_owner(CloseAuthority(a))
  /\ account' = [account EXCEPT ![a].close_authority = new_authority]
  /\ UNCHANGED <<tx, mint, lamports, multisig, cash>>

\* Mutant of MayHandOver: without an authority anyone may become it.
MayTakeOver(authority) == authority = NoKey \/ validate_owner(authority)

\* FixedSupply and MintCannotFreeze: an authority given up stays so.
MayHandOver(authority) == authority # NoKey /\ validate_owner(authority)

set_mint_authority(m, new_authority) ==
  /\ mint[m].is_initialized
  /\ MayHandOver(mint[m].mint_authority)
  /\ mint' = [mint EXCEPT ![m].mint_authority = new_authority]
  /\ UNCHANGED <<tx, account, lamports, multisig, cash>>

set_freeze_authority(m, new_authority) ==
  /\ mint[m].is_initialized
  /\ MayHandOver(mint[m].freeze_authority)
  /\ mint' = [mint EXCEPT ![m].freeze_authority = new_authority]
  /\ UNCHANGED <<tx, account, lamports, multisig, cash>>

(***************************************************************************)
(* Freezing and closing.                                                   *)
(***************************************************************************)

\* Mutant of process_toggle_freeze_account: the freeze authority has not signed.
ToggleUnsigned(a, freeze) ==
  LET m == account[a].mint
  IN /\ is_initialized(a) /\ freeze # is_frozen(a) /\ ~is_native(a)
     /\ mint[m].is_initialized /\ mint[m].freeze_authority # NoKey
     /\ account' = [account EXCEPT
          ![a].state = IF freeze THEN "Frozen" ELSE "Initialized"]
     /\ UNCHANGED <<tx, mint, lamports, multisig, cash>>

process_toggle_freeze_account(a, freeze) ==
  LET m == account[a].mint
  IN /\ is_initialized(a) /\ freeze # is_frozen(a) /\ ~is_native(a)
     /\ mint[m].is_initialized /\ MayHandOver(mint[m].freeze_authority)
     /\ account' = [account EXCEPT
          ![a].state = IF freeze THEN "Frozen" ELSE "Initialized"]
     /\ UNCHANGED <<tx, mint, lamports, multisig, cash>>

\* Mutant of Closed: the balance stays in the account's data.
ClosedKeepingAmount(acc) == acc

Closed(acc) == [acc EXCEPT !.amount = 0]

\* The lamports go to dest, another token account or (NoKey) elsewhere.  With
\* dest = a they would be lost, and the runtime refuses an instruction that
\* changes the sum of all lamports.
process_close_account(a, dest) ==
  /\ is_initialized(a)
  /\ is_native(a) \/ account[a].amount = 0
  /\ validate_owner(CloseAuthority(a))
  /\ dest # a
  /\ account' = [account EXCEPT ![a] = Closed(@)]
  /\ IF dest = NoKey
     THEN /\ cash' = cash + lamports[a]
          /\ lamports' = [lamports EXCEPT ![a] = 0]
     ELSE /\ is_initialized(dest) /\ lamports[dest] + lamports[a] \in U64
          /\ lamports' = [lamports EXCEPT ![a] = 0, ![dest] = @ + lamports[a]]
          /\ UNCHANGED cash
  /\ UNCHANGED <<tx, mint, multisig>>

-----------------------------------------------------------------------------
(***************************************************************************)
(* The runtime (external).                                                 *)
(***************************************************************************)
BeginTransaction(signers) ==
  /\ tx = {}
  /\ tx' = signers
  /\ UNCHANGED <<mint, account, lamports, multisig, cash>>

\* Accounts without lamports are removed.
EndTransaction ==
  /\ tx # {}
  /\ tx' = {}
  /\ account' = [a \in Accounts |-> IF lamports[a] = 0 THEN NoAccount
                                    ELSE account[a]]
  /\ UNCHANGED <<mint, lamports, multisig, cash>>

\* A system transfer into a token account: a wrapped SOL account does not
\* take note of it.
PlainTransfer(a, n) ==
  /\ is_initialized(a) /\ n <= cash /\ lamports[a] + n \in U64
  /\ lamports' = [lamports EXCEPT ![a] = @ + n]
  /\ cash' = cash - n
  /\ UNCHANGED <<tx, mint, account, multisig>>

-----------------------------------------------------------------------------
Init ==
  /\ tx = {}
  /\ mint = [m \in Mints |-> [mint_authority |-> NoKey, supply |-> 0,
                              is_initialized |-> FALSE, freeze_authority |-> NoKey]]
  /\ account = [a \in Accounts |-> NoAccount]
  /\ lamports = [a \in Accounts |-> 0]
  /\ multisig = [k \in Multisigs |->
                   [m |-> 0, is_initialized |-> FALSE, signers |-> <<>>]]
  /\ cash = Cash

InitializeNext ==
  \/ \E m \in Mints, k \in Authorities, f \in Authorities \cup {NoKey} :
       process_initialize_mint(m, k, f)
  \/ \E a \in Accounts, m \in Mints \cup {NativeMint}, k \in Owners :
       \E funds \in RentReserve .. cash : process_initialize_account(a, m, k, funds)
  \/ \E k \in Multisigs, m \in 1 .. MaxSigners, signers \in SignerLists :
       process_initialize_multisig(k, m, signers)

TokenNext ==
  \E a \in Accounts :
    \/ \E d \in Accounts, k \in Keys : \E n \in 0 .. account[a].amount :
         process_transfer(a, d, k, n)
    \/ \E k \in Keys : \E n \in 0 .. account[a].amount : process_burn(a, k, n)
    \/ \E m \in Mints, n \in Issues : process_mint_to(m, a, n)
    \/ \E k \in Delegates, n \in Allowances : process_approve(a, k, n)
    \/ process_revoke(a)
    \/ \E freeze \in BOOLEAN : process_toggle_freeze_account(a, freeze)
    \/ \E dest \in Accounts \cup {NoKey} : process_close_account(a, dest)

AuthorityNext ==
  \/ \E a \in Accounts :
       \/ \E k \in Owners : set_account_owner(a, k)
       \/ \E k \in Closers : set_close_authority(a, k)
  \/ \E m \in Mints, k \in Authorities \cup {NoKey} :
       set_mint_authority(m, k) \/ set_freeze_authority(m, k)

Instruction == tx # {} /\ (InitializeNext \/ TokenNext \/ AuthorityNext)

Next ==
  \/ Instruction
  \/ \E signers \in SUBSET Wallets \ {{}} : BeginTransaction(signers)
  \/ EndTransaction
  \/ tx # {} /\ \E a \in Accounts : \E n \in 1 .. cash : PlainTransfer(a, n)

Spec == Init /\ [][Next]_vars

-----------------------------------------------------------------------------
(***************************************************************************)
(* Properties.                                                             *)
(***************************************************************************)

\* The accounts have the shape of the structs of state.rs; every
\* initialized account that is not wrapped SOL belongs to an initialized
\* mint, so Burn and FreezeAccount find it.
TypeOK ==
  /\ tx \in SUBSET Wallets
  /\ mint \in [Mints -> Mint]
  /\ account \in [Accounts -> Account]
  /\ lamports \in [Accounts -> U64]
  /\ multisig \in [Multisigs -> Multisig]
  /\ cash \in Nat
  /\ \A a \in Accounts :
       /\ is_native(a) <=> account[a].mint = NativeMint
       /\ is_initialized(a) /\ ~is_native(a) =>
            account[a].mint \in Mints /\ mint[account[a].mint].is_initialized

\* What every account holds of one mint.
Held(m) ==
  [a \in Accounts |-> IF account[a].mint = m THEN account[a].amount ELSE 0]

\* The accounts of a mint never hold more than its supply, so the two
\* counters that MintTo and Burn keep cannot make an honest Burn fail and a
\* transfer creates nothing, not even one from an account to itself.  (They
\* may hold less: what is minted into an account after it was closed, in
\* the same transaction, is gone with it.)
SupplyCoversAccounts ==
  \A m \in Mints :
    SumFunctionOnSet(Held(m), Accounts) <= mint[m].supply

\* Wrapped SOL is backed: an account of the native mint holds at least as
\* many lamports as tokens, also when it was closed and is used again
\* before the transaction ends.
NativeBacked ==
  \A a \in Accounts : is_native(a) => account[a].amount <= lamports[a]

\* Tokens leave an account only with the signatures of its owner, of its
\* delegate, whose allowance is used up by as much, or, for wrapped SOL that
\* is closed, of its close authority; allowances grow only with the owner's.
\* A multisig has signed when m of its positions have.  (Accounts without
\* lamports go when the transaction ends.)
SpendsAreAuthorized ==
  [][\A a \in Accounts :
       LET old == account[a]   new == account'[a]   spent == old.amount - new.amount
       IN lamports[a] > 0 =>
            /\ spent > 0 =>
                 \/ validate_owner(old.owner)
                 \/ /\ validate_owner(old.delegate)
                    /\ new.delegated_amount = old.delegated_amount - spent
                 \/ /\ is_native(a) /\ new.amount = 0 /\ lamports'[a] = 0
                    /\ validate_owner(old.close_authority)
            /\ new.delegated_amount > old.delegated_amount =>
                 validate_owner(old.owner)]_vars

\* A frozen account keeps its balance, its owner and its delegate, whoever
\* signs, and stays frozen until the freeze authority its mint has at that
\* time signs a thaw, or until it is removed because it was closed.
FrozenHoldsStill ==
  [][\A a \in Accounts :
       LET old == account[a]   new == account'[a]
       IN is_frozen(a) =>
            \/ /\ new.amount = old.amount /\ new.owner = old.owner
               /\ new.delegate = old.delegate
               /\ new.delegated_amount = old.delegated_amount
               /\ \/ new.state = "Frozen"
                  \/ /\ mint[old.mint].freeze_authority # NoKey
                     /\ validate_owner(mint[old.mint].freeze_authority)
            \/ lamports[a] = 0 /\ new = NoAccount]_vars

\* "Once a mint's supply is fixed, it cannot be undone": a mint that gave up
\* an authority never has one again, and without a mint authority its supply
\* only falls.
GivenUpForGood ==
  [][\A m \in Mints :
       mint[m].is_initialized =>
         /\ mint'[m].is_initialized
         /\ mint[m].mint_authority = NoKey =>
              /\ mint'[m].mint_authority = NoKey
              /\ mint'[m].supply <= mint[m].supply
         /\ mint[m].freeze_authority = NoKey =>
              mint'[m].freeze_authority = NoKey]_vars

=============================================================================
