---------------------------- MODULE StakeAccounts ----------------------------
(***************************************************************************)
(* Stake accounts, and what the native stake program does to them when the *)
(* pool (or a user) invokes it.                                            *)
(*                                                                         *)
(* The account layout comes from program/src/stake.rs, a copy of the       *)
(* native program's types.  The rules of Authorize, Split and Merge are    *)
(* those of the native program of the Solana release the crates depend on; *)
(* they are outside the repository and modelled from how processor.rs uses *)
(* them.  Each rule is a predicate saying when the invocation succeeds and *)
(* an operator giving the account afterwards: a failed invocation makes    *)
(* the whole instruction fail, so it never leaves a partial effect.        *)
(*                                                                         *)
(* Left out: lockups (the pool creates accounts with the default one),     *)
(* warm-up and cool-down of the delegated amount (check_stake_activation   *)
(* is an empty body), and credits_observed.                                *)
(***************************************************************************)
EXTENDS PoolMath

CONSTANTS
  Users,              \* wallets: owner, depositors, funders
  Validators,         \* vote accounts
  UserStakes,         \* addresses of stake accounts that users create
  DepositAuthority,   \* program address of the pool, suffix "deposit"
  WithdrawAuthority,  \* program address of the pool, suffix "withdraw"
  NoKey,              \* the default Pubkey
  RentReserve         \* rent-exempt balance of a stake account

Keys == Users \cup {DepositAuthority, WithdrawAuthority}

\* find_stake_address_for_validator: one program address per validator.
StakeAddress(v) == <<v, "stake">>

PoolStakes == {StakeAddress(v) : v \in Validators}
StakeAddrs == PoolStakes \cup UserStakes

ASSUME KeyAssumption ==
  /\ DepositAuthority # WithdrawAuthority
  /\ {DepositAuthority, WithdrawAuthority} \cap Users = {}
  /\ NoKey \notin Keys \cup Validators
  /\ PoolStakes \cap UserStakes = {}
  /\ (PoolStakes \cup UserStakes) \cap Validators = {}

ASSUME RentAssumption == RentReserve \in Nat

StakeAccount ==
  [state      : {"None", "Initialized", "Stake"},
   lamports   : U64,
   staker     : Keys \cup {NoKey},
   withdrawer : Keys \cup {NoKey},
   voter      : Validators \cup {NoKey}]

\* An address without lamports: the runtime drops the account.
NoAccount ==
  [state |-> "None", lamports |-> 0, staker |-> NoKey,
   withdrawer |-> NoKey, voter |-> NoKey]

-----------------------------------------------------------------------------
(***************************************************************************)
(* Authorize.  The withdrawer may change both authorities, the staker only *)
(* the staker.                                                             *)
(***************************************************************************)
CanAuthorize(a, signer, kind) ==
  /\ a.state # "None"
  /\ \/ a.withdrawer = signer
     \/ kind = "Staker" /\ a.staker = signer

Authorized(a, new, kind) ==
  IF kind = "Staker" THEN [a EXCEPT !.staker = new]
                     ELSE [a EXCEPT !.withdrawer = new]

(***************************************************************************)
(* The pool always moves the two authorities in the same order: Withdrawer *)
(* first, Staker second, both signed by the same key.  By the second step  *)
(* the signer is no longer the withdrawer, so it must be the staker.       *)
(***************************************************************************)
CanAuthorizeBoth(a, signer, new) ==
  /\ CanAuthorize(a, signer, "Withdrawer")
  /\ CanAuthorize(Authorized(a, new, "Withdrawer"), signer, "Staker")

AuthorizedBoth(a, new) ==
  Authorized(Authorized(a, new, "Withdrawer"), new, "Staker")

(***************************************************************************)
(* Split n lamports into an uninitialized account that already holds the   *)
(* rent reserve.  What stays behind is nothing, or at least the reserve.   *)
(***************************************************************************)
CanSplit(a, signer, n) ==
  /\ a.state # "None"
  /\ a.staker = signer
  /\ n > 0
  /\ n <= a.lamports
  /\ n = a.lamports \/ n + RentReserve <= a.lamports
  /\ n + RentReserve \in U64

SplitSource(a, n) ==
  IF n = a.lamports THEN NoAccount ELSE [a EXCEPT !.lamports = @ - n]

SplitTarget(a, n) == [a EXCEPT !.lamports = n + RentReserve]

(***************************************************************************)
(* Merge source into target: both delegated to the same validator, with    *)
(* the same authorities.  The source account disappears.                   *)
(***************************************************************************)
CanMerge(target, source, signer) ==
  /\ target.state = "Stake" /\ source.state = "Stake"
  /\ target.staker = signer
  /\ source.staker = target.staker
  /\ source.withdrawer = target.withdrawer
  /\ source.voter = target.voter
  /\ target.lamports + source.lamports \in U64

Merged(target, source) ==
  [target EXCEPT !.lamports = @ + source.lamports]

=============================================================================
