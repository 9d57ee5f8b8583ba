------------------------------ MODULE MCClients ------------------------------
(***************************************************************************)
(* Instances of Clients for TLC.                                           *)
(***************************************************************************)
EXTENDS Clients, TLC

CONSTANTS u1, u2, v1, v2, a1, a2, t1, t2, t3

\* u1 has two terminals.
MCWalletOf == (t1 :> u1) @@ (t2 :> u2) @@ (t3 :> u1)
OneEach == (t1 :> u1) @@ (t2 :> u2)
SymmetricTerminals == Permutations({t1, t3})

Third == [numerator |-> 1, denominator |-> 3]
MCFees == {Third}

MCRent == [k \in AccountKinds |-> IF k = "Account" THEN 1 ELSE 0]

MCStartStake == (v1 :> 6) @@ (v2 :> 5)
MCStartTokens == (u1 :> 6) @@ (u2 :> 5)

\* a1 is free for receiving a withdrawal, a2 is a stake account of u2.
MCUserStake ==
  (a1 :> NoAccount) @@
  (a2 :> [state |-> "Stake", lamports |-> 4, staker |-> u2, withdrawer |-> u2,
          voter |-> v1])

Withdraw(tool, w, n, a) ==
  [tool |-> tool, op |-> "withdraw", owner |-> w, amount |-> n,
   burn_from |-> w, stake_receiver |-> a]
Deposit(tool, w, a, r) ==
  [tool |-> tool, op |-> "deposit", owner |-> w, stake |-> a, receiver |-> r]
Remove(tool, w, v) ==
  [tool |-> tool, op |-> "remove-validator-stake", owner |-> w,
   stake |-> StakeAddress(v), burn_from |-> w, new_authority |-> NoKey]
Add(tool, w, v) ==
  [tool |-> tool, op |-> "add-validator-stake", owner |-> w,
   stake |-> StakeAddress(v), receiver |-> NoKey]
SetOwner(tool, w, o, f) ==
  [tool |-> tool, op |-> "set-owner", owner |-> w, new_owner |-> o,
   new_fee_receiver |-> f]
Plain(tool, op, w) == [tool |-> tool, op |-> op, owner |-> w]
Amount(op, w, n) == [tool |-> "metacli", op |-> op, owner |-> w, amount |-> n]

Create(w) == [tool |-> "cli", op |-> "create-pool", owner |-> w, fee |-> Third]
CreateStake(tool, w, v) ==
  [tool |-> tool, op |-> "create-validator-stake", owner |-> w, validator |-> v]
SetStaker(tool, w, v, k) ==
  [tool |-> tool, op |-> "set-staking-auth", owner |-> w,
   stake |-> StakeAddress(v), new_staker |-> k]

\* Withdrawals race each other, a deposit, an update and the epoch.  u2 also
\* names the tokens of u1.
Exits ==
  [running |-> TRUE, cash |-> 7, outside |-> {}, epochs |-> 1,
   commands |-> {Withdraw("cli", u1, 3, a1), Withdraw("metacli", u1, 1, NoKey),
                 [Withdraw("cli", u2, 2, a2) EXCEPT !.burn_from = u1],
                 Withdraw("cli", u2, 2, a2),
                 Deposit("cli", u2, a2, NoKey), Plain("cli", "update", u2)}]

\* The pool changes hands while both wallets manage it.
Owners ==
  [running |-> TRUE, cash |-> 4, outside |-> {}, epochs |-> 0,
   commands |-> {SetOwner("cli", u1, u2, NoKey), SetOwner("metacli", u1, NoKey, u2),
                 SetOwner("cli", u2, u1, NoKey), SetOwner("metacli", u2, NoKey, u2),
                 SetStaker("cli", u1, v1, u1), SetStaker("metacli", u2, v1, WithdrawAuthority),
                 Remove("cli", u1, v1), Remove("metacli", u2, v2)}]

\* A pool is created and gets its first validator.
Setup ==
  [running |-> FALSE, cash |-> 12, outside |-> {"Delegate"}, epochs |-> 1,
   commands |-> {Create(u1), CreateStake("cli", u1, v1), CreateStake("metacli", u2, v2),
                 Add("cli", u1, v1), Add("metacli", u1, v2), Plain("cli", "list", u1),
                 Plain("metacli", "update", u2)}]

\* Two keepers, somebody who updates single records, and the owner.
Updates ==
  [running |-> TRUE, cash |-> 5, outside |-> {"UpdateList"}, epochs |-> 2,
   commands |-> {Plain("cli", "update", u1), Plain("metacli", "update", u2),
                 Plain("metacli", "update-force", u2), Remove("cli", u1, v1)}]

\* Trade with the liquidity pool while the stake pool moves.
Trade ==
  [running |-> TRUE, cash |-> 8, outside |-> {"HandOver"}, epochs |-> 1,
   commands |-> {Plain("metacli", "create-liq-pool", u1), Amount("add-liquidity", u1, 2),
                 Amount("sell", u2, 2), Deposit("metacli", u2, a2, u2),
                 Withdraw("metacli", u2, 2, a2), Plain("metacli", "update-force", u1)}]

\* u1 keeps the pool up to date while u2, its owner, empties it and wallets
\* come and go.
Keeping ==
  [running |-> TRUE, cash |-> 3, outside |-> {"UpdateList"}, epochs |-> 2,
   commands |-> {KeeperCommand, Plain("cli", "update", u2), Remove("cli", u2, v1),
                 Remove("metacli", u2, v2), Deposit("cli", u2, a2, u2),
                 Withdraw("cli", u2, 2, a1)}]

MCKeeperMenus == {Keeping}
MCKeeperTokens == (u1 :> 0) @@ (u2 :> 11)

MCExitMenus == {Exits}
MCOwnerMenus == {Owners}
MCMenus == {Exits, Owners, Setup, Updates, Trade}
=============================================================================
