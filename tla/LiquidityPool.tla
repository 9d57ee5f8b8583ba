---------------------------- MODULE LiquidityPool ----------------------------
(***************************************************************************)
(* The wSOL/stSOL liquidity pool of the stake pool program                 *)
(* (program/src/processor.rs: process_add_liquidity, process_sell_stsol).  *)
(*                                                                         *)
(* Its state is two token accounts and the mint of the METALP share; it    *)
(* has no account of its own that the program reads.  SellstSOL prices     *)
(* with whatever the stake pool's account says at that moment: no handler  *)
(* here looks at last_update_epoch.  The stake pool is therefore an        *)
(* environment that moves between any two states of PoolStates.            *)
(***************************************************************************)
EXTENDS PoolMath, FiniteSetsExt

CONSTANTS
  Users,        \* wallets, each with one account per token
  PoolStates,   \* states of the stake pool that the instance goes through
  UserWsol      \* wSOL every user starts with

ASSUME LiquidityAssumption ==
  /\ PoolStates \subseteq [version : {0, 1}, stake_total : U64, pool_total : U64,
                           fee : [numerator : Nat, denominator : Nat]]
  \* process_initialize: "Numerator should be smaller than or equal to
  \* denominator (fee <= 1)".
  /\ \A p \in PoolStates : p.fee.numerator <= p.fee.denominator
  /\ UserWsol \in U64

VARIABLES
  stake_pool,     \* the StakePool account, as far as SellstSOL reads it
  liq,            \* the pool's wSOL and stSOL token accounts
  metalp_supply,  \* supply of the METALP mint
  metalp,         \* METALP by user
  wsol,           \* wSOL by user
  stsol           \* stSOL by user

vars == <<stake_pool, liq, metalp_supply, metalp, wsol, stsol>>

StsolTotal == liq.stsol + MapThenSumSet(LAMBDA u : stsol[u], Users)

-----------------------------------------------------------------------------
(***************************************************************************)
(* The token program refuses to move more than the source holds, or to     *)
(* bring an account or a mint above its u64.                               *)
(***************************************************************************)
\* Mutant of CanTransfer: the balance of the source is not checked.
TransferAnything(balance, n) == TRUE

CanTransfer(balance, n) == n <= balance

\* Mutant of MetalpAmount: the two totals are swapped.
MetalpSwapped(wsol_amount) ==
  shares_from_value(wsol_amount, metalp_supply, liq.wsol)

\* Shares are priced by the wSOL account alone, as it was before the
\* transfer.
MetalpAmount(wsol_amount) ==
  shares_from_value(wsol_amount, liq.wsol, metalp_supply)

process_add_liquidity(u, wsol_amount) ==
  LET metalp_amount == MetalpAmount(wsol_amount)
  IN /\ wsol_amount # 0
     /\ CanTransfer(wsol[u], wsol_amount)
     /\ liq.wsol + wsol_amount \in U64
     /\ metalp_amount \in U64
     /\ metalp_supply + metalp_amount \in U64 /\ metalp[u] + metalp_amount \in U64
     /\ wsol' = [wsol EXCEPT ![u] = @ - wsol_amount]
     /\ liq' = [liq EXCEPT !.wsol = @ + wsol_amount]
     /\ metalp_supply' = metalp_supply + metalp_amount
     /\ metalp' = [metalp EXCEPT ![u] = @ + metalp_amount]
     /\ UNCHANGED <<stake_pool, stsol>>

\* What stsol_amount is worth at the stake pool's price.
SolValue(stsol_amount) ==
  proportional(stsol_amount, stake_pool.stake_total, stake_pool.pool_total)

FeeAmount(sol_value) ==
  proportional(sol_value, stake_pool.fee.numerator, stake_pool.fee.denominator)

\* Mutant of WsolToUser: the fee is paid to the seller.
FeeAdded(sol_value) == sol_value + FeeAmount(sol_value)

WsolToUser(sol_value) == sol_value - FeeAmount(sol_value)

\* The check compares the stSOL sold, not the wSOL paid, with the pool's
\* wSOL; the transfer to the user makes up for it.
process_sell_stsol(u, stsol_amount) ==
  LET sol_value == SolValue(stsol_amount)
      wsol_amount_to_user == WsolToUser(sol_value)
  IN /\ stsol_amount # 0
     /\ stake_pool.version > 0
     /\ stsol_amount <= liq.wsol
     /\ CanTransfer(stsol[u], stsol_amount)
     /\ liq.stsol + stsol_amount \in U64
     /\ sol_value \in U64
     /\ FeeAmount(sol_value) \in U64
     /\ CanTransfer(liq.wsol, wsol_amount_to_user)
     /\ wsol[u] + wsol_amount_to_user \in U64
     /\ stsol' = [stsol EXCEPT ![u] = @ - stsol_amount]
     /\ wsol' = [wsol EXCEPT ![u] = @ + wsol_amount_to_user]
     /\ liq' = [wsol |-> liq.wsol - wsol_amount_to_user,
                stsol |-> liq.stsol + stsol_amount]
     /\ UNCHANGED <<stake_pool, metalp_supply, metalp>>

-----------------------------------------------------------------------------
(***************************************************************************)
(* The environment.                                                        *)
(***************************************************************************)

\* Instructions of the stake pool: its totals move, and a user gains or loses
\* stSOL.  pool_total is never less than the stSOL there are.
StakePoolMoves(p, u, n) ==
  /\ stsol[u] + n \in U64 /\ StsolTotal + n <= p.pool_total
  /\ stake_pool' = p
  /\ stsol' = [stsol EXCEPT ![u] = @ + n]
  /\ UNCHANGED <<liq, metalp_supply, metalp, wsol>>

\* A plain token transfer into the pool's wSOL account.
Donate(u, n) ==
  /\ n <= wsol[u] /\ liq.wsol + n \in U64
  /\ wsol' = [wsol EXCEPT ![u] = @ - n]
  /\ liq' = [liq EXCEPT !.wsol = @ + n]
  /\ UNCHANGED <<stake_pool, metalp_supply, metalp, stsol>>

\* A provider burns shares with the token program (remove-liquidity is not
\* implemented).
BurnMetalp(u, n) ==
  /\ n <= metalp[u] /\ n <= metalp_supply
  /\ metalp' = [metalp EXCEPT ![u] = @ - n]
  /\ metalp_supply' = metalp_supply - n
  /\ UNCHANGED <<stake_pool, liq, wsol, stsol>>

-----------------------------------------------------------------------------
Init ==
  /\ stake_pool = [version |-> 0, stake_total |-> 0, pool_total |-> 0,
                   fee |-> [numerator |-> 0, denominator |-> 0]]
  /\ liq = [wsol |-> 0, stsol |-> 0]
  /\ metalp_supply = 0
  /\ metalp = [u \in Users |-> 0]
  /\ wsol = [u \in Users |-> UserWsol]
  /\ stsol = [u \in Users |-> 0]

AddLiquidity == \E u \in Users : \E n \in 1 .. wsol[u] : process_add_liquidity(u, n)
SellstSOL == \E u \in Users : \E n \in 1 .. stsol[u] : process_sell_stsol(u, n)

Next ==
  \/ AddLiquidity
  \/ SellstSOL
  \/ \E p \in PoolStates, u \in Users : \E n \in -stsol[u] .. p.pool_total :
       StakePoolMoves(p, u, n)
  \/ \E u \in Users : \/ \E n \in 1 .. wsol[u] : Donate(u, n)
                      \/ \E n \in 1 .. metalp[u] : BurnMetalp(u, n)

Spec == Init /\ [][Next]_vars

-----------------------------------------------------------------------------
\* Token balances stay within their u64, whatever is sold and added.
TypeOK ==
  /\ liq \in [wsol : U64, stsol : U64]
  /\ metalp_supply \in U64
  /\ metalp \in [Users -> U64] /\ wsol \in [Users -> U64]
  /\ stsol \in [Users -> U64]

\* Worth of what the pool holds, in units of 1 / pool_total SOL.
PoolValue == liq.wsol * stake_pool.pool_total + liq.stsol * stake_pool.stake_total

\* A sale never costs the providers anything at the price it is made at: the
\* fee "stays in the liq-pool", and all rounding favours the pool, whatever
\* ratio of wSOL and stSOL, price and fee earlier steps have left.
SalesKeepValue == [][SellstSOL => PoolValue' >= PoolValue]_vars

\* Adding liquidity never lowers the wSOL behind a METALP share, also after
\* sales, donations and burns have moved the ratio away from one to one.
WsolPerShareHolds ==
  [][AddLiquidity => liq.wsol * metalp_supply' <= liq'.wsol * metalp_supply]_vars

=============================================================================
