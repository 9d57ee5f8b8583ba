------------------------------ MODULE PoolMath ------------------------------
(***************************************************************************)
(* The arithmetic of the stake pool program: u64 quantities, u128          *)
(* intermediate products, Option<u64> results.                             *)
(*                                                                         *)
(* Sources: program/src/state.rs (impl StakePool), program/src/processor.rs        *)
(* (proportional, shares_from_value).  Operands are u64, so a product of   *)
(* two of them always fits the code's u128 and checked_mul never fails;    *)
(* checked_div fails on a zero divisor and u64::try_from on a quotient     *)
(* above U64Max.  Both failures are the value None.                        *)
(***************************************************************************)
EXTENDS Integers

CONSTANT U64Max   \* largest u64; 2^64 - 1 in the code, small for TLC

ASSUME U64MaxAssumption == U64Max \in Nat \ {0}

U64 == 0 .. U64Max

\* Option::None.  No u64 equals it, so "x \in U64" is the code's ok_or(...)?.
None == -1

(***************************************************************************)
(* The release build has no overflow checks: += and -= wrap.               *)
(***************************************************************************)
Add64(a, b) == (a + b) % (U64Max + 1)

\* Mutant of Sub64: the difference is kept as it is.
SubUnbounded(a, b) == a - b

Sub64(a, b) == (a - b) % (U64Max + 1)

\* u64::try_from(a as u128 .checked_mul(n)? .checked_div(d)?).ok()
CheckedMulDiv(a, n, d) ==
  IF d = 0 THEN None
  ELSE LET q == (a * n) \div d IN IF q <= U64Max THEN q ELSE None

-----------------------------------------------------------------------------
(***************************************************************************)
(* impl StakePool.  p is the pool record: p.stake_total lamports are under *)
(* management, p.pool_total tokens are outstanding.                        *)
(***************************************************************************)

calc_pool_withdraw_amount(p, stake_lamports) ==
  CheckedMulDiv(stake_lamports, p.pool_total, p.stake_total)

calc_pool_deposit_amount(p, stake_lamports) ==
  IF p.stake_total = 0 THEN stake_lamports
  ELSE calc_pool_withdraw_amount(p, stake_lamports)

\* Mutant of calc_lamports_amount: rounds in favour of the one who leaves.
calc_lamports_rounded_up(p, pool_tokens) ==
  IF p.pool_total = 0 THEN None
  ELSE (pool_tokens * p.stake_total + p.pool_total - 1) \div p.pool_total

calc_lamports_amount(p, pool_tokens) ==
  CheckedMulDiv(pool_tokens, p.stake_total, p.pool_total)

-----------------------------------------------------------------------------
(***************************************************************************)
(* The free functions the liquidity pool prices with.  Unlike the methods  *)
(* above, a zero denominator yields the amount itself.                     *)
(***************************************************************************)
proportional(amount, numerator, denominator) ==
  IF denominator = 0 THEN amount
  ELSE CheckedMulDiv(amount, numerator, denominator)

shares_from_value(value, total_value, total_shares) ==
  proportional(value, total_shares, total_value)

=============================================================================
