--------------------------- MODULE MCLiquidityPool ---------------------------
(***************************************************************************)
(* Instances of LiquidityPool for TLC.                                     *)
(***************************************************************************)
EXTENDS LiquidityPool, TLC

Third == [numerator |-> 1, denominator |-> 3]
NoFee == [numerator |-> 0, denominator |-> 0]

\* Prices of 1, 5/2 and 2/3 lamports per stSOL, with the fee of one third the
\* tests use, and the fee 0/0 that Initialize also accepts.
MCPoolStates ==
  {[version |-> 1, stake_total |-> 3, pool_total |-> 3, fee |-> Third],
   [version |-> 1, stake_total |-> 5, pool_total |-> 2, fee |-> Third],
   [version |-> 1, stake_total |-> 2, pool_total |-> 3, fee |-> NoFee]}

SymmetricUsers == Permutations(Users)

=============================================================================
