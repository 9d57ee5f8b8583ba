----------------------------- MODULE MCStakePool -----------------------------
(***************************************************************************)
(* Instances of StakePool for TLC.                                         *)
(***************************************************************************)
EXTENDS StakePool, TLC

MCFees == {[numerator |-> 1, denominator |-> 3]}

SymmetricValidators == Permutations(Validators)
SymmetricUsers == Permutations(Users)

=============================================================================
