------------------------------ MODULE MCSplToken ------------------------------
(***************************************************************************)
(* An instance of SplToken for TLC.                                        *)
(***************************************************************************)
EXTENDS SplToken, TLC

CONSTANTS w1, w2

MCSignerLists == {<<w1, w2>>}

SymmetricAccounts == Permutations(Accounts)

=============================================================================
