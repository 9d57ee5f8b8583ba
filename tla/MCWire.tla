------------------------------- MODULE MCWire -------------------------------
(***************************************************************************)
(* Instance of Wire for TLC.                                               *)
(***************************************************************************)
EXTENDS Wire

\* Keys whose bytes look like option tags.
MCKeys == {<<0, 0>>, <<1, 0>>, <<0, 1>>}

\* The low byte alone, and the largest u64.
MCAmounts == {1, 323}
MCBalances == {1, 18}

=============================================================================
