---------------------------- MODULE MCObligations ----------------------------
(* Instances of Obligations for TLC.                                         *)
EXTENDS Obligations, TLC

Interchangeable == Permutations(Users) \cup Permutations(Tx)

=============================================================================
