------------------------------- MODULE MCChat -------------------------------
(* Instances of Chat for TLC.                                                *)
EXTENDS Chat, TLC

Interchangeable ==
  Permutations(Users) \cup Permutations(Tx) \cup Permutations(Channels)

=============================================================================
