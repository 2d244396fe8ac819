------------------------------ MODULE MCBackup ------------------------------
(* Instances of Backup for TLC.                                              *)
EXTENDS Backup, TLC

Interchangeable == 
  Permutations(Keys) \cup Permutations(Messages) \cup Permutations(Writers)

=============================================================================
