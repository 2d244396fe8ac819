------------------------------ MODULE MCAccounts ------------------------------
(* Instances of Accounts for TLC. *)
EXTENDS Accounts, TLC

Interchangeable ==
  Permutations(People) \cup Permutations(Credentials) \cup Permutations(Tx)

\* Bound: what follows a skewed pair of owner checks is not explored; every
\* property but TypeOK says nothing about it.
BeforeSkew == ~skewed

=============================================================================
