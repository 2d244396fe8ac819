-------------------------------- MODULE MCCalls --------------------------------
(* Two people and two requests at a time; one provider that may be framed   *)
(* and one that may not.                                                    *)
EXTENDS Calls, TLC

Interchangeable == Permutations(Tx) \cup Permutations(People)

=============================================================================
