--------------------------- MODULE MCCredentials ---------------------------
(***************************************************************************)
(* Instances of Credentials for TLC.  Accounts, launches and goroutines    *)
(* are interchangeable.                                                    *)
(***************************************************************************)
EXTENDS Credentials, TLC

Symmetry == Permutations(Account) \cup Permutations(Launch) \cup Permutations(Op)
=============================================================================
