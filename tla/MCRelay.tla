------------------------------ MODULE MCRelay ------------------------------
(***************************************************************************)
(* Instances of Relay for TLC.  The codes, the pairings and the            *)
(* connections are interchangeable: no action and no invariant tells one   *)
(* code, one pairing or one connection from another.                       *)
(***************************************************************************)
EXTENDS Relay, TLC

Symmetry == Permutations(Code) \cup Permutations(Pairing) \cup Permutations(Handler)
=============================================================================
