------------------------------ MODULE MCChurch ------------------------------
(* The instances of Church that TLC checks. *)
EXTENDS Church, TLC

Symmetry == Permutations(Ids) \cup Permutations(Calls)
=============================================================================
