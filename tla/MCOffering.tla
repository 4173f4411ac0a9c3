----------------------------- MODULE MCOffering -----------------------------
(* The instances of Offering that TLC checks. *)
EXTENDS Offering, TLC

CONSTANTS c1, m1

MCMethodChurch == m1 :> c1
Symmetry == Permutations(Forms) \cup Permutations(Calls)
=============================================================================
