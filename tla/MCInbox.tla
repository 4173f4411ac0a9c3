------------------------------ MODULE MCInbox ------------------------------
(* The instance of Inbox that TLC checks. *)
EXTENDS Inbox, TLC

Symmetry == Permutations(Opens) \cup Permutations(Messages)
=============================================================================
