------------------------------- MODULE MCMail -------------------------------
(* The instance of Mail that TLC checks. *)
EXTENDS Mail, TLC

Symmetry == Permutations(Mails) \cup Permutations(Jobs) \cup Permutations(Rows)
=============================================================================
