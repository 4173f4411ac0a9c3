------------------------------- MODULE MCOtp -------------------------------
(* The instance of Otp that TLC checks. *)
EXTENDS Otp, TLC

Symmetry == Permutations(Slots) \cup Permutations(Codes)
=============================================================================
