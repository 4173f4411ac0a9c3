----------------------------- MODULE MCAssistant -----------------------------
(* The instance of Assistant that TLC checks: one church with one member of
   the clergy. *)
EXTENDS Assistant, TLC

CONSTANTS p1, k1

MCClergy == p1 :> {k1}
=============================================================================
