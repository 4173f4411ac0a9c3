--------------------------- MODULE MCNotifications ---------------------------
(* The instance of Notifications that TLC checks. *)
EXTENDS Notifications, TLC

Symmetry == Permutations(Users) \cup Permutations(Keys) \cup Permutations(Ids)
              \cup Permutations(Calls)
=============================================================================
