---------------------------- MODULE MCChatGateway ----------------------------
(* The instance of ChatGateway that TLC checks: a faithful with two sockets and
   an admin with one in one conversation. *)
EXTENDS ChatGateway, TLC

CONSTANTS s1, s2, s3, u1, adm

MCSockets == {s1, s2, s3}
MCActors == {u1, adm}
MCAdmins == {adm}
MCActorOf == [s \in Sockets |-> IF s = s3 THEN adm ELSE u1]

Symmetry == Permutations({s1, s2})
=============================================================================
