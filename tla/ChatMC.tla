------------------------------- MODULE ChatMC --------------------------------
(* Small instances of Chat: a pair of users, one sender, up to two handlers. *)
EXTENDS Chat, TLC

CONSTANTS u1, u2, p1, p2

Symm == {f @@ g : f \in Permutations({u1, u2}), g \in Permutations(Procs)}
=============================================================================
