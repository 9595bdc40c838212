------------------------------ MODULE SessionMC ------------------------------
(* Small instances of Session: two accounts, two calls open at a time. *)
EXTENDS Session, TLC

CONSTANTS a1, a2, r1, r2

Symm == {f @@ g : f \in Permutations(Accounts), g \in Permutations(Slots)}
=============================================================================
