--------------------------- MODULE RelationshipsMC ---------------------------
(* Small instances of Relationships: a pair of users, up to two handlers. *)
EXTENDS Relationships, TLC

CONSTANTS u1, u2, p1, p2

Symm == {f @@ g : f \in Permutations({u1, u2}), g \in Permutations(Procs)}
=============================================================================
