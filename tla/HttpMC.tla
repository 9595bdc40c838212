------------------------------- MODULE HttpMC --------------------------------
(* Small instances of Http: a request for anything, two for the auth routes, *)
(* all three of them from one address or by one user.                       *)
EXTENDS Http, TLC

CONSTANTS r1, r2, r3, ip, bob

OneOfEach == (r1 :> Routes) @@ (r2 :> {"auth"}) @@ (r3 :> {"auth"})

Limits == (ip :> 1) @@ (bob :> 2)

Symm == Permutations({r2, r3})
=============================================================================
