-------------------------------- MODULE HubMC --------------------------------
(* Small instances of Hub: one session of alice, one or two of bob.         *)
EXTENDS Hub, TLC

CONSTANTS a1, b1, b2, alice, bob

OneAndTwo == (a1 :> alice) @@ (b1 :> bob) @@ (b2 :> bob)
OneAndOne == (a1 :> alice) @@ (b1 :> bob)

UserFrame(event, to, text) ==
  [event |-> event, rtype |-> "user", to |-> to, text |-> text]

MessageToBob == {UserFrame("message", bob, TRUE)}

(* Every branch of routeMessage; an "ack" and an "error" that the client    *)
(* sends take the branch of "typing" and "read".                            *)
AllBranches ==
  {UserFrame("message", bob, TRUE), UserFrame("message", bob, FALSE),
   UserFrame("ack", bob, FALSE), UserFrame("user_offline", bob, FALSE),
   [event |-> "message", rtype |-> "group", to |-> bob, text |-> TRUE],
   [event |-> "error", rtype |-> "other", to |-> bob, text |-> FALSE]}

BobsSessions == Permutations({b1, b2})
=============================================================================
