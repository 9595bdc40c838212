------------------------------- MODULE Persist -------------------------------
(***************************************************************************)
(* What the hub relies on of MessageService.CreateMessage: one call at a   *)
(* time; a call stores its own message or nothing, never another and never *)
(* twice; it reports success only for a message it stored, and may report  *)
(* an error for one it stored.  Chat implements this statement by          *)
(* statement, and Hub uses nothing more of it.                             *)
(***************************************************************************)
EXTENDS Naturals, Sequences

CONSTANT Messages

VARIABLES
  pending,    \* the message of the call that is running, none or one
  rows,       \* the messages stored, in order
  confirmed   \* the numbers of the rows whose call reported success

vars == <<pending, rows, confirmed>>

Init == pending = <<>> /\ rows = <<>> /\ confirmed = {}

Begin ==
  /\ pending = <<>>
  /\ \E m \in Messages : pending' = <<m>>
  /\ UNCHANGED <<rows, confirmed>>

Succeed ==
  /\ pending # <<>> /\ pending' = <<>>
  /\ rows' = rows \o pending
  /\ confirmed' = confirmed \cup {Len(rows')}

Fail ==
  /\ pending # <<>> /\ pending' = <<>>
  /\ rows' \in {rows, rows \o pending}
  /\ UNCHANGED confirmed

Next == Begin \/ Succeed \/ Fail

Spec == Init /\ [][Next]_vars
=============================================================================
