---------------------------- MODULE Relationships ----------------------------
(***************************************************************************)
(* Friendships, friend requests and blocks: the HTTP handlers of           *)
(* FriendRequestService and BlockService over the tables friends,          *)
(* friend_requests and blocks.  A handler is a process; a step is one SQL  *)
(* statement, or one row of a statement that changes several and may have  *)
(* to wait for each.                                                       *)
(*                                                                         *)
(* The database is PostgreSQL at its default level, read committed: a      *)
(* statement sees the rows committed when it starts, a row another open    *)
(* transaction has written is waited for and then looked at again, and a   *)
(* transaction's writes become visible together when it commits.  tx[p]    *)
(* holds what the transaction of handler p has written and so locked.      *)
(***************************************************************************)
EXTENDS Naturals, Sequences, FiniteSets

CONSTANTS
  Users,    \* user ids
  Procs,    \* handlers that may run at the same time
  Kinds,    \* the operations clients call
  MaxOps    \* bound: operations called in a whole behaviour

Operation == {"create", "accept", "reject", "cancel", "block", "unblock"}

ASSUME RelationshipsAssumption ==
  /\ Kinds \subseteq Operation
  /\ MaxOps \in Nat

VARIABLES
  friends,   \* rows (user_id, friend_id) of friends
  blocks,    \* rows (blocker_id, blocked_id) of blocks
  requests,  \* friend_requests; a request has the number of the call that made it
  pc,        \* the statement a handler executes next
  op,        \* its operation
  reply,     \* its last answer: "ok" (2xx) or "error"
  tx,        \* what its open transaction has written
  todo,      \* the rows its statement has still to go through
  called     \* how many operations were called

tables == <<friends, blocks, requests>>
vars == <<tables, pc, op, reply, tx, todo, called>>

Ids   == 1 .. MaxOps
Pairs == {<<a, b>> : a \in Users, b \in Users}
Both(a, b) == {<<a, b>>, <<b, a>>}

NoTx == [rows |-> {}, added |-> {}, removed |-> {}, blocked |-> {}]
Nothing == [rows |-> {}, pairs |-> {}]
NoOp == [kind |-> "none", by |-> "nobody", to |-> "nobody", id |-> 0]
NoRequest == [from |-> "nobody", to |-> "nobody", status |-> "unborn"]

(* A call: who makes it, with whom (create, block, unblock) or on which     *)
(* request (accept, reject, cancel); a create makes the request "id".       *)
Somebody == Users \cup {"nobody"}
Calls == [kind : Kinds \cup {"none"}, by : Somebody, to : Somebody, id : Ids \cup {0}]

Statements == {"idle", "areFriends", "pendingTo", "pendingFrom", "isBlocked",
               "insertRequest", "checkIndex", "lockRequest", "insertFriends", "reject",
               "cancel", "insertBlock", "deleteFriends", "deletingFriends",
               "updateRequests", "updatingRequests", "deleteBlock", "commit"}

Status == {"unborn", "pending", "accepted", "rejected", "blocked", "deleted"}

TypeOK ==
  /\ friends \subseteq Pairs /\ blocks \subseteq Pairs
  /\ requests \in [Ids -> [from : Somebody, to : Somebody, status : Status]]
  /\ pc \in [Procs -> Statements]
  /\ op \in [Procs -> Calls]
  /\ reply \in [Procs -> {"none", "ok", "error"}]
  /\ tx \in [Procs -> [rows : SUBSET Ids, added : SUBSET Pairs,
                       removed : SUBSET Pairs, blocked : SUBSET Pairs]]
  /\ todo \in [Procs -> [rows : SUBSET Ids, pairs : SUBSET Pairs]]
  /\ called \in 0 .. MaxOps

Init ==
  /\ friends = {} /\ blocks = {}
  /\ requests = [i \in Ids |-> NoRequest]
  /\ pc = [p \in Procs |-> "idle"]
  /\ op = [p \in Procs |-> NoOp]
  /\ reply = [p \in Procs |-> "none"]
  /\ tx = [p \in Procs |-> NoTx]
  /\ todo = [p \in Procs |-> Nothing]
  /\ called = 0

-----------------------------------------------------------------------------
(* What a statement sees and what it waits for.                             *)

Live(i) == requests[i].status \notin {"unborn", "deleted"}

RequestsOf(a, b) == {i \in Ids : Live(i) /\ <<requests[i].from, requests[i].to>> \in Both(a, b)}

Pending(i) == requests[i].status = "pending"

Others(p) == Procs \ {p}

(* Another transaction holds request row i, friends row f or blocks row b.  *)
RowHolders(p, i)    == {q \in Others(p) : i \in tx[q].rows}
FriendHolders(p, f) == {q \in Others(p) : f \in tx[q].added \cup tx[q].removed}
BlockHolders(p, b)  == {q \in Others(p) : b \in tx[q].blocked}

At(p, stmt) == pc[p] = stmt
GoTo(p, stmt) == pc' = [pc EXCEPT ![p] = stmt]

(* Mutant: the deferred Rollback is missing.                                *)
AnswerHoldingLocks(p, r) ==
  /\ GoTo(p, "idle")
  /\ reply' = [reply EXCEPT ![p] = r]
  /\ UNCHANGED <<op, called, tx, todo>>

(* The handler answers; a transaction it has open ends with it.             *)
Answer(p, r) ==
  /\ GoTo(p, "idle")
  /\ reply' = [reply EXCEPT ![p] = r]
  /\ tx' = [tx EXCEPT ![p] = NoTx]
  /\ todo' = [todo EXCEPT ![p] = Nothing]
  /\ UNCHANGED <<op, called>>

(* A committed answer: a DELETE of another transaction that saw a row which *)
(* is gone now skips it, also if a new row like it is inserted later.       *)
AnswerCommitted(p) ==
  /\ GoTo(p, "idle")
  /\ reply' = [reply EXCEPT ![p] = "ok"]
  /\ tx' = [tx EXCEPT ![p] = NoTx]
  /\ todo' = [q \in Procs |->
                IF q = p THEN Nothing
                ELSE IF At(q, "deletingFriends")
                THEN [todo[q] EXCEPT !.pairs = @ \ tx[p].removed]
                ELSE todo[q]]
  /\ UNCHANGED <<op, called>>

(* The handler goes on to its next statement.                               *)
Continue(p, stmt) ==
  /\ GoTo(p, stmt)
  /\ UNCHANGED <<op, reply, called>>

-----------------------------------------------------------------------------
(* A client calls an operation; the handler's checks of the body come       *)
(* first.  A request is named by the id its receiver and sender know.       *)

FirstStatement(kind) ==
  CASE kind = "create"  -> "areFriends"
    [] kind = "accept"  -> "lockRequest"
    [] kind = "reject"  -> "reject"
    [] kind = "cancel"  -> "cancel"
    [] kind = "block"   -> "insertBlock"
    [] kind = "unblock" -> "deleteBlock"

Call(p) ==
  /\ At(p, "idle") /\ called < MaxOps
  /\ \E kind \in Kinds, by \in Users :
       /\ \/ /\ kind \in {"create", "block", "unblock"}
             /\ \E to \in Users :
                  op' = [op EXCEPT ![p] = [kind |-> kind, by |-> by, to |-> to,
                                           id |-> called + 1]]
          \/ /\ kind \in {"accept", "reject", "cancel"}
             /\ \E i \in {j \in Ids : requests[j].status # "unborn"} :
                  op' = [op EXCEPT ![p] = [kind |-> kind, by |-> by, to |-> by, id |-> i]]
       /\ GoTo(p, FirstStatement(kind))
  /\ called' = called + 1
  /\ reply' = [reply EXCEPT ![p] = "none"]
  /\ UNCHANGED <<tables, tx, todo>>

(* The request's context ends (the client went away, the server gives up)   *)
(* or the connection to the database fails: the transaction rolls back.     *)
Abort(p) ==
  /\ ~At(p, "idle")
  /\ Answer(p, "error")
  /\ UNCHANGED tables

-----------------------------------------------------------------------------
(* CreateRequest: four reads, then an INSERT that looks once more and that  *)
(* the unique index on pending requests of a pair may refuse.               *)

Me(p)   == op[p].by
Peer(p) == op[p].to
Id(p)   == op[p].id

PendingFrom(a, b) == \E i \in Ids : /\ Pending(i)
                                   /\ requests[i].from = a /\ requests[i].to = b

AreFriends(a, b) == <<a, b>> \in friends

(* Mutant: only the block one of the two made.                              *)
IsBlockedOneWay(a, b) == <<a, b>> \in blocks

IsBlocked(a, b) == Both(a, b) \cap blocks # {}

(* One of the reads: the handler answers an error if it finds something.    *)
Check(p, stmt, found, next) ==
  /\ At(p, stmt)
  /\ IF found THEN Answer(p, "error") ELSE Continue(p, next) /\ UNCHANGED <<tx, todo>>
  /\ UNCHANGED tables

CheckFriends(p) ==
  Check(p, "areFriends", Me(p) = Peer(p) \/ AreFriends(Me(p), Peer(p)), "pendingTo")
CheckPendingTo(p) ==
  Check(p, "pendingTo", PendingFrom(Me(p), Peer(p)), "pendingFrom")

(* Mutant: the same direction twice.                                        *)
CheckPendingFromAgain(p) ==
  Check(p, "pendingFrom", PendingFrom(Me(p), Peer(p)), "isBlocked")

CheckPendingFrom(p) ==
  Check(p, "pendingFrom", PendingFrom(Peer(p), Me(p)), "isBlocked")
CheckBlocked(p) ==
  Check(p, "isBlocked", IsBlocked(Peer(p), Me(p)), "insertRequest")

(* INSERT ... SELECT ... WHERE NOT EXISTS: with a pending request of the    *)
(* pair in sight nothing is inserted, and the handler, which does not look  *)
(* at the number of rows, answers 201 all the same.                         *)
InsertRequest(p) ==
  /\ At(p, "insertRequest")
  /\ IF \E i \in RequestsOf(Me(p), Peer(p)) : Pending(i)
     THEN Answer(p, "ok")
     ELSE Continue(p, "checkIndex") /\ UNCHANGED <<tx, todo>>
  /\ UNCHANGED tables

(* Mutant: an index on (sender, receiver), which leaves the reverse free.   *)
CheckIndexOrdered(p) ==
  /\ At(p, "checkIndex")
  /\ IF PendingFrom(Me(p), Peer(p))
     THEN Answer(p, "error") /\ UNCHANGED tables
     ELSE /\ requests' = [requests EXCEPT ![Id(p)] =
                            [from |-> Me(p), to |-> Peer(p), status |-> "pending"]]
          /\ Answer(p, "ok")
          /\ UNCHANGED <<friends, blocks>>

(* The index waits for a transaction that holds a pending request of the    *)
(* pair; it refuses the row if one is committed, and the answer is 500.     *)
CheckIndex(p) ==
  LET rivals == {i \in RequestsOf(Me(p), Peer(p)) : Pending(i)}
  IN /\ At(p, "checkIndex")
     /\ \A i \in rivals : RowHolders(p, i) = {}
     /\ IF rivals # {}
        THEN Answer(p, "error") /\ UNCHANGED tables
        ELSE /\ requests' = [requests EXCEPT ![Id(p)] =
                               [from |-> Me(p), to |-> Peer(p), status |-> "pending"]]
             /\ Answer(p, "ok")
             /\ UNCHANGED <<friends, blocks>>

-----------------------------------------------------------------------------
(* AcceptRequest: one transaction.                                          *)

(* Mutant: anybody accepts.                                                 *)
LockRequestOfAnyone(p) ==
  /\ At(p, "lockRequest")
  /\ Pending(Id(p)) => RowHolders(p, Id(p)) = {}
  /\ IF Pending(Id(p))
     THEN /\ tx' = [tx EXCEPT ![p].rows = {Id(p)}]
          /\ todo' = [todo EXCEPT ![p].pairs =
                        {<<requests[Id(p)].to, requests[Id(p)].from>>}]
          /\ Continue(p, "insertFriends")
     ELSE Answer(p, "error")
  /\ UNCHANGED tables

(* SELECT ... FOR UPDATE of the pending request, then the receiver check;   *)
(* the UPDATE to accepted that follows writes the row it has locked.        *)
LockRequest(p) ==
  /\ At(p, "lockRequest")
  /\ Pending(Id(p)) => RowHolders(p, Id(p)) = {}
  /\ IF Pending(Id(p)) /\ requests[Id(p)].to = Me(p)
     THEN /\ tx' = [tx EXCEPT ![p].rows = {Id(p)}]
          /\ todo' = [todo EXCEPT ![p].pairs = Both(requests[Id(p)].from, Me(p))]
          /\ Continue(p, "insertFriends")
     ELSE Answer(p, "error")
  /\ UNCHANGED tables

(* INSERT INTO friends of both directions, the sender's row first, ON       *)
(* CONFLICT DO NOTHING: a row in the table is left alone, one that another  *)
(* transaction writes is waited for.                                        *)
InsertFriend(p, f) ==
  /\ At(p, "insertFriends") /\ f \in todo[p].pairs
  /\ f[2] = Me(p) \/ Cardinality(todo[p].pairs) = 1
  /\ FriendHolders(p, f) = {}
  /\ tx' = IF f \in friends THEN tx ELSE [tx EXCEPT ![p].added = @ \cup {f}]
  /\ todo' = [todo EXCEPT ![p].pairs = @ \ {f}]
  /\ Continue(p, IF todo[p].pairs = {f} THEN "commit" ELSE "insertFriends")
  /\ UNCHANGED tables

-----------------------------------------------------------------------------
(* RejectRequest and CancelRequest: one statement each, on a pending        *)
(* request of the right receiver or sender.                                 *)

Settle(p, stmt, mine, status) ==
  /\ At(p, stmt)
  /\ Pending(Id(p)) /\ mine => RowHolders(p, Id(p)) = {}
  /\ IF Pending(Id(p)) /\ mine
     THEN requests' = [requests EXCEPT ![Id(p)].status = status] /\ Answer(p, "ok")
     ELSE UNCHANGED requests /\ Answer(p, "error")
  /\ UNCHANGED <<friends, blocks>>

RejectRequest(p) == Settle(p, "reject", requests[Id(p)].to = Me(p), "rejected")

(* Mutants: a request that is not pending any more; a status the table's    *)
(* CHECK does not know.                                                     *)
CancelAnyRequest(p) ==
  /\ At(p, "cancel")
  /\ RowHolders(p, Id(p)) = {}
  /\ IF requests[Id(p)].from = Me(p)
     THEN requests' = [requests EXCEPT ![Id(p)].status = "deleted"] /\ Answer(p, "ok")
     ELSE UNCHANGED requests /\ Answer(p, "error")
  /\ UNCHANGED <<friends, blocks>>
CancelKeepsRow(p) == Settle(p, "cancel", requests[Id(p)].from = Me(p), "cancelled")

CancelRequest(p) == Settle(p, "cancel", requests[Id(p)].from = Me(p), "deleted")

-----------------------------------------------------------------------------
(* BlockUser: one transaction of three statements.                          *)

(* INSERT INTO blocks ... ON CONFLICT DO NOTHING.                           *)
InsertBlock(p) ==
  LET b == <<Me(p), Peer(p)>>
  IN /\ At(p, "insertBlock")
     /\ BlockHolders(p, b) = {}
     /\ IF Me(p) = Peer(p)
        THEN Answer(p, "error")
        ELSE /\ tx' = IF b \in blocks THEN tx ELSE [tx EXCEPT ![p].blocked = {b}]
             /\ Continue(p, "deleteFriends") /\ UNCHANGED todo
     /\ UNCHANGED tables

(* Mutant: the blocker's own row only.                                      *)
DeleteFriendsOneWay(p) ==
  /\ At(p, "deleteFriends")
  /\ todo' = [todo EXCEPT ![p].pairs = {<<Me(p), Peer(p)>>} \cap friends]
  /\ Continue(p, "deletingFriends")
  /\ UNCHANGED <<tables, tx>>

(* DELETE FROM friends of both directions: the committed rows it sees, each *)
(* waited for if another transaction holds it (AnswerCommitted skips those  *)
(* that are gone then).                                                     *)
DeleteFriends(p) ==
  /\ At(p, "deleteFriends")
  /\ todo' = [todo EXCEPT ![p].pairs = Both(Me(p), Peer(p)) \cap friends]
  /\ Continue(p, "deletingFriends")
  /\ UNCHANGED <<tables, tx>>

DeleteFriend(p, f) ==
  /\ At(p, "deletingFriends") /\ f \in todo[p].pairs
  /\ FriendHolders(p, f) = {}
  /\ tx' = [tx EXCEPT ![p].removed = @ \cup {f}]
  /\ todo' = [todo EXCEPT ![p].pairs = @ \ {f}]
  /\ UNCHANGED <<tables, pc, op, reply, called>>

(* Mutant: the pending requests only.                                       *)
UpdatePendingRequests(p) ==
  /\ At(p, "deletingFriends") /\ todo[p].pairs = {}
  /\ todo' = [todo EXCEPT ![p].rows = {i \in RequestsOf(Me(p), Peer(p)) : Pending(i)}]
  /\ Continue(p, "updatingRequests")
  /\ UNCHANGED <<tables, tx>>

(* UPDATE friend_requests SET status='blocked' of the pair's requests.      *)
UpdateRequests(p) ==
  /\ At(p, "deletingFriends") /\ todo[p].pairs = {}
  /\ todo' = [todo EXCEPT ![p].rows = RequestsOf(Me(p), Peer(p))]
  /\ Continue(p, "updatingRequests")
  /\ UNCHANGED <<tables, tx>>

UpdateRequest(p, i) ==
  /\ At(p, "updatingRequests") /\ i \in todo[p].rows
  /\ RowHolders(p, i) = {}
  /\ tx' = IF Live(i) THEN [tx EXCEPT ![p].rows = @ \cup {i}] ELSE tx
  /\ todo' = [todo EXCEPT ![p].rows = @ \ {i}]
  /\ UNCHANGED <<tables, pc, op, reply, called>>

UpdatedRequests(p) ==
  /\ At(p, "updatingRequests") /\ todo[p].rows = {}
  /\ Continue(p, "commit")
  /\ UNCHANGED <<tables, tx, todo>>

(* COMMIT of either transaction.                                            *)
Commit(p) ==
  /\ At(p, "commit")
  /\ friends' = (friends \ tx[p].removed) \cup tx[p].added
  /\ blocks' = blocks \cup tx[p].blocked
  /\ requests' = [i \in Ids |->
                    IF i \in tx[p].rows
                    THEN [requests[i] EXCEPT !.status =
                            IF op[p].kind = "accept" THEN "accepted" ELSE "blocked"]
                    ELSE requests[i]]
  /\ AnswerCommitted(p)

(* UnblockUser: one statement; a block not committed yet is not found.      *)
DeleteBlock(p) ==
  /\ At(p, "deleteBlock")
  /\ blocks' = blocks \ {<<Me(p), Peer(p)>>}
  /\ Answer(p, IF <<Me(p), Peer(p)>> \in blocks THEN "ok" ELSE "error")
  /\ UNCHANGED <<friends, requests>>

-----------------------------------------------------------------------------
(* Deadlock: PostgreSQL aborts one of the transactions that wait for one    *)
(* another in a circle.                                                     *)

WaitsFor(p) ==
  CASE At(p, "checkIndex") ->
         UNION {RowHolders(p, i) : i \in {j \in RequestsOf(Me(p), Peer(p)) : Pending(j)}}
    [] At(p, "lockRequest") /\ Pending(Id(p)) -> RowHolders(p, Id(p))
    [] At(p, "reject") /\ Pending(Id(p)) /\ requests[Id(p)].to = Me(p) -> RowHolders(p, Id(p))
    [] At(p, "cancel") /\ Pending(Id(p)) /\ requests[Id(p)].from = Me(p) -> RowHolders(p, Id(p))
    [] pc[p] \in {"insertFriends", "deletingFriends"} ->
         UNION {FriendHolders(p, f) : f \in todo[p].pairs}
    [] At(p, "updatingRequests") -> UNION {RowHolders(p, i) : i \in todo[p].rows}
    [] At(p, "insertBlock") -> BlockHolders(p, <<Me(p), Peer(p)>>)
    [] OTHER -> {}

Deadlocked(p) ==
  \E S \in SUBSET Procs : p \in S /\ \A q \in S : WaitsFor(q) \cap S # {}

BreakDeadlock(p) ==
  /\ Deadlocked(p)
  /\ Answer(p, "error")
  /\ UNCHANGED tables

-----------------------------------------------------------------------------
Step(p) ==
  \/ CheckFriends(p) \/ CheckPendingTo(p) \/ CheckPendingFrom(p) \/ CheckBlocked(p)
  \/ InsertRequest(p) \/ CheckIndex(p)
  \/ LockRequest(p) \/ \E f \in Pairs : InsertFriend(p, f)
  \/ RejectRequest(p) \/ CancelRequest(p)
  \/ InsertBlock(p) \/ DeleteFriends(p) \/ \E f \in Pairs : DeleteFriend(p, f)
  \/ UpdateRequests(p) \/ \E i \in Ids : UpdateRequest(p, i) \/ UpdatedRequests(p)
  \/ Commit(p) \/ DeleteBlock(p)

Next == \E p \in Procs : Call(p) \/ Step(p) \/ BreakDeadlock(p) \/ Abort(p)

Spec == Init /\ [][Next]_vars

(* A handler runs on: its goroutine is scheduled, the database answers each *)
(* statement, hands a released row to a handler that waits for it, and      *)
(* breaks a deadlock after deadlock_timeout.  Nobody need call or abort.    *)
FairSpec ==
  Spec /\ \A p \in Procs : WF_vars(Step(p)) /\ WF_vars(BreakDeadlock(p))

-----------------------------------------------------------------------------
(* Safety.                                                                  *)

(* Friendship is mutual and between two users, in every committed state:    *)
(* acceptances and blocks of a pair that overlap, wait for each other's     *)
(* rows or are aborted half way leave both rows or none.                    *)
FriendsMutual ==
  \A f \in friends : f[1] # f[2] /\ <<f[2], f[1]>> \in friends

(* No pair has two pending requests, however many creates raced past the    *)
(* checks of the service and of the INSERT itself.                          *)
OnePending ==
  \A i, j \in Ids : Pending(i) /\ Pending(j) /\ <<requests[i].from, requests[i].to>>
                        \in Both(requests[j].from, requests[j].to) => i = j

(* An accepted request stands for a friendship: nothing removes the rows    *)
(* without moving the request on in the same commit.                        *)
AcceptedAreFriends ==
  \A i \in Ids : requests[i].status = "accepted"
                    => Both(requests[i].from, requests[i].to) \subseteq friends

(* A request is answered once.  No commit turns a request that is not       *)
(* pending back, or into anything but blocked.                              *)
AnsweredForGood ==
  [][\A i \in Ids :
       requests[i].status \in {"accepted", "rejected", "blocked", "deleted"}
         => requests'[i].status \in {requests[i].status}
              \cup (IF Live(i) THEN {"blocked"} ELSE {})]_vars

(* A friendship comes only from the commit that accepts a request the       *)
(* receiver of which asked for it.                                          *)
ConsentGiven(f) ==
  \E i \in Ids : /\ Pending(i) /\ requests'[i].status = "accepted"
                 /\ f \in Both(requests[i].from, requests[i].to)
                 /\ \E p \in Procs : At(p, "commit") /\ Me(p) = requests[i].to

FriendshipByConsent == [][\A f \in friends' \ friends : ConsentGiven(f)]_vars

(* With one handler at a time a block ends the friendship and the pending   *)
(* requests of the pair, and none of either comes back before the unblock.  *)
BlockSeparates ==
  \A b \in blocks : Both(b[1], b[2]) \cap friends = {}

BlockClosesRequests ==
  \A i \in Ids : Pending(i) => Both(requests[i].from, requests[i].to) \cap blocks = {}

(* Every call is answered: no set of handlers waits for one another for     *)
(* ever.                                                                    *)
CallsAnswered == \A p \in Procs : pc[p] # "idle" ~> pc[p] = "idle"

(* "Creates a pending request" (docs/CODEBASE.md:176): a create that        *)
(* answers 201 has made its request.                                        *)
CreatedHasRow ==
  \A p \in Procs : op[p].kind = "create" /\ reply[p] = "ok"
                      => requests[Id(p)].status # "unborn"
=============================================================================
