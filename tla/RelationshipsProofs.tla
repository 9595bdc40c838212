------------------------- MODULE RelationshipsProofs --------------------------
(***************************************************************************)
(* Theorems of Relationships, for every set of users and handlers, every    *)
(* set of operations and every bound.  The argument has three layers, each  *)
(* an invariant that rests on the ones before: what a handler's statement   *)
(* says of its operation and of the requests (Typed), what it has locked    *)
(* and written (Locked), and how the transactions of one pair see each      *)
(* other's rows (Paired).                                                   *)
(***************************************************************************)
EXTENDS Relationships, TLAPS

Creating == {"areFriends", "pendingTo", "pendingFrom", "isBlocked", "insertRequest",
             "checkIndex"}

(* What a handler executes belongs to its operation, which two users (or    *)
(* one) called; a create has passed the check that they are two.            *)
InStatement ==
  \A p \in Procs :
    /\ pc[p] # "idle" => Me(p) \in Users /\ Peer(p) \in Users /\ Id(p) \in 1 .. called
    /\ pc[p] \in Creating => op[p].kind = "create"
    /\ pc[p] \in Creating \ {"areFriends"} => Me(p) # Peer(p)
    /\ pc[p] \in {"lockRequest", "insertFriends"} => op[p].kind = "accept"
    /\ pc[p] \in {"insertBlock", "deleteFriends", "deletingFriends", "updatingRequests"}
         => op[p].kind = "block"
    /\ pc[p] = "commit" => op[p].kind \in {"accept", "block"}
    /\ pc[p] = "deleteBlock" => op[p].kind = "unblock"

(* A request is between two users, and no request is older than its call.   *)
RequestsBetween ==
  \A i \in Ids :
    requests[i].status # "unborn" =>
      /\ requests[i].from \in Users /\ requests[i].to \in Users
      /\ requests[i].from # requests[i].to
      /\ i <= called

(* A create has a request of its own to make, which is not there yet.       *)
OwnNumber ==
  \A p \in Procs : pc[p] \in Creating =>
    /\ requests[Id(p)].status = "unborn"
    /\ \A q \in Procs : pc[q] \in Creating /\ Id(q) = Id(p) => q = p

(* What a transaction has locked is there.                                  *)
LocksThere == \A p \in Procs : \A i \in tx[p].rows : requests[i].status # "unborn"

Typed == TypeOK /\ InStatement /\ RequestsBetween /\ OwnNumber /\ LocksThere

-----------------------------------------------------------------------------
(* The steps of a handler by what they do, for the case analyses below.     *)

(* It answers and changes nothing: an error found, a lost transaction, or   *)
(* the INSERT that inserts nothing and is answered with 201.                *)
Ends(p) ==
  /\ \E r \in {"ok", "error"} :
       /\ Answer(p, r)
       /\ r = "ok" => /\ At(p, "insertRequest")
                      /\ \E i \in RequestsOf(Me(p), Peer(p)) : Pending(i)
  /\ UNCHANGED tables

(* A read of CreateRequest found nothing.                                   *)
Reads(p) ==
  /\ pc[p] \in Creating
  /\ At(p, "areFriends") => Me(p) # Peer(p)
  /\ \E stmt \in Creating \ {"areFriends"} :
       /\ Continue(p, stmt)
       /\ stmt = "pendingFrom" => At(p, "pendingTo") /\ ~PendingFrom(Me(p), Peer(p))
       /\ stmt = "isBlocked" => At(p, "pendingFrom") /\ ~PendingFrom(Peer(p), Me(p))
       /\ stmt = "insertRequest" => At(p, "isBlocked") /\ ~IsBlocked(Peer(p), Me(p))
       /\ stmt = "checkIndex" => At(p, "insertRequest")
  /\ UNCHANGED <<tables, tx, todo>>

Makes(p) ==
  /\ At(p, "checkIndex")
  /\ {i \in RequestsOf(Me(p), Peer(p)) : Pending(i)} = {}
  /\ requests' = [requests EXCEPT ![Id(p)] =
                    [from |-> Me(p), to |-> Peer(p), status |-> "pending"]]
  /\ Answer(p, "ok")
  /\ UNCHANGED <<friends, blocks>>

Locks(p) ==
  /\ At(p, "lockRequest") /\ Pending(Id(p)) /\ RowHolders(p, Id(p)) = {}
  /\ requests[Id(p)].to = Me(p)
  /\ tx' = [tx EXCEPT ![p].rows = {Id(p)}]
  /\ todo' = [todo EXCEPT ![p].pairs = Both(requests[Id(p)].from, Me(p))]
  /\ Continue(p, "insertFriends")
  /\ UNCHANGED tables

Settles(p) ==
  /\ pc[p] \in {"reject", "cancel"}
  /\ Pending(Id(p)) /\ RowHolders(p, Id(p)) = {}
  /\ \E status \in {"rejected", "deleted"} :
       requests' = [requests EXCEPT ![Id(p)].status = status]
  /\ Answer(p, "ok")
  /\ UNCHANGED <<friends, blocks>>

Blocks(p) ==
  LET b == <<Me(p), Peer(p)>>
  IN  /\ At(p, "insertBlock")
      /\ tx' = IF b \in blocks THEN tx ELSE [tx EXCEPT ![p].blocked = {b}]
      /\ Continue(p, "deleteFriends")
      /\ UNCHANGED <<tables, todo>>

Moves(p) ==
  \/ Call(p) \/ Ends(p) \/ Reads(p) \/ Makes(p) \/ Locks(p) \/ Settles(p)
  \/ Blocks(p) \/ DeleteFriends(p) \/ UpdateRequests(p) \/ UpdatedRequests(p)
  \/ Commit(p) \/ DeleteBlock(p)
  \/ \E f \in Pairs : InsertFriend(p, f) \/ DeleteFriend(p, f)
  \/ \E i \in Ids : UpdateRequest(p, i)

LEMMA NextMoves == Next => \E p \in Procs : Moves(p)
  <1> SUFFICES ASSUME NEW p \in Procs, Call(p) \/ Step(p) \/ BreakDeadlock(p) \/ Abort(p)
               PROVE  Moves(p)
    BY DEF Next
  <1>1. CASE Call(p) \/ BreakDeadlock(p) \/ Abort(p)
    BY <1>1 DEF BreakDeadlock, Abort, Ends, Moves
  <1>2. CASE CheckFriends(p)
    BY <1>2 DEF CheckFriends, Check, Ends, Reads, Moves, At, Creating, tables
  <1>3. CASE CheckPendingTo(p)
    BY <1>3 DEF CheckPendingTo, Check, Ends, Reads, Moves, At, Creating, tables
  <1>4. CASE CheckPendingFrom(p)
    BY <1>4 DEF CheckPendingFrom, Check, Ends, Reads, Moves, At, Creating, tables
  <1>5. CASE CheckBlocked(p)
    BY <1>5 DEF CheckBlocked, Check, Ends, Reads, Moves, At, Creating, tables
  <1>6. CASE InsertRequest(p)
    BY <1>6 DEF InsertRequest, Ends, Reads, Moves, At, Creating, tables
  <1>7. CASE CheckIndex(p)
    BY <1>7 DEF CheckIndex, Ends, Makes, Moves, tables
  <1>8. CASE LockRequest(p)
    BY <1>8 DEF LockRequest, Ends, Locks, Moves, tables
  <1>9. CASE RejectRequest(p) \/ CancelRequest(p)
    BY <1>9 DEF RejectRequest, CancelRequest, Settle, Settles, Ends, Moves, At, tables
  <1>10. CASE InsertBlock(p)
    BY <1>10 DEF InsertBlock, Blocks, Ends, Moves, tables
  <1>11. CASE \/ \E f \in Pairs : InsertFriend(p, f)
              \/ DeleteFriends(p) \/ \E f \in Pairs : DeleteFriend(p, f)
              \/ UpdateRequests(p) \/ \E i \in Ids : UpdateRequest(p, i)
              \/ UpdatedRequests(p) \/ Commit(p) \/ DeleteBlock(p)
    BY <1>11 DEF Moves
  <1> QED
    BY <1>1, <1>2, <1>3, <1>4, <1>5, <1>6, <1>7, <1>8, <1>9, <1>10, <1>11 DEF Step

-----------------------------------------------------------------------------
(* The first layer is inductive.                                            *)

LEMMA InitTyped == Init => Typed
  BY RelationshipsAssumption
     DEF Init, Typed, TypeOK, InStatement, RequestsBetween, OwnNumber, LocksThere, Creating, Ids, Calls,
         Somebody, Statements, Status, NoTx, Nothing, NoOp, NoRequest

(* A step that writes pc[p] only, to a statement of the same operation or   *)
(* to "idle", and leaves the requests alone keeps what is said of both.     *)
LEMMA TypedSteps ==
  ASSUME Typed, NEW p \in Procs, NEW stmt \in Statements,
         pc' = [pc EXCEPT ![p] = stmt], UNCHANGED <<requests, op, called>>,
         \/ stmt = "idle"
         \/ pc[p] \in Creating /\ stmt \in Creating \ {"areFriends"} /\ Me(p) # Peer(p)
         \/ op[p].kind = "accept" /\ pc[p] # "idle" /\ stmt \in {"insertFriends", "commit"}
         \/ /\ op[p].kind = "block" /\ pc[p] # "idle"
            /\ stmt \in {"deleteFriends", "deletingFriends", "updatingRequests", "commit"}
  PROVE  pc' \in [Procs -> Statements] /\ InStatement' /\ RequestsBetween' /\ OwnNumber'
  BY DEF Typed, TypeOK, InStatement, RequestsBetween, OwnNumber, Creating, Me, Peer, Id

RequestTypes == [Ids -> [from : Somebody, to : Somebody, status : Status]]
TxTypes == [Procs -> [rows : SUBSET Ids, added : SUBSET Pairs,
                      removed : SUBSET Pairs, blocked : SUBSET Pairs]]
TodoTypes == [Procs -> [rows : SUBSET Ids, pairs : SUBSET Pairs]]

(* What a typed state says of a handler that runs.                          *)
LEMMA TypedHandler ==
  ASSUME Typed, NEW p \in Procs
  PROVE  /\ pc[p] # "idle" => /\ Me(p) \in Users /\ Peer(p) \in Users /\ Id(p) \in Ids
                              /\ <<Me(p), Peer(p)>> \in Pairs
         /\ \A i \in Ids : Live(i) \/ Pending(i) => /\ requests[i].from \in Users
                                                    /\ requests[i].to \in Users
                                                    /\ requests[i].from # requests[i].to
         /\ Pending(Id(p)) /\ pc[p] # "idle"
              => Both(requests[Id(p)].from, requests[Id(p)].to) \subseteq Pairs
         /\ pc[p] # "idle" => Both(Me(p), Peer(p)) \subseteq Pairs
         /\ tx[p] \in [rows : SUBSET Ids, added : SUBSET Pairs,
                       removed : SUBSET Pairs, blocked : SUBSET Pairs]
         /\ todo[p] \in [rows : SUBSET Ids, pairs : SUBSET Pairs]
         /\ tx \in TxTypes /\ todo \in TodoTypes /\ requests \in RequestTypes
  <1>1. pc[p] # "idle" => Me(p) \in Users /\ Peer(p) \in Users /\ Id(p) \in Ids
    BY RelationshipsAssumption DEF Typed, TypeOK, InStatement, Ids
  <1>2. \A a, b \in Users : <<a, b>> \in Pairs /\ Both(a, b) \subseteq Pairs
    BY DEF Pairs, Both
  <1>3. \A i \in Ids : Live(i) \/ Pending(i) => /\ requests[i].from \in Users
                                              /\ requests[i].to \in Users
                                              /\ requests[i].from # requests[i].to
    BY DEF Typed, RequestsBetween, Live, Pending
  <1> QED
    BY <1>1, <1>2, <1>3 DEF Typed, TypeOK, TxTypes, TodoTypes, RequestTypes

(* The EXCEPTs of the handlers, component by component.                     *)
LEMMA TxTyped ==
  ASSUME tx \in TxTypes, NEW p \in Procs
  PROVE  /\ \A R \in SUBSET Ids : [tx EXCEPT ![p].rows = R] \in TxTypes
         /\ \A F \in SUBSET Pairs : /\ [tx EXCEPT ![p].added = F] \in TxTypes
                                    /\ [tx EXCEPT ![p].removed = F] \in TxTypes
                                    /\ [tx EXCEPT ![p].blocked = F] \in TxTypes
  BY DEF TxTypes

LEMMA TodoTyped ==
  ASSUME todo \in TodoTypes, NEW p \in Procs
  PROVE  /\ \A R \in SUBSET Ids : [todo EXCEPT ![p].rows = R] \in TodoTypes
         /\ \A F \in SUBSET Pairs : [todo EXCEPT ![p].pairs = F] \in TodoTypes
  BY DEF TodoTypes

LEMMA StatusTyped ==
  ASSUME requests \in RequestTypes, NEW i \in Ids, NEW status \in Status
  PROVE  /\ [requests EXCEPT ![i].status = status] \in RequestTypes
         /\ \A j \in Ids : [requests EXCEPT ![i].status = status][j] =
                [requests[j] EXCEPT !.status = IF j = i THEN status ELSE @]
  BY DEF RequestTypes

LEMMA StepTyped == ASSUME Typed, NEW p \in Procs, Moves(p) PROVE Typed'
  <1> USE DEF Typed
  <1>1. CASE Call(p)
    <2>1. PICK kind \in Kinds, by \in Users :
            /\ \/ /\ kind \in {"create", "block", "unblock"}
                  /\ \E to \in Users :
                       op' = [op EXCEPT ![p] = [kind |-> kind, by |-> by, to |-> to,
                                                id |-> called + 1]]
               \/ /\ kind \in {"accept", "reject", "cancel"}
                  /\ \E i \in {j \in Ids : requests[j].status # "unborn"} :
                       op' = [op EXCEPT ![p] = [kind |-> kind, by |-> by, to |-> by, id |-> i]]
            /\ GoTo(p, FirstStatement(kind))
      BY <1>1 DEF Call
    <2>2. PICK to \in Users, id \in Ids :
            /\ op' = [op EXCEPT ![p] = [kind |-> kind, by |-> by, to |-> to, id |-> id]]
            /\ id <= called + 1
            /\ kind = "create" => id = called + 1
      BY <1>1, <2>1, RelationshipsAssumption DEF Call, TypeOK, Ids, RequestsBetween
    <2>3. /\ pc[p] = "idle" /\ called \in 0 .. MaxOps - 1 /\ called' = called + 1
          /\ called' \in 0 .. MaxOps
          /\ reply' = [reply EXCEPT ![p] = "none"]
          /\ UNCHANGED <<tables, tx, todo>>
      BY <1>1, RelationshipsAssumption DEF Call, At, TypeOK
    <2>4. /\ pc' = [pc EXCEPT ![p] = FirstStatement(kind)]
          /\ FirstStatement(kind)
               \in {"areFriends", "lockRequest", "reject", "cancel", "insertBlock", "deleteBlock"}
          /\ FirstStatement(kind) = "areFriends" => kind = "create"
          /\ FirstStatement(kind) = "lockRequest" => kind = "accept"
          /\ FirstStatement(kind) = "insertBlock" => kind = "block"
          /\ FirstStatement(kind) = "deleteBlock" => kind = "unblock"
      BY <2>1 DEF GoTo, FirstStatement
    <2>5. TypeOK'
      BY <2>2, <2>3, <2>4 DEF TypeOK, tables, Calls, Somebody, Statements
    <2>6. InStatement'
      BY <2>2, <2>3, <2>4 DEF TypeOK, InStatement, Creating, Me, Peer, Id, Ids
    <2>7. RequestsBetween'
      BY <2>3, RelationshipsAssumption DEF RequestsBetween, tables, Ids
    <2>8. OwnNumber'
      BY <2>2, <2>3, <2>4 DEF TypeOK, InStatement, RequestsBetween, OwnNumber, Creating, Id, tables, Ids
    <2>9. LocksThere'
      BY <2>3 DEF LocksThere, tables
    <2> QED
      BY <2>5, <2>6, <2>7, <2>8, <2>9
  <1>2. CASE Ends(p)
    <2>1. PICK r \in {"ok", "error"} : Answer(p, r)
      BY <1>2 DEF Ends
    <2>2. TypeOK'
      BY <1>2, <2>1 DEF Ends, TypeOK, Answer, GoTo, tables, NoTx, Nothing, Statements
    <2>3. LocksThere'
      BY <1>2, <2>1 DEF Ends, Answer, tables, LocksThere, TypeOK, NoTx
    <2> QED
      BY <1>2, <2>1, <2>2, <2>3, TypedSteps DEF Ends, Answer, GoTo, tables, Statements
  <1>3. CASE Reads(p)
    <2>1. PICK stmt \in Creating \ {"areFriends"} : Continue(p, stmt)
      BY <1>3 DEF Reads
    <2>2. pc[p] \in Creating /\ Me(p) # Peer(p)
      BY <1>3 DEF Reads, At, InStatement
    <2>3. pc' \in [Procs -> Statements] /\ InStatement' /\ RequestsBetween' /\ OwnNumber'
      BY <1>3, <2>1, <2>2, TypedSteps DEF Reads, Continue, GoTo, tables, Statements, Creating
    <2> QED
      BY <1>3, <2>1, <2>3 DEF Reads, Continue, tables, TypeOK, LocksThere
  <1>4. CASE Makes(p)
    <2>1. /\ pc[p] = "checkIndex" /\ pc[p] \in Creating \ {"areFriends"}
          /\ Me(p) # Peer(p) /\ Id(p) \in Ids /\ Id(p) <= called
          /\ Me(p) \in Users /\ Peer(p) \in Users
      <3>1. pc[p] = "checkIndex" /\ pc[p] \in Creating \ {"areFriends"} /\ pc[p] # "idle"
        BY <1>4 DEF Makes, At, Creating
      <3>2. Me(p) # Peer(p) /\ Id(p) \in 1 .. called
        BY <3>1 DEF InStatement
      <3>3. Id(p) <= called
        BY <3>2, RelationshipsAssumption DEF TypeOK
      <3> QED
        BY <3>1, <3>2, <3>3, TypedHandler
    <2>2. /\ pc' = [pc EXCEPT ![p] = "idle"]
          /\ requests' = [requests EXCEPT ![Id(p)] =
                            [from |-> Me(p), to |-> Peer(p), status |-> "pending"]]
          /\ UNCHANGED <<op, called, friends, blocks>>
      BY <1>4 DEF Makes, Answer, GoTo
    <2>3. TypeOK'
      BY <1>4, <2>1, <2>2
         DEF Makes, TypeOK, Answer, NoTx, Nothing, Statements, Status, Somebody
    <2>4. InStatement'
      BY <2>2 DEF TypeOK, InStatement, Creating, Me, Peer, Id
    <2>5. RequestsBetween'
      BY <2>1, <2>2 DEF TypeOK, RequestsBetween
    <2>6. OwnNumber'
      BY <2>1, <2>2 DEF TypeOK, InStatement, OwnNumber, Creating, Id, Ids
    <2>7. LocksThere'
      BY <1>4, <2>1, <2>2 DEF Makes, Answer, TypeOK, LocksThere, NoTx
    <2> QED
      BY <2>3, <2>4, <2>5, <2>6, <2>7
  <1>5. CASE Locks(p)
    <2>1. /\ pc[p] # "idle" /\ op[p].kind = "accept"
          /\ pc' = [pc EXCEPT ![p] = "insertFriends"]
          /\ UNCHANGED <<tables, op, called, reply>>
      BY <1>5 DEF Locks, At, Continue, GoTo, InStatement
    <2>2. pc' \in [Procs -> Statements] /\ InStatement' /\ RequestsBetween' /\ OwnNumber'
      BY <2>1, TypedSteps DEF tables, Statements
    <2>3. tx' \in TxTypes /\ todo' \in TodoTypes
      <3>1. Id(p) \in Ids /\ Both(requests[Id(p)].from, Me(p)) \subseteq Pairs
        BY <1>5, <2>1, TypedHandler DEF Locks
      <3> QED
        BY <1>5, <3>1, TypedHandler, TxTyped, TodoTyped DEF Locks
    <2>4. LocksThere'
      BY <1>5, <2>1 DEF Locks, Pending, TypeOK, LocksThere, tables
    <2> QED
      BY <2>1, <2>2, <2>3, <2>4 DEF tables, TypeOK, TxTypes, TodoTypes
  <1>6. CASE Settles(p)
    <2>1. PICK status \in {"rejected", "deleted"} :
            requests' = [requests EXCEPT ![Id(p)].status = status]
      BY <1>6 DEF Settles
    <2>2. /\ pc[p] \in {"reject", "cancel"} /\ pc[p] # "idle" /\ Pending(Id(p))
          /\ pc' = [pc EXCEPT ![p] = "idle"]
          /\ UNCHANGED <<op, called, friends, blocks>>
      BY <1>6 DEF Settles, Answer, GoTo
    <2>3. /\ Id(p) \in Ids /\ requests[Id(p)].status = "pending"
          /\ \A i \in Ids : /\ requests'[i].from = requests[i].from
                            /\ requests'[i].to = requests[i].to
                            /\ requests'[i].status = "unborn" <=> requests[i].status = "unborn"
      BY ZenonT(40), <2>1, <2>2, TypedHandler DEF TypeOK, Pending
    <2>4. requests' \in RequestTypes
      BY <2>1, <2>3, TypedHandler, StatusTyped DEF Status
    <2>5. TypeOK'
      BY <1>6, <2>2, <2>4 DEF Settles, TypeOK, RequestTypes, Answer, NoTx, Nothing, Statements
    <2>6. InStatement'
      BY <2>2 DEF TypeOK, InStatement, Creating, Me, Peer, Id
    <2>7. RequestsBetween'
      BY <2>2, <2>3 DEF RequestsBetween
    <2>8. OwnNumber'
      BY <2>2, <2>3, RelationshipsAssumption DEF TypeOK, InStatement, OwnNumber, Creating, Id, Ids
    <2>9. LocksThere'
      BY <1>6, <2>3 DEF Settles, Answer, TypeOK, LocksThere, NoTx
    <2> QED
      BY <2>5, <2>6, <2>7, <2>8, <2>9
  <1>7. CASE Blocks(p)
    <2>1. /\ pc[p] # "idle" /\ op[p].kind = "block"
          /\ pc' = [pc EXCEPT ![p] = "deleteFriends"]
          /\ UNCHANGED <<tables, op, called, reply, todo>>
      BY <1>7 DEF Blocks, At, Continue, GoTo, InStatement
    <2>2. pc' \in [Procs -> Statements] /\ InStatement' /\ RequestsBetween' /\ OwnNumber'
      BY <2>1, TypedSteps DEF tables, Statements
    <2>3. tx' \in TxTypes
      <3>1. {<<Me(p), Peer(p)>>} \in SUBSET Pairs
        BY <2>1, TypedHandler
      <3> QED
        BY <1>7, <3>1, TypedHandler, TxTyped DEF Blocks
    <2>4. LocksThere'
      BY <1>7, <2>1 DEF Blocks, TypeOK, LocksThere, tables
    <2> QED
      BY <2>1, <2>2, <2>3, <2>4 DEF tables, TypeOK, TxTypes
  <1>8. CASE DeleteFriends(p)
    <2>1. /\ pc[p] # "idle" /\ op[p].kind = "block"
          /\ pc' = [pc EXCEPT ![p] = "deletingFriends"]
          /\ UNCHANGED <<tables, op, called, reply, tx>>
      BY <1>8 DEF DeleteFriends, At, Continue, GoTo, InStatement
    <2>2. pc' \in [Procs -> Statements] /\ InStatement' /\ RequestsBetween' /\ OwnNumber'
      BY <2>1, TypedSteps DEF tables, Statements
    <2>3. todo' \in TodoTypes
      <3>1. Both(Me(p), Peer(p)) \cap friends \in SUBSET Pairs
        BY DEF TypeOK
      <3> QED
        BY <1>8, <3>1, TypedHandler, TodoTyped DEF DeleteFriends
    <2> QED
      BY <2>1, <2>2, <2>3 DEF tables, TypeOK, TodoTypes, LocksThere
  <1>9. CASE UpdateRequests(p)
    <2>1. /\ pc[p] # "idle" /\ op[p].kind = "block"
          /\ pc' = [pc EXCEPT ![p] = "updatingRequests"]
          /\ UNCHANGED <<tables, op, called, reply, tx>>
      BY <1>9 DEF UpdateRequests, At, Continue, GoTo, InStatement
    <2>2. pc' \in [Procs -> Statements] /\ InStatement' /\ RequestsBetween' /\ OwnNumber'
      BY <2>1, TypedSteps DEF tables, Statements
    <2>3. todo' \in TodoTypes
      <3>1. RequestsOf(Me(p), Peer(p)) \in SUBSET Ids
        BY DEF RequestsOf
      <3> QED
        BY <1>9, <3>1, TypedHandler, TodoTyped DEF UpdateRequests
    <2> QED
      BY <2>1, <2>2, <2>3 DEF tables, TypeOK, TodoTypes, LocksThere
  <1>10. CASE UpdatedRequests(p)
    <2>1. /\ pc[p] # "idle" /\ op[p].kind = "block"
          /\ pc' = [pc EXCEPT ![p] = "commit"]
          /\ UNCHANGED <<tables, op, called, reply, tx, todo>>
      BY <1>10 DEF UpdatedRequests, At, Continue, GoTo, InStatement
    <2>2. pc' \in [Procs -> Statements] /\ InStatement' /\ RequestsBetween' /\ OwnNumber'
      BY <2>1, TypedSteps DEF tables, Statements
    <2> QED
      BY <2>1, <2>2 DEF tables, TypeOK, LocksThere
  <1>11. CASE Commit(p)
    <2>1. /\ pc[p] # "idle" /\ pc' = [pc EXCEPT ![p] = "idle"]
          /\ UNCHANGED <<op, called>>
      BY <1>11 DEF Commit, AnswerCommitted, At, GoTo
    <2>2. tx[p] \in [rows : SUBSET Ids, added : SUBSET Pairs,
                     removed : SUBSET Pairs, blocked : SUBSET Pairs]
      BY TypedHandler
    <2>3. /\ requests' \in RequestTypes
          /\ \A i \in Ids : /\ requests'[i].from = requests[i].from
                            /\ requests'[i].to = requests[i].to
                            /\ requests'[i].status = "unborn" <=> requests[i].status = "unborn"
      <3> DEFINE status == IF op[p].kind = "accept" THEN "accepted" ELSE "blocked"
      <3>1. status \in Status \ {"unborn"}
        BY DEF Status
      <3>2. requests' = [i \in Ids |-> IF i \in tx[p].rows
                                     THEN [requests[i] EXCEPT !.status = status]
                                     ELSE requests[i]]
        BY <1>11 DEF Commit
      <3> HIDE DEF status
      <3>3. \A i \in tx[p].rows : requests[i].status # "unborn"
        BY DEF LocksThere
      <3>4. \A i \in Ids : requests[i] \in [from : Somebody, to : Somebody, status : Status]
        BY DEF TypeOK
      <3> QED
        BY <3>1, <3>2, <3>3, <3>4 DEF RequestTypes
    <2>4. /\ friends' \subseteq Pairs /\ blocks' \subseteq Pairs
          /\ tx' = [tx EXCEPT ![p] = NoTx] /\ reply' = [reply EXCEPT ![p] = "ok"]
      BY <1>11, <2>2 DEF Commit, AnswerCommitted, TypeOK
    <2>5. todo' \in TodoTypes
      BY SMTT(30), <1>11 DEF Commit, AnswerCommitted, TypeOK, TodoTypes, Nothing
    <2>6. TypeOK'
      BY <2>1, <2>3, <2>4, <2>5 DEF TypeOK, RequestTypes, TodoTypes, NoTx, Statements
    <2>7. InStatement'
      BY <2>1 DEF TypeOK, InStatement, Creating, Me, Peer, Id
    <2>8. RequestsBetween'
      BY <2>1, <2>3 DEF RequestsBetween
    <2>9. OwnNumber'
      BY <2>1, <2>3, RelationshipsAssumption DEF TypeOK, InStatement, OwnNumber, Creating, Id, Ids
    <2>10. LocksThere'
      BY <2>3, <2>4 DEF TypeOK, LocksThere, NoTx
    <2> QED
      BY <2>6, <2>7, <2>8, <2>9, <2>10
  <1>12. CASE DeleteBlock(p)
    <2>1. /\ pc' = [pc EXCEPT ![p] = "idle"]
          /\ UNCHANGED <<op, called, friends, requests>>
          /\ blocks' \subseteq Pairs
          /\ tx' = [tx EXCEPT ![p] = NoTx] /\ todo' = [todo EXCEPT ![p] = Nothing]
          /\ \E r \in {"ok", "error"} : reply' = [reply EXCEPT ![p] = r]
      BY <1>12 DEF DeleteBlock, Answer, GoTo, TypeOK
    <2>2. pc' \in [Procs -> Statements] /\ InStatement' /\ RequestsBetween' /\ OwnNumber'
      BY <2>1, TypedSteps DEF Statements
    <2>3. TypeOK' /\ LocksThere'
      BY <2>1, <2>2 DEF TypeOK, LocksThere, NoTx, Nothing
    <2> QED
      BY <2>2, <2>3
  <1>13. ASSUME NEW f \in Pairs, InsertFriend(p, f) PROVE Typed'
    <2>1. PICK stmt \in {"insertFriends", "commit"} :
            /\ pc[p] # "idle" /\ op[p].kind = "accept"
            /\ pc' = [pc EXCEPT ![p] = stmt]
            /\ UNCHANGED <<tables, op, called, reply>>
      BY <1>13 DEF InsertFriend, At, Continue, GoTo, InStatement
    <2>2. pc' \in [Procs -> Statements] /\ InStatement' /\ RequestsBetween' /\ OwnNumber'
      BY <2>1, TypedSteps DEF tables, Statements
    <2>3. tx' \in TxTypes /\ todo' \in TodoTypes
      <3>1. tx[p].added \cup {f} \in SUBSET Pairs /\ todo[p].pairs \ {f} \in SUBSET Pairs
        BY TypedHandler
      <3> QED
        BY <1>13, <3>1, TypedHandler, TxTyped, TodoTyped DEF InsertFriend
    <2>4. LocksThere'
      BY <1>13, <2>1 DEF InsertFriend, TypeOK, LocksThere, tables
    <2> QED
      BY <2>1, <2>2, <2>3, <2>4 DEF tables, TypeOK, TxTypes, TodoTypes
  <1>14. ASSUME NEW f \in Pairs, DeleteFriend(p, f) PROVE Typed'
    <2>1. UNCHANGED <<tables, pc, op, called, reply>>
      BY <1>14 DEF DeleteFriend
    <2>2. tx' \in TxTypes /\ todo' \in TodoTypes
      <3>1. tx[p].removed \cup {f} \in SUBSET Pairs /\ todo[p].pairs \ {f} \in SUBSET Pairs
        BY TypedHandler
      <3> QED
        BY <1>14, <3>1, TypedHandler, TxTyped, TodoTyped DEF DeleteFriend
    <2>3. LocksThere'
      BY <1>14, <2>1 DEF DeleteFriend, TypeOK, LocksThere, tables
    <2> QED
      BY <2>1, <2>2, <2>3
         DEF tables, TypeOK, TxTypes, TodoTypes, InStatement, RequestsBetween, OwnNumber, Me, Peer, Id
  <1>15. ASSUME NEW i \in Ids, UpdateRequest(p, i) PROVE Typed'
    <2>1. UNCHANGED <<tables, pc, op, called, reply>>
      BY <1>15 DEF UpdateRequest
    <2>2. tx' \in TxTypes /\ todo' \in TodoTypes
      <3>1. tx[p].rows \cup {i} \in SUBSET Ids /\ todo[p].rows \ {i} \in SUBSET Ids
        BY TypedHandler
      <3> QED
        BY <1>15, <3>1, TypedHandler, TxTyped, TodoTyped DEF UpdateRequest
    <2>3. LocksThere'
      BY <1>15, <2>1 DEF UpdateRequest, Live, TypeOK, LocksThere, tables
    <2> QED
      BY <2>1, <2>2, <2>3
         DEF tables, TypeOK, TxTypes, TodoTypes, InStatement, RequestsBetween, OwnNumber, Me, Peer, Id
  <1> QED
    BY <1>1, <1>2, <1>3, <1>4, <1>5, <1>6, <1>7, <1>8, <1>9, <1>10, <1>11, <1>12,
       <1>13, <1>14, <1>15 DEF Moves

-----------------------------------------------------------------------------
(* Second layer: what a transaction has locked and written.                 *)

Accepting(p) == op[p].kind = "accept" /\ pc[p] \in {"insertFriends", "commit"}
Blocking(p) ==
  op[p].kind = "block"
    /\ pc[p] \in {"deleteFriends", "deletingFriends", "updatingRequests", "commit"}

(* The DELETE of a block is over.                                           *)
Deleted(p) == op[p].kind = "block" /\ pc[p] \in {"updatingRequests", "commit"}

(* The friendship between the two users of the request p accepts.           *)
Friendship(p) == Both(requests[Id(p)].from, requests[Id(p)].to)

(* A handler outside of a transaction holds nothing.                        *)
HoldsNothing(p) == ~Accepting(p) /\ ~Blocking(p) => tx[p] = NoTx /\ todo[p] = Nothing

(* An acceptance holds its request, which stays pending and its own, and    *)
(* writes nothing but the rows of that friendship.                          *)
AcceptHolds(p) ==
  Accepting(p) =>
    /\ tx[p].rows = {Id(p)} /\ tx[p].removed = {} /\ tx[p].blocked = {} /\ todo[p].rows = {}
    /\ Pending(Id(p)) /\ requests[Id(p)].to = Me(p)
    /\ tx[p].added \cup todo[p].pairs \subseteq Friendship(p)

(* A block works on the rows of its pair, statement by statement.           *)
BlockHolds(p) ==
  Blocking(p) =>
    /\ tx[p].added = {}
    /\ tx[p].removed \cup todo[p].pairs \subseteq Both(Me(p), Peer(p))
    /\ At(p, "deleteFriends") => tx[p].removed = {} /\ todo[p].pairs = {}
    /\ Deleted(p) => todo[p].pairs = {}

(* At COMMIT the statements are through.                                    *)
CommitsDone(p) ==
  At(p, "commit") => (Accepting(p) \/ Blocking(p)) /\ todo[p].pairs = {} /\ todo[p].rows = {}

Holds(p) == HoldsNothing(p) /\ AcceptHolds(p) /\ BlockHolds(p) /\ CommitsDone(p)

(* Row locks are exclusive, and a row that is locked is there.              *)
LocksExclude ==
  \A p \in Procs :
    /\ \A i \in tx[p].rows : Live(i)
    /\ \A q \in Procs \ {p} :
         /\ tx[p].rows \cap tx[q].rows = {}
         /\ (tx[p].added \cup tx[p].removed) \cap (tx[q].added \cup tx[q].removed) = {}

Locked == (\A p \in Procs : Holds(p)) /\ LocksExclude

(* What a step of p leaves to the other handlers.                           *)
LeavesOthers(p) ==
  \A q \in Procs \ {p} :
    /\ pc'[q] = pc[q] /\ op'[q] = op[q] /\ tx'[q] = tx[q]
    /\ \/ todo'[q] = todo[q]
       \/ /\ At(p, "commit") /\ At(q, "deletingFriends") /\ todo'[q].rows = todo[q].rows
          /\ todo'[q].pairs = todo[q].pairs \ tx[p].removed

LEMMA OthersLeft == ASSUME Typed, NEW p \in Procs, Moves(p) PROVE LeavesOthers(p)
  <1> USE DEF Typed, TypeOK, LeavesOthers
  <1>1. CASE Call(p)
    BY <1>1 DEF Call, GoTo
  <1>2. CASE Ends(p) \/ Makes(p) \/ Settles(p) \/ DeleteBlock(p)
    BY <1>2 DEF Ends, Makes, Settles, DeleteBlock, Answer, GoTo
  <1>3. CASE Reads(p) \/ Locks(p) \/ Blocks(p)
    BY <1>3 DEF Reads, Locks, Blocks, Continue, GoTo
  <1>4. CASE DeleteFriends(p) \/ UpdateRequests(p) \/ UpdatedRequests(p)
    BY <1>4 DEF DeleteFriends, UpdateRequests, UpdatedRequests, Continue, GoTo
  <1>5. CASE Commit(p)
    BY <1>5 DEF Commit, AnswerCommitted, GoTo
  <1>6. ASSUME NEW f \in Pairs, InsertFriend(p, f) \/ DeleteFriend(p, f) PROVE LeavesOthers(p)
    BY <1>6 DEF InsertFriend, DeleteFriend, Continue, GoTo
  <1>7. ASSUME NEW i \in Ids, UpdateRequest(p, i) PROVE LeavesOthers(p)
    BY <1>7 DEF UpdateRequest
  <1> QED
    BY <1>1, <1>2, <1>3, <1>4, <1>5, <1>6, <1>7 DEF Moves

(* A step of p changes no request that another handler has locked, and      *)
(* makes no request disappear that one has.                                 *)
LEMMA LockedRequestsKept ==
  ASSUME Typed, Locked, NEW p \in Procs, Moves(p), NEW q \in Procs \ {p}, NEW i \in tx[q].rows
  PROVE  requests'[i] = requests[i]
  <1>1. i \in Ids /\ Live(i) /\ i \notin tx[p].rows /\ tx[q] # NoTx
    BY DEF Locked, LocksExclude, Typed, TypeOK, NoTx
  <1>2. CASE Makes(p)
    <2>1. Id(p) # i
      BY <1>1, <1>2 DEF Makes, At, Creating, Typed, OwnNumber, Live
    <2> QED
      BY <1>1, <1>2, <2>1 DEF Makes, Typed, TypeOK
  <1>3. CASE Settles(p)
    <2>1. Id(p) # i
      BY <1>3 DEF Settles, RowHolders, Others
    <2> QED
      BY <1>1, <1>3, <2>1 DEF Settles, Typed, TypeOK
  <1>4. CASE Commit(p)
    BY <1>1, <1>4 DEF Commit
  <1>5. CASE UNCHANGED requests
    BY <1>5
  <1> QED
    BY <1>2, <1>3, <1>4, <1>5
       DEF Moves, Call, Ends, Reads, Locks, Blocks, DeleteFriends, UpdateRequests,
           UpdatedRequests, DeleteBlock, InsertFriend, DeleteFriend, UpdateRequest, tables

LEMMA OthersHold ==
  ASSUME Typed, Locked, NEW p \in Procs, Moves(p), NEW q \in Procs \ {p}
  PROVE  Holds(q)'
  <1>1. /\ pc'[q] = pc[q] /\ op'[q] = op[q] /\ tx'[q] = tx[q]
        /\ \/ todo'[q] = todo[q]
           \/ /\ pc[q] = "deletingFriends" /\ todo'[q].rows = todo[q].rows
              /\ todo'[q].pairs \subseteq todo[q].pairs
    BY OthersLeft DEF LeavesOthers, At
  <1>2. /\ Accepting(q)' = Accepting(q) /\ Blocking(q)' = Blocking(q) /\ Deleted(q)' = Deleted(q)
        /\ Id(q)' = Id(q) /\ Me(q)' = Me(q) /\ Peer(q)' = Peer(q)
        /\ \A stmt : At(q, stmt)' = At(q, stmt)
    BY <1>1 DEF Accepting, Blocking, Deleted, Id, Me, Peer, At
  <1>3. Holds(q)
    BY DEF Locked
  <1>4. HoldsNothing(q)'
    BY <1>1, <1>2, <1>3 DEF Holds, HoldsNothing, Blocking, Typed, InStatement
  <1>5. AcceptHolds(q)'
    <2>1. Accepting(q) => requests'[Id(q)] = requests[Id(q)]
      BY <1>3, LockedRequestsKept DEF Holds, AcceptHolds
    <2>2. Accepting(q) => todo'[q] = todo[q]
      BY <1>1 DEF Accepting
    <2> QED
      BY <1>1, <1>2, <1>3, <2>1, <2>2 DEF Holds, AcceptHolds, Friendship, Pending
  <1>6. BlockHolds(q)'
    BY <1>1, <1>2, <1>3 DEF Holds, BlockHolds, Deleted, At
  <1>7. CommitsDone(q)'
    BY <1>1, <1>2, <1>3 DEF Holds, CommitsDone, At
  <1> QED
    BY <1>4, <1>5, <1>6, <1>7 DEF Holds

(* A handler that has answered holds nothing.                               *)
LEMMA AnsweredHolds ==
  ASSUME NEW p, pc'[p] = "idle", tx'[p] = NoTx, todo'[p] = Nothing PROVE Holds(p)'
  BY DEF Holds, HoldsNothing, AcceptHolds, BlockHolds, CommitsDone, Accepting, Blocking,
         Deleted, At

LEMMA SelfHolds ==
  ASSUME Typed, Locked, NEW p \in Procs, Moves(p)
  PROVE  Holds(p)'
  <1>1. /\ Holds(p) /\ pc \in [Procs -> Statements] /\ tx \in TxTypes /\ todo \in TodoTypes
        /\ op \in [Procs -> Calls] /\ requests \in RequestTypes
        /\ tx[p] \in [rows : SUBSET Ids, added : SUBSET Pairs,
                      removed : SUBSET Pairs, blocked : SUBSET Pairs]
        /\ todo[p] \in [rows : SUBSET Ids, pairs : SUBSET Pairs]
    BY TypedHandler DEF Locked, Typed, TypeOK
  <1> USE <1>1 DEF Holds, TxTypes, TodoTypes
  <1>2. CASE Ends(p) \/ Makes(p) \/ Settles(p) \/ Commit(p) \/ DeleteBlock(p)
    BY <1>2, AnsweredHolds
       DEF Ends, Makes, Settles, Commit, DeleteBlock, Answer, AnswerCommitted, GoTo
  <1>3. CASE Call(p)
    <2>1. /\ pc[p] = "idle" /\ UNCHANGED <<tx, todo>>
          /\ pc'[p] \in {"areFriends", "lockRequest", "reject", "cancel", "insertBlock", "deleteBlock"}
      BY <1>3 DEF Call, At, GoTo, FirstStatement
    <2> QED
      BY <2>1 DEF HoldsNothing, AcceptHolds, BlockHolds, CommitsDone, Accepting, Blocking, Deleted, At
  <1>4. CASE Reads(p)
    <2>1. pc[p] \in Creating /\ pc'[p] \in Creating /\ UNCHANGED <<tx, todo>>
      BY <1>4 DEF Reads, Continue, GoTo
    <2> QED
      BY <2>1 DEF HoldsNothing, AcceptHolds, BlockHolds, CommitsDone, Accepting, Blocking,
                  Deleted, At, Creating
  <1>5. CASE Locks(p)
    <2>1. /\ pc[p] = "lockRequest" /\ pc'[p] = "insertFriends" /\ UNCHANGED <<op, requests>>
          /\ op[p].kind = "accept" /\ Pending(Id(p)) /\ requests[Id(p)].to = Me(p)
      BY <1>5 DEF Locks, Continue, GoTo, At, tables, Typed, InStatement
    <2>2. tx[p] = NoTx /\ todo[p] = Nothing
      BY <2>1 DEF HoldsNothing, Accepting, Blocking
    <2>3. /\ tx'[p] = [NoTx EXCEPT !.rows = {Id(p)}]
          /\ todo'[p] = [Nothing EXCEPT !.pairs = Both(requests[Id(p)].from, Me(p))]
      BY <1>5, <2>2 DEF Locks
    <2> QED
      BY <2>1, <2>3 DEF HoldsNothing, AcceptHolds, BlockHolds, CommitsDone, Accepting, Blocking,
                        Deleted, At, NoTx, Nothing, Friendship, Pending, Id, Me
  <1>6. CASE Blocks(p)
    <2>1. /\ pc[p] = "insertBlock" /\ pc'[p] = "deleteFriends" /\ UNCHANGED <<op, todo>>
          /\ op[p].kind = "block"
      BY <1>6 DEF Blocks, Continue, GoTo, At, Typed, InStatement
    <2>2. tx[p] = NoTx /\ todo[p] = Nothing
      BY <2>1 DEF HoldsNothing, Accepting, Blocking
    <2>3. tx'[p].added = {} /\ tx'[p].removed = {}
      BY <1>6, <2>2 DEF Blocks, NoTx
    <2> QED
      BY <2>1, <2>2, <2>3 DEF HoldsNothing, AcceptHolds, BlockHolds, CommitsDone, Accepting, Blocking,
                              Deleted, At, Nothing
  <1>7. CASE DeleteFriends(p)
    <2>1. /\ pc[p] = "deleteFriends" /\ pc'[p] = "deletingFriends" /\ UNCHANGED <<op, tx>>
          /\ op[p].kind = "block"
      BY <1>7 DEF DeleteFriends, Continue, GoTo, At, Typed, InStatement
    <2>2. tx[p].added = {} /\ tx[p].removed = {}
      BY <2>1 DEF BlockHolds, Blocking, At
    <2>3. todo'[p].pairs \subseteq Both(Me(p), Peer(p))
      BY <1>7 DEF DeleteFriends
    <2> QED
      BY <2>1, <2>2, <2>3 DEF HoldsNothing, AcceptHolds, BlockHolds, CommitsDone, Accepting, Blocking,
                              Deleted, At, Me, Peer
  <1>8. CASE UpdateRequests(p)
    <2>1. /\ pc[p] = "deletingFriends" /\ pc'[p] = "updatingRequests" /\ UNCHANGED <<op, tx>>
          /\ op[p].kind = "block" /\ todo[p].pairs = {} /\ todo'[p].pairs = {}
      BY <1>8 DEF UpdateRequests, Continue, GoTo, At, Typed, InStatement
    <2>2. tx[p].added = {} /\ tx[p].removed \subseteq Both(Me(p), Peer(p))
      BY <2>1 DEF BlockHolds, Blocking
    <2> QED
      BY <2>1, <2>2 DEF HoldsNothing, AcceptHolds, BlockHolds, CommitsDone, Accepting, Blocking,
                        Deleted, At, Me, Peer
  <1>9. CASE UpdatedRequests(p)
    <2>1. /\ pc[p] = "updatingRequests" /\ pc'[p] = "commit" /\ UNCHANGED <<op, tx, todo>>
          /\ op[p].kind = "block" /\ todo[p].rows = {}
      BY <1>9 DEF UpdatedRequests, Continue, GoTo, At, Typed, InStatement
    <2>2. /\ tx[p].added = {} /\ tx[p].removed \subseteq Both(Me(p), Peer(p))
          /\ todo[p].pairs = {}
      BY <2>1 DEF BlockHolds, Blocking, Deleted
    <2> QED
      BY <2>1, <2>2 DEF HoldsNothing, AcceptHolds, BlockHolds, CommitsDone, Accepting, Blocking,
                        Deleted, At, Me, Peer
  <1>10. ASSUME NEW f \in Pairs, InsertFriend(p, f) PROVE Holds(p)'
    <2>1. /\ pc[p] = "insertFriends" /\ UNCHANGED <<op, requests>> /\ op[p].kind = "accept"
          /\ f \in todo[p].pairs
          /\ todo'[p] = [todo[p] EXCEPT !.pairs = @ \ {f}]
          /\ \/ pc'[p] = "insertFriends"
             \/ pc'[p] = "commit" /\ todo[p].pairs = {f}
      BY <1>10 DEF InsertFriend, Continue, GoTo, At, Typed, InStatement, tables
    <2>2. tx'[p] = tx[p] \/ tx'[p] = [tx[p] EXCEPT !.added = @ \cup {f}]
      BY <1>10 DEF InsertFriend
    <2>3. AcceptHolds(p) /\ Accepting(p)
      BY <2>1 DEF Accepting
    <2> QED
      BY <2>1, <2>2, <2>3 DEF HoldsNothing, AcceptHolds, BlockHolds, CommitsDone, Accepting, Blocking,
                              Deleted, At, Friendship, Pending, Id, Me
  <1>11. ASSUME NEW f \in Pairs, DeleteFriend(p, f) PROVE Holds(p)'
    <2>1. /\ pc[p] = "deletingFriends" /\ UNCHANGED <<op, pc>> /\ op[p].kind = "block"
          /\ f \in todo[p].pairs
          /\ todo'[p] = [todo[p] EXCEPT !.pairs = @ \ {f}]
          /\ tx'[p] = [tx[p] EXCEPT !.removed = @ \cup {f}]
      BY <1>11 DEF DeleteFriend, At, Typed, InStatement
    <2> QED
      BY <2>1 DEF HoldsNothing, AcceptHolds, BlockHolds, CommitsDone, Accepting, Blocking,
                  Deleted, At, Me, Peer
  <1>12. ASSUME NEW i \in Ids, UpdateRequest(p, i) PROVE Holds(p)'
    <2>1. /\ pc[p] = "updatingRequests" /\ UNCHANGED <<op, pc>> /\ op[p].kind = "block"
          /\ todo'[p].pairs = todo[p].pairs
          /\ tx'[p].added = tx[p].added /\ tx'[p].removed = tx[p].removed
      BY <1>12 DEF UpdateRequest, At, Typed, InStatement
    <2> QED
      BY <2>1 DEF HoldsNothing, AcceptHolds, BlockHolds, CommitsDone, Accepting, Blocking,
                  Deleted, At, Me, Peer
  <1> QED
    BY <1>2, <1>3, <1>4, <1>5, <1>6, <1>7, <1>8, <1>9, <1>10, <1>11, <1>12 DEF Moves

LEMMA StepLocksExclude ==
  ASSUME Typed, Locked, NEW p \in Procs, Moves(p)
  PROVE  LocksExclude'
  <1>1. /\ LocksExclude /\ tx \in TxTypes
        /\ tx[p] \in [rows : SUBSET Ids, added : SUBSET Pairs,
                      removed : SUBSET Pairs, blocked : SUBSET Pairs]
    BY TypedHandler DEF Locked
  <1>2. \A q \in Procs \ {p} : /\ tx'[q] = tx[q]
                               /\ \A i \in tx[q].rows : requests'[i] = requests[i]
    BY OthersLeft, LockedRequestsKept DEF LeavesOthers
  (* It is enough that the rows p holds now are there and were free.        *)
  <1>3. ASSUME \A i \in tx'[p].rows : Live(i)',
               \A q \in Procs \ {p} :
                 /\ tx'[p].rows \cap tx[q].rows = {}
                 /\ (tx'[p].added \cup tx'[p].removed) \cap (tx[q].added \cup tx[q].removed) = {}
        PROVE  LocksExclude'
    BY <1>1, <1>2, <1>3 DEF LocksExclude, Live
  <1>4. CASE tx'[p] = NoTx
    BY <1>3, <1>4 DEF NoTx
  <1>5. CASE UNCHANGED <<requests, tx>>
    BY <1>1, <1>3, <1>5 DEF LocksExclude, Live
  <1>6. CASE Locks(p)
    <2>1. tx[p] = NoTx
      BY <1>6 DEF Locks, At, Locked, Holds, HoldsNothing, Accepting, Blocking
    <2>2. /\ tx'[p].rows = {Id(p)} /\ tx'[p].added = {} /\ tx'[p].removed = {}
          /\ requests' = requests /\ Live(Id(p))
      BY <1>1, <1>6, <2>1 DEF Locks, TxTypes, NoTx, Pending, Live, tables
    <2>3. \A q \in Procs \ {p} : Id(p) \notin tx[q].rows
      BY <1>6 DEF Locks, RowHolders, Others
    <2> QED
      BY <1>3, <2>2, <2>3 DEF Live
  <1>7. CASE Blocks(p)
    <2>1. /\ tx'[p].rows = tx[p].rows /\ tx'[p].added = tx[p].added
          /\ tx'[p].removed = tx[p].removed /\ requests' = requests
      BY <1>1, <1>7 DEF Blocks, TxTypes, tables
    <2> QED
      BY <1>1, <1>3, <2>1 DEF LocksExclude, Live
  <1>8. ASSUME NEW f \in Pairs, InsertFriend(p, f) \/ DeleteFriend(p, f) PROVE LocksExclude'
    <2>1. /\ tx'[p].rows = tx[p].rows /\ requests' = requests
          /\ tx'[p].added \cup tx'[p].removed \subseteq tx[p].added \cup tx[p].removed \cup {f}
      BY <1>1, <1>8 DEF InsertFriend, DeleteFriend, TxTypes, tables
    <2>2. \A q \in Procs \ {p} : f \notin tx[q].added \cup tx[q].removed
      BY <1>8 DEF InsertFriend, DeleteFriend, FriendHolders, Others
    <2>3. \A i \in tx'[p].rows : Live(i)'
      BY <1>1, <2>1 DEF LocksExclude, Live
    <2>4. \A q \in Procs \ {p} :
            /\ tx'[p].rows \cap tx[q].rows = {}
            /\ (tx'[p].added \cup tx'[p].removed) \cap (tx[q].added \cup tx[q].removed) = {}
      BY <1>1, <2>1, <2>2 DEF LocksExclude
    <2> QED
      BY <1>3, <2>3, <2>4
  <1>9. ASSUME NEW i \in Ids, UpdateRequest(p, i) PROVE LocksExclude'
    <2>1. /\ tx'[p].added = tx[p].added /\ tx'[p].removed = tx[p].removed
          /\ \/ tx'[p].rows = tx[p].rows
             \/ Live(i) /\ tx'[p].rows = tx[p].rows \cup {i}
          /\ requests' = requests
      BY <1>1, <1>9 DEF UpdateRequest, TxTypes, tables
    <2>2. \A q \in Procs \ {p} : i \notin tx[q].rows
      BY <1>9 DEF UpdateRequest, RowHolders, Others
    <2> QED
      BY <1>1, <1>3, <2>1, <2>2 DEF LocksExclude, Live
  <1>10. CASE Ends(p) \/ Makes(p) \/ Settles(p) \/ Commit(p) \/ DeleteBlock(p)
    <2>1. tx'[p] = NoTx
      BY <1>1, <1>10 DEF Ends, Makes, Settles, Commit, DeleteBlock, Answer, AnswerCommitted, TxTypes
    <2> QED
      BY <1>4, <2>1
  <1>11. CASE Call(p) \/ Reads(p) \/ DeleteFriends(p) \/ UpdateRequests(p) \/ UpdatedRequests(p)
    BY <1>5, <1>11 DEF Call, Reads, DeleteFriends, UpdateRequests, UpdatedRequests, tables
  <1> QED
    BY <1>6, <1>7, <1>8, <1>9, <1>10, <1>11 DEF Moves

LEMMA InitLocked == Init => Locked
  BY DEF Init, Locked, Holds, HoldsNothing, AcceptHolds, BlockHolds, CommitsDone, Accepting,
         Blocking, Deleted, At, LocksExclude, NoTx, Nothing

LEMMA StepLocked == ASSUME Typed, Locked, NEW p \in Procs, Moves(p) PROVE Locked'
  BY OthersHold, SelfHolds, StepLocksExclude DEF Locked

(* A step that changes nothing.                                             *)
LEMMA StutterLocked == Typed /\ Locked /\ UNCHANGED vars => Typed' /\ Locked'
  BY DEF vars, tables, Typed, TypeOK, InStatement, RequestsBetween, OwnNumber, LocksThere, Locked,
         Holds, HoldsNothing, AcceptHolds, BlockHolds, CommitsDone, Accepting, Blocking,
         Deleted, At, LocksExclude, Friendship, Pending, Live, Id, Me, Peer

LEMMA AlwaysLocked == Spec => [](Typed /\ Locked)
  <1>1. Init => Typed /\ Locked
    BY InitTyped, InitLocked
  <1>2. Typed /\ Locked /\ [Next]_vars => Typed' /\ Locked'
    BY NextMoves, StepTyped, StepLocked, StutterLocked
  <1> QED
    BY <1>1, <1>2, PTL DEF Spec

(* Every reachable state is well typed: what transactions hold and statements *)
(* have before them are request rows and pairs of users.                    *)
THEOREM TypeCorrect == Spec => []TypeOK
  BY AlwaysLocked, PTL DEF Typed

-----------------------------------------------------------------------------
(* What follows from the locks alone.                                       *)

(* Which steps change the requests, and which status each may have then.    *)
LEMMA RequestsChange ==
  ASSUME Typed, Locked, NEW p \in Procs, Moves(p), NEW i \in Ids, requests'[i] # requests[i]
  PROVE  \/ /\ Makes(p) /\ i = Id(p) /\ requests[i].status = "unborn"
            /\ requests'[i] = [from |-> Me(p), to |-> Peer(p), status |-> "pending"]
            /\ requests'[i].status = "pending"
         \/ /\ Settles(p) /\ i = Id(p) /\ Pending(i)
            /\ requests'[i].status \in {"rejected", "deleted"}
         \/ /\ Commit(p) /\ Accepting(p) /\ i = Id(p) /\ Pending(i)
            /\ requests'[i].status = "accepted"
         \/ /\ Commit(p) /\ Blocking(p) /\ i \in tx[p].rows /\ Live(i)
            /\ requests'[i].status = "blocked"
  <1>1. requests \in RequestTypes
    BY TypedHandler
  <1>2. CASE Makes(p)
    <2>1. i = Id(p)
      BY <1>1, <1>2 DEF Makes, RequestTypes
    <2>2. requests[i].status = "unborn"
      BY <1>2, <2>1 DEF Makes, At, Creating, Typed, OwnNumber
    <2> QED
      BY <1>1, <1>2, <2>1, <2>2 DEF Makes, RequestTypes
  <1>3. CASE Settles(p)
    BY <1>1, <1>3 DEF Settles, RequestTypes
  <1>4. CASE Commit(p)
    <2>1. /\ At(p, "commit") /\ Holds(p) /\ LocksExclude
          /\ i \in tx[p].rows
          /\ requests'[i] = [requests[i] EXCEPT !.status =
                               IF op[p].kind = "accept" THEN "accepted" ELSE "blocked"]
      BY <1>4 DEF Commit, Locked
    <2>2. Accepting(p) \/ Blocking(p)
      BY <2>1 DEF Holds, CommitsDone
    <2>3. CASE Accepting(p)
      BY <1>1, <1>4, <2>1, <2>3 DEF Accepting, Holds, AcceptHolds, RequestTypes
    <2>4. CASE Blocking(p)
      BY <1>1, <1>4, <2>1, <2>4 DEF Blocking, LocksExclude, RequestTypes
    <2> QED
      BY <2>2, <2>3, <2>4
  <1> QED
    BY <1>2, <1>3, <1>4
       DEF Moves, Call, Ends, Reads, Locks, Blocks, DeleteFriends, UpdateRequests,
           UpdatedRequests, DeleteBlock, InsertFriend, DeleteFriend, UpdateRequest, tables

(* A request that exists keeps its two users.                               *)
LEMMA RequestsKeepUsers ==
  ASSUME Typed, Locked, NEW p \in Procs, Moves(p), NEW i \in Ids, requests[i].status # "unborn"
  PROVE  requests'[i].from = requests[i].from /\ requests'[i].to = requests[i].to
  <1>1. requests \in RequestTypes
    BY TypedHandler
  <1>2. CASE requests'[i] = requests[i]
    BY <1>2
  <1>3. CASE Settles(p)
    BY <1>1, <1>3 DEF Settles, RequestTypes
  <1>4. CASE Commit(p)
    BY <1>1, <1>4 DEF Commit, RequestTypes
  <1> QED
    BY <1>2, <1>3, <1>4, RequestsChange

(* A request that was answered stays so, whoever answers, blocks or cancels *)
(* at the same time: it can only become blocked later, and a cancelled one  *)
(* never comes back.                                                        *)
THEOREM AnswersStand == Spec => AnsweredForGood
  <1>1. ASSUME Typed, Locked, NEW p \in Procs, Moves(p), NEW i \in Ids,
               requests[i].status \in {"accepted", "rejected", "blocked", "deleted"}
        PROVE  requests'[i].status \in {requests[i].status}
                                          \cup (IF Live(i) THEN {"blocked"} ELSE {})
    BY <1>1, RequestsChange DEF Pending
  <1>2. ASSUME Typed, Locked, [Next]_vars
        PROVE  [\A i \in Ids :
                  requests[i].status \in {"accepted", "rejected", "blocked", "deleted"}
                    => requests'[i].status \in {requests[i].status}
                         \cup (IF Live(i) THEN {"blocked"} ELSE {})]_vars
    BY <1>1, <1>2, NextMoves
  <1> QED
    BY <1>2, AlwaysLocked, PTL DEF Spec, AnsweredForGood

(* A friendship row appears only with the acceptance, by its receiver, of a *)
(* request between the two that was pending until that commit.              *)
THEOREM Consent == Spec => FriendshipByConsent
  <1>1. ASSUME Typed, Locked, NEW p \in Procs, Moves(p), NEW f \in friends' \ friends
        PROVE  ConsentGiven(f)
    <2>1. Commit(p)
      BY <1>1 DEF Moves, Call, Ends, Reads, Makes, Locks, Settles, Blocks, DeleteFriends,
                  UpdateRequests, UpdatedRequests, DeleteBlock, InsertFriend, DeleteFriend,
                  UpdateRequest, tables
    <2>2. /\ Holds(p) /\ At(p, "commit") /\ f \in tx[p].added
          /\ pc[p] # "idle" /\ requests \in RequestTypes
      BY <1>1, <2>1, TypedHandler DEF Commit, Locked, At
    <2>3. Accepting(p)
      BY <2>2 DEF Holds, CommitsDone, BlockHolds
    <2>4. /\ Pending(Id(p)) /\ f \in Friendship(p) /\ Me(p) = requests[Id(p)].to
          /\ Id(p) \in tx[p].rows /\ Id(p) \in Ids
      BY <1>1, <2>2, <2>3, TypedHandler DEF Holds, AcceptHolds
    <2>5. requests'[Id(p)].status = "accepted"
      BY <2>1, <2>2, <2>3, <2>4 DEF Commit, Accepting, RequestTypes
    <2> QED
      BY <2>2, <2>4, <2>5 DEF ConsentGiven, Friendship
  <1>2. ASSUME Typed, Locked, [Next]_vars
        PROVE  [\A f \in friends' \ friends : ConsentGiven(f)]_vars
    BY <1>1, <1>2, NextMoves
  <1> QED
    BY <1>2, AlwaysLocked, PTL DEF Spec, FriendshipByConsent

(* The unique index does what the reads cannot: two requests of one pair    *)
(* are never pending together.                                              *)
THEOREM OneRequestPending == Spec => []OnePending
  <1>1. Init => OnePending
    BY DEF Init, OnePending, Pending, NoRequest
  <1>2. ASSUME Typed, Locked, OnePending, NEW p \in Procs, Moves(p)
        PROVE  OnePending'
    <2> SUFFICES ASSUME NEW i \in Ids, NEW j \in Ids, Pending(i)', Pending(j)', i # j,
                        <<requests'[i].from, requests'[i].to>>
                          \in Both(requests'[j].from, requests'[j].to)
                 PROVE  FALSE
      BY DEF OnePending, Both
    <2>1. ASSUME NEW k \in Ids, Pending(k)'
          PROVE  \/ requests'[k] = requests[k] /\ Pending(k)
                 \/ /\ Makes(p) /\ k = Id(p)
                    /\ requests'[k].from = Me(p) /\ requests'[k].to = Peer(p)
      <3>1. CASE requests'[k] = requests[k]
        BY <2>1, <3>1 DEF Pending
      <3>2. CASE requests'[k] # requests[k]
        <4>1. \/ Makes(p) /\ k = Id(p)
                /\ requests'[k] = [from |-> Me(p), to |-> Peer(p), status |-> "pending"]
              \/ requests'[k].status \in {"rejected", "deleted", "accepted", "blocked"}
          BY <1>2, <2>1, <3>2, RequestsChange
        <4> QED
          BY <2>1, <4>1 DEF Pending
      <3> QED
        BY <3>1, <3>2
    <2>2. ASSUME NEW k \in Ids, requests'[k] = requests[k], Pending(k), Makes(p)
          PROVE  <<requests[k].from, requests[k].to>> \notin Both(Me(p), Peer(p))
      BY <2>2 DEF Makes, RequestsOf, Live, Pending
    <2> QED
      BY <1>2, <2>1, <2>2 DEF OnePending, Both
  <1>3. OnePending /\ UNCHANGED vars => OnePending'
    BY DEF vars, tables, OnePending, Pending
  <1>4. Typed /\ Locked /\ OnePending /\ [Next]_vars => OnePending'
    BY <1>2, <1>3, NextMoves
  <1> QED
    BY <1>1, <1>4, AlwaysLocked, PTL DEF Spec

-----------------------------------------------------------------------------
(* Third layer: the transactions of a pair.                                 *)

Swap(f) == <<f[2], f[1]>>

(* A block deletes both rows of a friendship or none: it saw both, and what *)
(* another block has deleted meanwhile was both as well.                    *)
DeletesBoth ==
  \A p \in Procs : Blocking(p) =>
    \A f \in tx[p].removed \cup todo[p].pairs : Swap(f) \in tx[p].removed \cup todo[p].pairs

(* A row an acceptance need not write is there.                             *)
AcceptSeesBoth ==
  \A p \in Procs : Accepting(p) =>
    Friendship(p) \subseteq todo[p].pairs \cup tx[p].added \cup friends

(* A block that has deleted rows has still to lock the request of an        *)
(* acceptance that has gone past one of them, so it cannot commit first.    *)
BlockFollows ==
  \A p, q \in Procs :
    Deleted(p) /\ Accepting(q) /\ tx[p].removed \cap (Friendship(q) \ todo[q].pairs) # {}
      => Id(q) \in todo[p].rows

(* And it has locked, or has still to, each accepted request of the pair.   *)
BlockTakesAccepted ==
  \A p \in Procs, i \in Ids :
    Deleted(p) /\ requests[i].status = "accepted"
        /\ tx[p].removed \cap Both(requests[i].from, requests[i].to) # {}
      => i \in todo[p].rows \cup tx[p].rows

(* Behind a friendship is an accepted request, or one blocked since.        *)
FriendsHaveRequest ==
  \A f \in friends : \E i \in Ids : /\ requests[i].status \in {"accepted", "blocked"}
                                  /\ f \in Both(requests[i].from, requests[i].to)

Paired ==
  /\ FriendsMutual /\ AcceptedAreFriends /\ FriendsHaveRequest
  /\ DeletesBoth /\ AcceptSeesBoth /\ BlockFollows /\ BlockTakesAccepted

(* Rows of friends and their two directions.                                *)
LEMMA SwapPairs ==
  /\ \A f \in Pairs : f = <<f[1], f[2]>> /\ Swap(f) \in Pairs /\ Swap(Swap(f)) = f
  /\ \A a, b : \A f \in Both(a, b) : /\ Swap(f) \in Both(a, b)
                                   /\ Both(a, b) = {f, Swap(f)}
                                   /\ {f[1], f[2]} = {a, b}
  BY DEF Pairs, Swap, Both

(* Two pairs that share a row are one.                                      *)
LEMMA SharedRow ==
  ASSUME NEW a, NEW b, NEW c, NEW d, Both(a, b) \cap Both(c, d) # {}
  PROVE  <<a, b>> \in Both(c, d)
  BY DEF Both

(* What a COMMIT makes of the friendships.                                  *)
LEMMA CommitFriends ==
  ASSUME Typed, Locked, Paired, NEW p \in Procs, Commit(p)
  PROVE  /\ Accepting(p) \/ Blocking(p)
         /\ Accepting(p) => /\ friends' = friends \cup Friendship(p)
                            /\ requests[Id(p)].from # requests[Id(p)].to /\ Id(p) \in Ids
         /\ Blocking(p) => /\ friends' = friends \ tx[p].removed
                           /\ \A f \in tx[p].removed : Swap(f) \in tx[p].removed
                           /\ todo[p].rows = {}
  <1>1. /\ Holds(p) /\ At(p, "commit")
        /\ friends' = (friends \ tx[p].removed) \cup tx[p].added
        /\ todo[p].pairs = {} /\ todo[p].rows = {}
        /\ Accepting(p) \/ Blocking(p)
    BY DEF Commit, Locked, Holds, CommitsDone
  <1>2. CASE Accepting(p)
    <2>1. /\ tx[p].removed = {} /\ tx[p].added \subseteq Friendship(p) /\ Pending(Id(p))
          /\ Friendship(p) \subseteq tx[p].added \cup friends
      BY <1>1, <1>2 DEF Holds, AcceptHolds, Paired, AcceptSeesBoth
    <2>2. requests[Id(p)].from # requests[Id(p)].to /\ Id(p) \in Ids /\ ~Blocking(p)
      BY <1>1, <1>2, <2>1, TypedHandler DEF At, Accepting, Blocking
    <2> QED
      BY <1>1, <2>1, <2>2
  <1>3. CASE Blocking(p)
    BY <1>1, <1>3 DEF Holds, BlockHolds, Paired, DeletesBoth, Accepting, Blocking
  <1> QED
    BY <1>1, <1>2, <1>3

LEMMA FriendsChange ==
  ASSUME NEW p \in Procs, Moves(p), friends' # friends PROVE Commit(p)
  BY DEF Moves, Call, Ends, Reads, Makes, Locks, Settles, Blocks, DeleteFriends, UpdateRequests,
         UpdatedRequests, DeleteBlock, InsertFriend, DeleteFriend, UpdateRequest, tables

LEMMA StepFriendsMutual ==
  ASSUME Typed, Locked, Paired, NEW p \in Procs, Moves(p) PROVE FriendsMutual'
  <1>1. FriendsMutual
    BY DEF Paired
  <1>2. CASE friends' = friends
    BY <1>1, <1>2 DEF FriendsMutual
  <1>3. CASE Commit(p) /\ Accepting(p)
    <2>1. /\ friends' = friends \cup Friendship(p)
          /\ requests[Id(p)].from # requests[Id(p)].to
      BY <1>3, CommitFriends
    <2>2. ASSUME NEW f \in friends'
          PROVE  f[1] # f[2] /\ Swap(f) \in friends'
      <3>1. CASE f \in friends
        BY <1>1, <2>1, <3>1 DEF FriendsMutual, Swap
      <3>2. CASE f \in Friendship(p)
        BY <2>1, <3>2 DEF Friendship, Both, Swap
      <3> QED
        BY <2>1, <2>2, <3>1, <3>2
    <2> QED
      BY <2>2 DEF FriendsMutual, Swap
  <1>4. CASE Commit(p) /\ Blocking(p)
    <2>1. /\ friends' = friends \ tx[p].removed /\ friends \subseteq Pairs
          /\ \A f \in tx[p].removed : Swap(f) \in tx[p].removed
      BY <1>4, CommitFriends DEF Typed, TypeOK
    <2>2. ASSUME NEW f \in friends'
          PROVE  f[1] # f[2] /\ Swap(f) \in friends'
      BY <1>1, <2>1, <2>2, SwapPairs DEF FriendsMutual, Swap
    <2> QED
      BY <2>2 DEF FriendsMutual, Swap
  <1> QED
    BY <1>2, <1>3, <1>4, FriendsChange, CommitFriends

LEMMA StepAcceptedAreFriends ==
  ASSUME Typed, Locked, Paired, NEW p \in Procs, Moves(p) PROVE AcceptedAreFriends'
  <1> SUFFICES ASSUME NEW i \in Ids, requests'[i].status = "accepted"
               PROVE  Both(requests'[i].from, requests'[i].to) \subseteq friends'
    BY DEF AcceptedAreFriends, Both
  <1>1. CASE requests'[i] # requests[i]
    <2>1. Commit(p) /\ Accepting(p) /\ i = Id(p) /\ Pending(i)
      BY <1>1, RequestsChange
    <2>2. requests'[i].from = requests[i].from /\ requests'[i].to = requests[i].to
      BY <2>1, RequestsKeepUsers DEF Pending
    <2> QED
      BY <2>1, <2>2, CommitFriends DEF Friendship
  <1>2. CASE requests'[i] = requests[i]
    <2>1. Both(requests[i].from, requests[i].to) \subseteq friends
      BY <1>2 DEF Paired, AcceptedAreFriends
    <2>2. CASE friends \subseteq friends'
      BY <1>2, <2>1, <2>2
    <2>3. CASE Commit(p) /\ Blocking(p)
      <3>1. i \notin tx[p].rows
        BY ZenonT(40), <1>2, <2>3, TypedHandler DEF Commit, Blocking, RequestTypes
      <3>2. Deleted(p) /\ friends' = friends \ tx[p].removed /\ todo[p].rows = {}
        BY <2>3, CommitFriends DEF Commit, Blocking, Deleted, At
      <3>3. tx[p].removed \cap Both(requests[i].from, requests[i].to) = {}
        BY <1>2, <3>1, <3>2 DEF Paired, BlockTakesAccepted
      <3> QED
        BY <1>2, <2>1, <3>2, <3>3
    <2> QED
      BY <2>2, <2>3, FriendsChange, CommitFriends
  <1> QED
    BY <1>1, <1>2

LEMMA StepFriendsHaveRequest ==
  ASSUME Typed, Locked, Paired, NEW p \in Procs, Moves(p) PROVE FriendsHaveRequest'
  <1> SUFFICES ASSUME NEW f \in friends'
               PROVE  \E i \in Ids : /\ requests'[i].status \in {"accepted", "blocked"}
                                    /\ f \in Both(requests'[i].from, requests'[i].to)
    BY DEF FriendsHaveRequest, Both
  <1>1. CASE f \in friends
    <2>1. PICK i \in Ids : /\ requests[i].status \in {"accepted", "blocked"}
                          /\ f \in Both(requests[i].from, requests[i].to)
      BY <1>1 DEF Paired, FriendsHaveRequest
    <2>2. requests'[i].status \in {"accepted", "blocked"}
      BY <2>1, RequestsChange DEF Pending
    <2> QED
      BY <2>1, <2>2, RequestsKeepUsers
  <1>2. CASE f \notin friends
    <2>1. Commit(p) /\ Accepting(p) /\ f \in Friendship(p) /\ Id(p) \in Ids
      BY <1>2, FriendsChange, CommitFriends
    <2>2. Id(p) \in tx[p].rows /\ Pending(Id(p))
      BY <2>1 DEF Locked, Holds, AcceptHolds
    <2>3. requests'[Id(p)].status = "accepted"
      BY <2>1, <2>2, TypedHandler DEF Commit, Accepting, RequestTypes
    <2> QED
      BY <2>1, <2>2, <2>3, RequestsKeepUsers DEF Friendship, Pending
  <1> QED
    BY <1>1, <1>2

LEMMA StepDeletesBoth ==
  ASSUME Typed, Locked, Paired, NEW p \in Procs, Moves(p) PROVE DeletesBoth'
  <1> SUFFICES ASSUME NEW q \in Procs, Blocking(q)', NEW f \in tx'[q].removed \cup todo'[q].pairs
               PROVE  Swap(f) \in tx'[q].removed \cup todo'[q].pairs
    BY DEF DeletesBoth
  <1>1. /\ tx \in TxTypes /\ todo \in TodoTypes /\ Holds(q) /\ DeletesBoth
        /\ pc \in [Procs -> Statements]
    BY TypedHandler DEF Locked, Paired, Typed, TypeOK
  <1>2. CASE /\ Blocking(q)
             /\ tx'[q].removed \cup todo'[q].pairs = tx[q].removed \cup todo[q].pairs
    BY <1>1, <1>2 DEF DeletesBoth
  <1>3. CASE q # p
    <2>1. Blocking(q) /\ tx'[q] = tx[q]
      BY <1>3, OthersLeft DEF LeavesOthers, Blocking
    <2>2. CASE todo'[q] = todo[q]
      BY <1>2, <2>1, <2>2
    <2>3. CASE At(p, "commit") /\ todo'[q].pairs = todo[q].pairs \ tx[p].removed
      <3>1. /\ tx[p].removed \cap tx[q].removed = {}
            /\ Holds(p) /\ tx[p].removed \subseteq Pairs
            /\ tx[q].removed \subseteq Pairs /\ todo[q].pairs \subseteq Pairs
        BY <1>1, <1>3 DEF Locked, LocksExclude, TxTypes, TodoTypes
      <3>2. \A g \in tx[p].removed : Swap(g) \in tx[p].removed
        BY <1>1, <2>3, <3>1 DEF Holds, CommitsDone, AcceptHolds, DeletesBoth
      <3>3. f \in Pairs /\ Swap(f) \in tx[q].removed \cup todo[q].pairs /\ f \notin tx[p].removed
        BY <1>1, <2>1, <2>3, <3>1 DEF DeletesBoth
      <3>4. Swap(f) \notin tx[p].removed
        BY <3>2, <3>3, SwapPairs
      <3> QED
        BY <2>1, <2>3, <3>3, <3>4
    <2> QED
      BY <1>3, <2>2, <2>3, OthersLeft DEF LeavesOthers
  <1>4. CASE q = p /\ Blocks(p)
    <2>1. tx[p] = NoTx /\ todo[p] = Nothing
      BY <1>1, <1>4 DEF Blocks, At, Holds, HoldsNothing, Accepting, Blocking
    <2>2. tx'[p].removed = {} /\ todo'[p].pairs = {}
      BY <1>1, <1>4, <2>1 DEF Blocks, NoTx, Nothing, TxTypes
    <2> QED
      BY <1>4, <2>2
  <1>5. CASE q = p /\ DeleteFriends(p)
    <2>1. tx'[p].removed = {} /\ todo'[p].pairs = Both(Me(p), Peer(p)) \cap friends
      BY <1>1, <1>5 DEF DeleteFriends, Continue, GoTo, At, Holds, BlockHolds, Blocking, TodoTypes,
                        Typed, InStatement
    <2>2. Swap(f) \in Both(Me(p), Peer(p)) /\ Swap(f) \in friends
      BY <1>5, <2>1, SwapPairs DEF Paired, FriendsMutual, Swap
    <2> QED
      BY <1>5, <2>1, <2>2
  <1>6. ASSUME q = p, NEW g \in Pairs, DeleteFriend(p, g)
        PROVE  Swap(f) \in tx'[q].removed \cup todo'[q].pairs
    <2>1. /\ tx'[p].removed = tx[p].removed \cup {g} /\ todo'[p].pairs = todo[p].pairs \ {g}
          /\ g \in todo[p].pairs
      BY <1>1, <1>6 DEF DeleteFriend, TxTypes, TodoTypes
    <2>2. Blocking(p)
      BY <1>6 DEF DeleteFriend, Blocking
    <2> QED
      BY <1>2, <1>6, <2>1, <2>2
  <1>7. CASE q = p /\ (UpdateRequests(p) \/ UpdatedRequests(p))
    <2>1. tx'[p].removed = tx[p].removed /\ todo'[p].pairs = todo[p].pairs /\ Blocking(p)
      BY <1>1, <1>7 DEF UpdateRequests, UpdatedRequests, Continue, At, TodoTypes, Blocking,
                        Typed, InStatement
    <2> QED
      BY <1>2, <1>7, <2>1
  <1>8. ASSUME q = p, NEW i \in Ids, UpdateRequest(p, i)
        PROVE  Swap(f) \in tx'[q].removed \cup todo'[q].pairs
    <2>1. tx'[p].removed = tx[p].removed /\ todo'[p].pairs = todo[p].pairs /\ Blocking(p)
      BY <1>1, <1>8 DEF UpdateRequest, TxTypes, TodoTypes, Blocking
    <2> QED
      BY <1>2, <1>8, <2>1
  <1>9. CASE /\ q = p
             /\ \/ Ends(p) \/ Makes(p) \/ Settles(p) \/ Commit(p) \/ DeleteBlock(p)
                \/ Call(p) \/ Reads(p) \/ Locks(p) \/ \E g \in Pairs : InsertFriend(p, g)
    <2>1. op'[p].kind = "block"
            /\ pc'[p] \in {"deleteFriends", "deletingFriends", "updatingRequests", "commit"}
      BY <1>9 DEF Blocking
    <2>2. pc'[p] \notin {"deleteFriends", "deletingFriends", "updatingRequests"}
      BY <1>1, <1>9 DEF Ends, Makes, Settles, Commit, DeleteBlock, Answer, AnswerCommitted, Call,
                        FirstStatement, Reads, Creating, Locks, InsertFriend, Continue, GoTo
    <2>3. pc'[p] = "commit" /\ op'[p].kind = "block"
      BY <2>1, <2>2
    <2>4. ~ \E g \in Pairs : InsertFriend(p, g)
      BY <2>3 DEF InsertFriend, Continue, At, Typed, InStatement
    <2> QED
      BY <1>1, <1>9, <2>3, <2>4
         DEF Ends, Makes, Settles, Commit, DeleteBlock, Answer, AnswerCommitted, Call,
             FirstStatement, Reads, Creating, Locks, Continue, GoTo
  <1> QED
    BY <1>3, <1>4, <1>5, <1>6, <1>7, <1>8, <1>9 DEF Moves

(* Before and after a step of another handler an acceptance is the same.    *)
LEMMA AcceptanceLeft ==
  ASSUME Typed, Locked, NEW p \in Procs, Moves(p), NEW q \in Procs \ {p}, Accepting(q)'
  PROVE  /\ Accepting(q) /\ tx'[q] = tx[q] /\ todo'[q] = todo[q] /\ Id(q)' = Id(q)
         /\ Friendship(q)' = Friendship(q)
  <1>1. Accepting(q) /\ tx'[q] = tx[q] /\ todo'[q] = todo[q] /\ Id(q)' = Id(q)
    BY OthersLeft DEF LeavesOthers, Accepting, At, Id
  <1>2. requests'[Id(q)] = requests[Id(q)]
    BY <1>1, LockedRequestsKept DEF Locked, Holds, AcceptHolds
  <1> QED
    BY <1>1, <1>2 DEF Friendship

(* Its own steps.                                                           *)
LEMMA AcceptanceMoves ==
  ASSUME Typed, Locked, NEW p \in Procs, Moves(p), Accepting(p)'
  PROVE  \/ /\ Locks(p) /\ Friendship(p)' = Friendship(p)
            /\ todo'[p].pairs = Friendship(p)
         \/ \E f \in Pairs : /\ InsertFriend(p, f) /\ Accepting(p)
                             /\ Friendship(p)' = Friendship(p) /\ Id(p)' = Id(p)
                             /\ todo'[p].pairs = todo[p].pairs \ {f}
                             /\ \/ f \in friends /\ tx'[p].added = tx[p].added
                                \/ tx'[p].added = tx[p].added \cup {f}
  <1>1. tx \in TxTypes /\ todo \in TodoTypes /\ pc \in [Procs -> Statements]
    BY TypedHandler DEF Typed, TypeOK
  <1>2. CASE Locks(p)
    BY <1>1, <1>2 DEF Locks, Friendship, Id, TodoTypes, tables, Continue
  <1>3. ASSUME NEW f \in Pairs, InsertFriend(p, f)
        PROVE  /\ Accepting(p) /\ Friendship(p)' = Friendship(p) /\ Id(p)' = Id(p)
               /\ todo'[p].pairs = todo[p].pairs \ {f}
               /\ \/ f \in friends /\ tx'[p].added = tx[p].added
                  \/ tx'[p].added = tx[p].added \cup {f}
    BY <1>1, <1>3 DEF InsertFriend, Accepting, Friendship, Id, tables, Continue, At, Typed, InStatement,
                      TxTypes, TodoTypes
  <1>4. CASE \/ Ends(p) \/ Makes(p) \/ Settles(p) \/ Commit(p) \/ DeleteBlock(p) \/ Call(p)
             \/ Reads(p) \/ Blocks(p) \/ DeleteFriends(p) \/ UpdateRequests(p)
    BY <1>1, <1>4
       DEF Ends, Makes, Settles, Commit, DeleteBlock, Answer, AnswerCommitted, Call, FirstStatement,
           Reads, Creating, Blocks, DeleteFriends, UpdateRequests, Continue, GoTo, Accepting
  <1>5. CASE UpdatedRequests(p) \/ (\E f \in Pairs : DeleteFriend(p, f))
             \/ (\E i \in Ids : UpdateRequest(p, i))
    BY <1>5 DEF UpdatedRequests, DeleteFriend, UpdateRequest, Continue, GoTo, Accepting, At, Typed,
                InStatement
  <1> QED
    BY <1>2, <1>3, <1>4, <1>5 DEF Moves

LEMMA StepAcceptSeesBoth ==
  ASSUME Typed, Locked, Paired, NEW p \in Procs, Moves(p) PROVE AcceptSeesBoth'
  <1> SUFFICES ASSUME NEW q \in Procs, Accepting(q)'
               PROVE  Friendship(q)' \subseteq todo'[q].pairs \cup tx'[q].added \cup friends'
    BY DEF AcceptSeesBoth
  <1>1. CASE q # p
    <2>1. /\ Accepting(q) /\ tx'[q] = tx[q] /\ todo'[q] = todo[q] /\ Friendship(q)' = Friendship(q)
          /\ Friendship(q) \subseteq todo[q].pairs \cup tx[q].added \cup friends
      BY <1>1, AcceptanceLeft DEF Paired, AcceptSeesBoth
    <2>2. CASE friends \subseteq friends'
      BY <2>1, <2>2
    <2>3. CASE Commit(p) /\ Blocking(p)
      <3>1. /\ Deleted(p) /\ friends' = friends \ tx[p].removed /\ todo[p].rows = {}
        BY <2>3, CommitFriends DEF Commit, Blocking, Deleted, At
      <3>2. tx[p].removed \cap (Friendship(q) \ todo[q].pairs) = {}
        BY <2>1, <3>1 DEF Paired, BlockFollows
      <3> QED
        BY <2>1, <3>1, <3>2
    <2> QED
      BY <2>2, <2>3, FriendsChange, CommitFriends
  <1>2. CASE q = p
    <2>1. CASE todo'[p].pairs = Friendship(p) /\ Friendship(p)' = Friendship(p)
      BY <1>2, <2>1
    <2>2. ASSUME NEW f \in Pairs, InsertFriend(p, f), Accepting(p), Friendship(p)' = Friendship(p),
                 todo'[p].pairs = todo[p].pairs \ {f},
                 \/ f \in friends /\ tx'[p].added = tx[p].added
                 \/ tx'[p].added = tx[p].added \cup {f}
          PROVE  Friendship(q)' \subseteq todo'[q].pairs \cup tx'[q].added \cup friends'
      <3>1. friends' = friends /\ Friendship(p) \subseteq todo[p].pairs \cup tx[p].added \cup friends
        BY <2>2 DEF InsertFriend, tables, Paired, AcceptSeesBoth
      <3> QED
        BY <1>2, <2>2, <3>1
    <2> QED
      BY <1>2, <2>1, <2>2, AcceptanceMoves
  <1> QED
    BY <1>1, <1>2

(* A block whose DELETE is over is the same after a step of another.        *)
LEMMA BlockLeft ==
  ASSUME Typed, NEW p \in Procs, Moves(p), NEW x \in Procs \ {p}, Deleted(x)'
  PROVE  Deleted(x) /\ tx'[x] = tx[x] /\ todo'[x] = todo[x]
  BY OthersLeft DEF LeavesOthers, Deleted, At

(* Its own steps.                                                           *)
LEMMA BlockMoves ==
  ASSUME Typed, Locked, NEW p \in Procs, Moves(p), Deleted(p)'
  PROVE  /\ UNCHANGED <<requests, friends>>
         /\ tx'[p].removed = tx[p].removed /\ Blocking(p)
         /\ \/ /\ UpdateRequests(p) /\ tx'[p].rows = tx[p].rows
               /\ todo'[p].rows = RequestsOf(Me(p), Peer(p))
            \/ /\ Deleted(p)
               /\ \/ tx'[p].rows = tx[p].rows /\ todo'[p].rows = todo[p].rows
                  \/ \E i \in Ids : /\ UpdateRequest(p, i)
                                    /\ todo'[p].rows = todo[p].rows \ {i}
                                    /\ \/ ~Live(i) /\ tx'[p].rows = tx[p].rows
                                       \/ tx'[p].rows = tx[p].rows \cup {i}
  <1>1. tx \in TxTypes /\ todo \in TodoTypes /\ pc \in [Procs -> Statements]
    BY TypedHandler DEF Typed, TypeOK
  <1>2. CASE UpdateRequests(p)
    BY <1>1, <1>2 DEF UpdateRequests, TodoTypes, tables, Continue, Typed, InStatement, At, Blocking
  <1>3. CASE UpdatedRequests(p)
    BY <1>1, <1>3 DEF UpdatedRequests, tables, Continue, Typed, InStatement, At, Blocking, Deleted
  <1>4. ASSUME NEW i \in Ids, UpdateRequest(p, i)
        PROVE  /\ UNCHANGED <<requests, friends>>
               /\ tx'[p].removed = tx[p].removed /\ Blocking(p) /\ Deleted(p)
               /\ todo'[p].rows = todo[p].rows \ {i}
               /\ \/ ~Live(i) /\ tx'[p].rows = tx[p].rows
                  \/ tx'[p].rows = tx[p].rows \cup {i}
    BY <1>1, <1>4 DEF UpdateRequest, tables, TxTypes, TodoTypes, Typed, InStatement, At, Blocking,
                      Deleted
  <1>5. CASE \/ Ends(p) \/ Makes(p) \/ Settles(p) \/ Commit(p) \/ DeleteBlock(p) \/ Call(p)
             \/ Reads(p) \/ Blocks(p) \/ DeleteFriends(p) \/ Locks(p)
             \/ \E f \in Pairs : DeleteFriend(p, f)
    BY <1>1, <1>5
       DEF Ends, Makes, Settles, Commit, DeleteBlock, Answer, AnswerCommitted, Call, FirstStatement,
           Reads, Creating, Blocks, DeleteFriends, Locks, DeleteFriend, Continue, GoTo, Deleted, At
  <1>6. CASE \E f \in Pairs : InsertFriend(p, f)
    BY <1>6 DEF InsertFriend, Continue, Deleted, At, Typed, InStatement
  <1> QED
    BY <1>2, <1>3, <1>4, <1>5, <1>6 DEF Moves

LEMMA StepBlockFollows ==
  ASSUME Typed, Locked, Paired, NEW p \in Procs, Moves(p) PROVE BlockFollows'
  <1> SUFFICES ASSUME NEW x \in Procs, NEW q \in Procs, Deleted(x)', Accepting(q)',
                      tx'[x].removed \cap (Friendship(q)' \ todo'[q].pairs) # {}
               PROVE  Id(q)' \in todo'[x].rows
    BY DEF BlockFollows
  <1>1. x # q
    BY DEF Deleted, Accepting
  <1>2. CASE q = p
    <2>1. Deleted(x) /\ tx'[x] = tx[x] /\ todo'[x] = todo[x]
      BY <1>1, <1>2, BlockLeft
    <2>2. PICK f \in Pairs : /\ InsertFriend(p, f) /\ Accepting(p)
                            /\ Friendship(p)' = Friendship(p) /\ Id(p)' = Id(p)
                            /\ todo'[p].pairs = todo[p].pairs \ {f}
      BY <1>2, AcceptanceMoves
    <2>3. f \notin tx[x].removed
      BY <1>1, <1>2, <2>2 DEF InsertFriend, FriendHolders, Others
    <2>4. tx[x].removed \cap (Friendship(p) \ todo[p].pairs) # {}
      BY <1>2, <2>1, <2>2, <2>3
    <2> QED
      BY <1>2, <2>1, <2>2, <2>4 DEF Paired, BlockFollows
  <1>3. CASE q # p
    <2>1. /\ Accepting(q) /\ tx'[q] = tx[q] /\ todo'[q] = todo[q] /\ Id(q)' = Id(q)
          /\ Friendship(q)' = Friendship(q) /\ Id(q) \in tx[q].rows /\ Pending(Id(q))
          /\ Id(q) \in Ids
      <3>1. /\ Accepting(q) /\ tx'[q] = tx[q] /\ todo'[q] = todo[q] /\ Id(q)' = Id(q)
            /\ Friendship(q)' = Friendship(q)
        BY <1>3, AcceptanceLeft
      <3>2. pc[q] # "idle"
        BY <3>1 DEF Accepting
      <3> QED
        BY <3>1, <3>2, TypedHandler DEF Locked, Holds, AcceptHolds
    <2>2. CASE x # p
      BY <2>1, <2>2, BlockLeft DEF Paired, BlockFollows
    <2>3. CASE x = p
      <3>1. /\ tx[p].removed \cap (Friendship(q) \ todo[q].pairs) # {} /\ Blocking(p)
            /\ tx[p].removed \subseteq Both(Me(p), Peer(p))
        BY <2>1, <2>3, BlockMoves DEF Locked, Holds, BlockHolds
      <3>2. CASE todo'[p].rows = RequestsOf(Me(p), Peer(p))
        <4>1. <<requests[Id(q)].from, requests[Id(q)].to>> \in Both(Me(p), Peer(p))
          BY <3>1, SharedRow DEF Friendship
        <4> QED
          BY <2>1, <2>3, <3>2, <4>1 DEF RequestsOf, Live, Pending
      <3>3. CASE Deleted(p) /\ todo'[p].rows = todo[p].rows
        BY <2>1, <2>3, <3>1, <3>3 DEF Paired, BlockFollows
      <3>4. ASSUME NEW i \in Ids, Deleted(p), UpdateRequest(p, i),
                   todo'[p].rows = todo[p].rows \ {i}
            PROVE  Id(q)' \in todo'[x].rows
        <4>1. i # Id(q)
          BY <1>3, <2>1, <3>4 DEF UpdateRequest, RowHolders, Others
        <4> QED
          BY <2>1, <2>3, <3>1, <3>4, <4>1 DEF Paired, BlockFollows
      <3> QED
        BY <2>3, <3>2, <3>3, <3>4, BlockMoves
    <2> QED
      BY <2>2, <2>3
  <1> QED
    BY <1>2, <1>3

LEMMA StepBlockTakesAccepted ==
  ASSUME Typed, Locked, Paired, NEW p \in Procs, Moves(p) PROVE BlockTakesAccepted'
  <1> SUFFICES ASSUME NEW x \in Procs, NEW i \in Ids, Deleted(x)', requests'[i].status = "accepted",
                      tx'[x].removed \cap Both(requests'[i].from, requests'[i].to) # {}
               PROVE  i \in todo'[x].rows \cup tx'[x].rows
    BY DEF BlockTakesAccepted, Both
  <1>1. CASE x # p
    <2>1. Deleted(x) /\ tx'[x] = tx[x] /\ todo'[x] = todo[x]
      BY <1>1, BlockLeft
    <2>2. CASE requests'[i] = requests[i]
      BY <2>1, <2>2 DEF Paired, BlockTakesAccepted
    <2>3. CASE requests'[i] # requests[i]
      <3>1. Commit(p) /\ Accepting(p) /\ i = Id(p) /\ Pending(i)
        BY <2>3, RequestsChange
      <3>2. Both(requests'[i].from, requests'[i].to) = Friendship(p) /\ todo[p].pairs = {}
        BY <3>1, RequestsKeepUsers DEF Friendship, Pending, Commit, Locked, Holds, CommitsDone
      <3> QED
        BY <2>1, <3>1, <3>2 DEF Paired, BlockFollows
    <2> QED
      BY <2>2, <2>3
  <1>2. CASE x = p
    <2>1. /\ requests' = requests /\ tx'[p].removed = tx[p].removed /\ Blocking(p)
          /\ tx[p].removed \subseteq Both(Me(p), Peer(p)) /\ Live(i)
      BY <1>2, BlockMoves DEF Locked, Holds, BlockHolds, Live
    <2>2. CASE todo'[p].rows = RequestsOf(Me(p), Peer(p))
      <3>1. <<requests[i].from, requests[i].to>> \in Both(Me(p), Peer(p))
        BY <1>2, <2>1, SharedRow
      <3> QED
        BY <1>2, <2>1, <2>2, <3>1 DEF RequestsOf
    <2>3. CASE /\ Deleted(p)
               /\ \/ tx'[p].rows = tx[p].rows /\ todo'[p].rows = todo[p].rows
                  \/ \E j \in Ids : /\ todo'[p].rows = todo[p].rows \ {j}
                                    /\ \/ ~Live(j) /\ tx'[p].rows = tx[p].rows
                                       \/ tx'[p].rows = tx[p].rows \cup {j}
      <3>1. i \in todo[p].rows \cup tx[p].rows
        BY <1>2, <2>1, <2>3 DEF Paired, BlockTakesAccepted
      <3> QED
        BY <1>2, <2>1, <2>3, <3>1
    <2> QED
      BY <1>2, <2>2, <2>3, BlockMoves
  <1> QED
    BY <1>1, <1>2

LEMMA InitPaired == Init => Paired
  BY DEF Init, Paired, FriendsMutual, AcceptedAreFriends, FriendsHaveRequest, DeletesBoth,
         AcceptSeesBoth, BlockFollows, BlockTakesAccepted, Accepting, Blocking, Deleted, At, NoRequest

LEMMA StutterPaired == Paired /\ UNCHANGED vars => Paired'
  BY DEF vars, tables, Paired, FriendsMutual, AcceptedAreFriends, FriendsHaveRequest, DeletesBoth,
         AcceptSeesBoth, BlockFollows, BlockTakesAccepted, Accepting, Blocking, Deleted, At,
         Friendship, Id

LEMMA StepPaired == ASSUME Typed, Locked, Paired, NEW p \in Procs, Moves(p) PROVE Paired'
  BY StepFriendsMutual, StepAcceptedAreFriends, StepFriendsHaveRequest, StepDeletesBoth,
     StepAcceptSeesBoth, StepBlockFollows, StepBlockTakesAccepted DEF Paired

LEMMA AlwaysPaired == Spec => []Paired
  <1>1. Typed /\ Locked /\ Paired /\ [Next]_vars => Paired'
    BY NextMoves, StepPaired, StutterPaired
  <1> QED
    BY InitPaired, <1>1, AlwaysLocked, PTL DEF Spec

(* Friendship is mutual in every committed state, however many acceptances  *)
(* and blocks of a pair overlap, and wherever they are aborted.             *)
THEOREM MutualFriends == Spec => []FriendsMutual
  BY AlwaysPaired, PTL DEF Paired

(* An accepted request stands for a friendship: a block that deletes the    *)
(* rows commits after the acceptance and moves its request on as well.      *)
THEOREM AcceptedStand == Spec => []AcceptedAreFriends
  BY AlwaysPaired, PTL DEF Paired

-----------------------------------------------------------------------------
(* One handler at a time: what its statements have read still holds.        *)

Serial == \A p, q \in Procs : p = q

ReadsHold ==
  \A p \in Procs :
    /\ pc[p] \in {"pendingFrom", "isBlocked", "insertRequest", "checkIndex"}
         => ~PendingFrom(Me(p), Peer(p))
    /\ pc[p] \in {"isBlocked", "insertRequest", "checkIndex"} => ~PendingFrom(Peer(p), Me(p))
    /\ pc[p] \in {"insertRequest", "checkIndex"} => ~IsBlocked(Peer(p), Me(p))

(* A block has seen every friendship row and every request of its pair.     *)
BlockSees ==
  \A p \in Procs :
    /\ tx[p].blocked \subseteq {<<Me(p), Peer(p)>>}
    /\ tx[p].blocked # {} => Blocking(p)
    /\ Blocking(p) /\ ~At(p, "deleteFriends")
         => Both(Me(p), Peer(p)) \cap friends \subseteq tx[p].removed \cup todo[p].pairs
    /\ Deleted(p) => RequestsOf(Me(p), Peer(p)) \subseteq tx[p].rows \cup todo[p].rows

Separated ==
  ReadsHold /\ BlockSees /\ BlockSeparates /\ BlockClosesRequests /\ CreatedHasRow

LEMMA StepReadsHold ==
  ASSUME Serial, Typed, Separated, NEW p \in Procs, Moves(p) PROVE ReadsHold'
  <1> SUFFICES ASSUME pc'[p] \in {"pendingFrom", "isBlocked", "insertRequest", "checkIndex"}
               PROVE  /\ ~PendingFrom(Me(p), Peer(p))'
                      /\ pc'[p] # "pendingFrom" => ~PendingFrom(Peer(p), Me(p))'
                      /\ pc'[p] \in {"insertRequest", "checkIndex"} => ~IsBlocked(Peer(p), Me(p))'
    BY DEF Serial, ReadsHold
  <1>1. pc \in [Procs -> Statements] /\ ReadsHold
    BY DEF Typed, TypeOK, Separated
  <1>2. Reads(p)
    BY <1>1 DEF Moves, Call, FirstStatement, Ends, Makes, Locks, Settles, Blocks, DeleteFriends,
                UpdateRequests, UpdatedRequests, Commit, DeleteBlock, InsertFriend, DeleteFriend,
                UpdateRequest, Answer, AnswerCommitted, Continue, GoTo, At
  <1>3. /\ UNCHANGED <<op, requests, blocks>>
        /\ pc'[p] = "pendingFrom" => At(p, "pendingTo") /\ ~PendingFrom(Me(p), Peer(p))
        /\ pc'[p] = "isBlocked" => At(p, "pendingFrom") /\ ~PendingFrom(Peer(p), Me(p))
        /\ pc'[p] = "insertRequest" => At(p, "isBlocked") /\ ~IsBlocked(Peer(p), Me(p))
        /\ pc'[p] = "checkIndex" => At(p, "insertRequest")
    BY <1>1, <1>2 DEF Reads, Continue, GoTo, tables
  <1>4. /\ Me(p)' = Me(p) /\ Peer(p)' = Peer(p)
        /\ PendingFrom(Me(p), Peer(p))' = PendingFrom(Me(p), Peer(p))
        /\ PendingFrom(Peer(p), Me(p))' = PendingFrom(Peer(p), Me(p))
        /\ IsBlocked(Peer(p), Me(p))' = IsBlocked(Peer(p), Me(p))
    BY <1>3 DEF Me, Peer, PendingFrom, Pending, IsBlocked, Both
  <1> QED
    BY <1>1, <1>3, <1>4 DEF ReadsHold, At

LEMMA StepCreatedHasRow ==
  ASSUME Serial, Typed, Locked, Separated, NEW p \in Procs, Moves(p) PROVE CreatedHasRow'
  <1> SUFFICES ASSUME op'[p].kind = "create", reply'[p] = "ok"
               PROVE  requests'[Id(p)'].status # "unborn"
    BY DEF Serial, CreatedHasRow
  <1>1. /\ pc \in [Procs -> Statements] /\ reply \in [Procs -> {"none", "ok", "error"}]
        /\ requests \in RequestTypes
    BY TypedHandler DEF Typed, TypeOK
  <1>2. ~Call(p)
    BY <1>1 DEF Call
  <1>3. op' = op /\ Id(p)' = Id(p)
    BY <1>2 DEF Moves, Ends, Reads, Makes, Locks, Settles, Blocks, DeleteFriends, UpdateRequests,
                UpdatedRequests, Commit, DeleteBlock, InsertFriend, DeleteFriend, UpdateRequest,
                Answer, AnswerCommitted, Continue, Id
  <1>4. CASE reply[p] = "ok" /\ requests'[Id(p)] = requests[Id(p)]
    BY <1>3, <1>4 DEF Separated, CreatedHasRow
  <1>5. CASE Makes(p)
    <2>1. Id(p) \in Ids
      BY <1>5, TypedHandler DEF Makes, At
    <2> QED
      BY <1>1, <1>3, <1>5, <2>1 DEF Makes, RequestTypes
  <1>6. CASE Settles(p)
    <2>1. Id(p) \in Ids
      BY <1>6, TypedHandler DEF Settles
    <2> QED
      BY <1>1, <1>3, <1>6, <2>1 DEF Settles, RequestTypes
  <1>7. CASE Ends(p)
    <2>1. At(p, "insertRequest") /\ \E i \in RequestsOf(Me(p), Peer(p)) : Pending(i)
      BY <1>1, <1>7 DEF Ends, Answer
    <2>2. ~PendingFrom(Me(p), Peer(p)) /\ ~PendingFrom(Peer(p), Me(p))
      BY <2>1 DEF At, Separated, ReadsHold
    <2> QED
      BY <2>1, <2>2 DEF RequestsOf, PendingFrom, Both
  <1>8. CASE Commit(p) \/ DeleteBlock(p)
    BY <1>3, <1>8 DEF Commit, DeleteBlock, At, Typed, InStatement
  <1>9. CASE \/ Reads(p) \/ Locks(p) \/ Blocks(p) \/ DeleteFriends(p) \/ UpdateRequests(p)
             \/ UpdatedRequests(p) \/ (\E f \in Pairs : InsertFriend(p, f) \/ DeleteFriend(p, f))
             \/ (\E i \in Ids : UpdateRequest(p, i))
    <2>1. reply' = reply /\ requests' = requests
      BY <1>9 DEF Reads, Locks, Blocks, DeleteFriends, UpdateRequests, UpdatedRequests, InsertFriend,
                  DeleteFriend, UpdateRequest, Continue, tables
    <2> QED
      BY <1>4, <2>1
  <1> QED
    BY <1>2, <1>5, <1>6, <1>7, <1>8, <1>9 DEF Moves

(* What a block has in view.                                                *)
LEMMA StepBlockSees ==
  ASSUME Serial, Typed, Locked, Separated, NEW p \in Procs, Moves(p) PROVE BlockSees'
  <1> SUFFICES /\ tx'[p].blocked \subseteq {<<Me(p)', Peer(p)'>>}
               /\ tx'[p].blocked # {} => Blocking(p)'
               /\ Blocking(p)' /\ pc'[p] # "deleteFriends"
                    => Both(Me(p)', Peer(p)') \cap friends' \subseteq tx'[p].removed \cup todo'[p].pairs
               /\ Deleted(p)' => RequestsOf(Me(p), Peer(p))' \subseteq tx'[p].rows \cup todo'[p].rows
    BY DEF Serial, BlockSees, At, Both
  <1>1. /\ pc \in [Procs -> Statements] /\ tx \in TxTypes /\ todo \in TodoTypes
        /\ BlockSees /\ Holds(p)
    BY TypedHandler DEF Typed, TypeOK, Separated, Locked
  <1>2. CASE Ends(p) \/ Makes(p) \/ Settles(p) \/ Commit(p) \/ DeleteBlock(p)
    <2>1. tx'[p] = NoTx /\ pc'[p] = "idle"
      BY <1>1, <1>2 DEF Ends, Makes, Settles, Commit, DeleteBlock, Answer, AnswerCommitted, GoTo, TxTypes
    <2> QED
      BY <2>1 DEF NoTx, Blocking, Deleted
  <1>3. CASE \/ Call(p) \/ Reads(p) \/ Locks(p) \/ \E f \in Pairs : InsertFriend(p, f)
    <2>1. ~Blocking(p) /\ tx'[p].blocked = tx[p].blocked
      BY <1>1, <1>3 DEF Call, Reads, Creating, Locks, InsertFriend, At, Blocking, TxTypes
    <2>2. ~Blocking(p)' /\ ~Deleted(p)'
      BY <1>1, <1>3 DEF Call, FirstStatement, Reads, Creating, Locks, InsertFriend, Continue, GoTo, At,
                        Typed, InStatement, Blocking, Deleted
    <2> QED
      BY <1>1, <2>1, <2>2 DEF BlockSees
  <1>4. CASE Blocks(p)
    <2>1. tx[p].blocked = {}
      BY <1>1, <1>4 DEF Blocks, At, BlockSees, Blocking
    <2>2. /\ pc'[p] = "deleteFriends" /\ op' = op /\ op[p].kind = "block"
          /\ tx'[p].blocked \subseteq {<<Me(p), Peer(p)>>}
      BY <1>1, <1>4, <2>1 DEF Blocks, Continue, GoTo, At, TxTypes, Typed, InStatement
    <2> QED
      BY <2>2 DEF Blocking, Deleted, Me, Peer
  <1>5. ASSUME UNCHANGED <<requests, friends, op>>, tx'[p].blocked = tx[p].blocked,
               Blocking(p), Blocking(p)', pc'[p] # "deleteFriends",
               Both(Me(p), Peer(p)) \cap friends \subseteq tx'[p].removed \cup todo'[p].pairs,
               Deleted(p)' => RequestsOf(Me(p), Peer(p)) \subseteq tx'[p].rows \cup todo'[p].rows
        PROVE  /\ tx'[p].blocked \subseteq {<<Me(p)', Peer(p)'>>}
               /\ tx'[p].blocked # {} => Blocking(p)'
               /\ Blocking(p)' /\ pc'[p] # "deleteFriends"
                    => Both(Me(p)', Peer(p)') \cap friends' \subseteq tx'[p].removed \cup todo'[p].pairs
               /\ Deleted(p)' => RequestsOf(Me(p), Peer(p))' \subseteq tx'[p].rows \cup todo'[p].rows
    BY <1>1, <1>5 DEF BlockSees, Me, Peer, RequestsOf, Live
  <1>6. CASE DeleteFriends(p)
    <2>1. /\ UNCHANGED <<requests, friends, op, tx>> /\ pc'[p] = "deletingFriends" /\ op[p].kind = "block"
          /\ pc[p] = "deleteFriends" /\ todo'[p].pairs = Both(Me(p), Peer(p)) \cap friends
      BY <1>1, <1>6 DEF DeleteFriends, Continue, GoTo, At, TodoTypes, Typed, InStatement, tables
    <2> QED
      BY <1>5, <2>1 DEF Blocking, Deleted
  <1>7. ASSUME NEW f \in Pairs, DeleteFriend(p, f)
        PROVE  /\ UNCHANGED <<requests, friends, op>> /\ tx'[p].blocked = tx[p].blocked
               /\ Blocking(p) /\ Blocking(p)' /\ pc'[p] # "deleteFriends" /\ ~Deleted(p)'
               /\ Both(Me(p), Peer(p)) \cap friends \subseteq tx'[p].removed \cup todo'[p].pairs
    <2>1. /\ UNCHANGED <<requests, friends, op, pc>> /\ pc[p] = "deletingFriends" /\ op[p].kind = "block"
          /\ tx'[p].removed = tx[p].removed \cup {f} /\ todo'[p].pairs = todo[p].pairs \ {f}
          /\ tx'[p].blocked = tx[p].blocked
      BY <1>1, <1>7 DEF DeleteFriend, At, TxTypes, TodoTypes, Typed, InStatement, tables
    <2>2. Both(Me(p), Peer(p)) \cap friends \subseteq tx[p].removed \cup todo[p].pairs
      BY <1>1, <2>1 DEF BlockSees, Blocking, At
    <2> QED
      BY <2>1, <2>2 DEF Blocking, Deleted
  <1>8. CASE UpdateRequests(p) \/ UpdatedRequests(p)
    <2>1. /\ UNCHANGED <<requests, friends, op, tx>> /\ todo'[p].pairs = todo[p].pairs
          /\ pc[p] \in {"deletingFriends", "updatingRequests"}
          /\ pc'[p] \in {"updatingRequests", "commit"} /\ op[p].kind = "block"
          /\ \/ todo'[p].rows = RequestsOf(Me(p), Peer(p))
             \/ todo'[p].rows = todo[p].rows /\ pc[p] = "updatingRequests"
      BY <1>1, <1>8 DEF UpdateRequests, UpdatedRequests, Continue, GoTo, At, TodoTypes, Typed,
                        InStatement, tables
    <2>2. Both(Me(p), Peer(p)) \cap friends \subseteq tx[p].removed \cup todo[p].pairs
      BY <1>1, <2>1 DEF BlockSees, Blocking, At
    <2>3. RequestsOf(Me(p), Peer(p)) \subseteq tx'[p].rows \cup todo'[p].rows
      BY <1>1, <2>1 DEF BlockSees, Deleted
    <2> QED
      BY <1>5, <2>1, <2>2, <2>3 DEF Blocking
  <1>9. ASSUME NEW i \in Ids, UpdateRequest(p, i)
        PROVE  /\ UNCHANGED <<requests, friends, op>> /\ tx'[p].blocked = tx[p].blocked
               /\ Blocking(p) /\ Blocking(p)' /\ pc'[p] # "deleteFriends"
               /\ Both(Me(p), Peer(p)) \cap friends \subseteq tx'[p].removed \cup todo'[p].pairs
               /\ RequestsOf(Me(p), Peer(p)) \subseteq tx'[p].rows \cup todo'[p].rows
    <2>1. /\ UNCHANGED <<requests, friends, op, pc>> /\ pc[p] = "updatingRequests" /\ op[p].kind = "block"
          /\ tx'[p].removed = tx[p].removed /\ todo'[p].pairs = todo[p].pairs
          /\ tx'[p].blocked = tx[p].blocked
          /\ todo'[p].rows = todo[p].rows \ {i}
          /\ IF Live(i) THEN tx'[p].rows = tx[p].rows \cup {i} ELSE tx'[p].rows = tx[p].rows
      BY <1>1, <1>9 DEF UpdateRequest, At, TxTypes, TodoTypes, Typed, InStatement, tables
    <2>2. Both(Me(p), Peer(p)) \cap friends \subseteq tx[p].removed \cup todo[p].pairs
      BY <1>1, <2>1 DEF BlockSees, Blocking, At
    <2>3. RequestsOf(Me(p), Peer(p)) \subseteq tx[p].rows \cup todo[p].rows
      BY <1>1, <2>1 DEF BlockSees, Deleted
    <2>4. i \in RequestsOf(Me(p), Peer(p)) => Live(i)
      BY DEF RequestsOf
    <2> QED
      BY <2>1, <2>2, <2>3, <2>4 DEF Blocking
  <1> QED
    BY <1>2, <1>3, <1>4, <1>5, <1>6, <1>7, <1>8, <1>9 DEF Moves

LEMMA BlocksChange ==
  ASSUME NEW p \in Procs, Moves(p), blocks' # blocks PROVE Commit(p) \/ DeleteBlock(p)
  BY DEF Moves, Call, Ends, Reads, Makes, Locks, Settles, Blocks, DeleteFriends, UpdateRequests,
         UpdatedRequests, InsertFriend, DeleteFriend, UpdateRequest, tables

(* What a COMMIT makes of the blocks, and what it has seen of their pair.   *)
LEMMA CommitBlocks ==
  ASSUME Typed, Locked, Separated, NEW p \in Procs, Commit(p)
  PROVE  /\ Accepting(p) => blocks' = blocks
         /\ Blocking(p) => /\ blocks' \subseteq blocks \cup {<<Me(p), Peer(p)>>}
                           /\ Both(Me(p), Peer(p)) \cap friends \subseteq tx[p].removed
                           /\ RequestsOf(Me(p), Peer(p)) \subseteq tx[p].rows
                           /\ op[p].kind # "accept"
  <1>1. /\ Holds(p) /\ pc[p] = "commit" /\ blocks' = blocks \cup tx[p].blocked
        /\ todo[p].pairs = {} /\ todo[p].rows = {}
    BY DEF Commit, Locked, Holds, CommitsDone, At
  <1>2. Accepting(p) => tx[p].blocked = {}
    BY <1>1 DEF Holds, AcceptHolds
  <1>3. Blocking(p) => Deleted(p) /\ ~At(p, "deleteFriends") /\ op[p].kind = "block"
    BY <1>1 DEF Blocking, Deleted, At
  <1> QED
    BY <1>1, <1>2, <1>3 DEF Separated, BlockSees

LEMMA StepBlockSeparates ==
  ASSUME Typed, Locked, Paired, Separated, NEW p \in Procs, Moves(p) PROVE BlockSeparates'
  <1>1. BlockSeparates /\ BlockClosesRequests /\ blocks \subseteq Pairs
    BY DEF Separated, Typed, TypeOK
  <1>2. CASE friends' = friends /\ blocks' \subseteq blocks
    BY <1>1, <1>2 DEF BlockSeparates
  <1>3. CASE Commit(p) /\ Accepting(p)
    <2>1. blocks' = blocks /\ friends' = friends \cup Friendship(p) /\ Pending(Id(p)) /\ Id(p) \in Ids
      BY <1>3, CommitFriends, CommitBlocks DEF Locked, Holds, AcceptHolds
    <2>2. Friendship(p) \cap blocks = {}
      BY <1>1, <2>1 DEF BlockClosesRequests, Friendship
    <2>3. ASSUME NEW b \in blocks PROVE Both(b[1], b[2]) \cap Friendship(p) = {}
      <3>1. b = <<b[1], b[2]>>
        BY <1>1, SwapPairs
      <3> QED
        BY <2>2, <3>1, SharedRow DEF Friendship
    <2> QED
      BY <1>1, <2>1, <2>3 DEF BlockSeparates
  <1>4. CASE Commit(p) /\ Blocking(p)
    <2>1. /\ friends' = friends \ tx[p].removed
          /\ blocks' \subseteq blocks \cup {<<Me(p), Peer(p)>>}
          /\ Both(Me(p), Peer(p)) \cap friends \subseteq tx[p].removed
      BY <1>4, CommitFriends, CommitBlocks
    <2>2. ASSUME NEW b \in blocks' PROVE Both(b[1], b[2]) \cap friends' = {}
      <3>1. CASE b \in blocks
        BY <1>1, <2>1, <3>1 DEF BlockSeparates
      <3>2. CASE b = <<Me(p), Peer(p)>>
        BY <2>1, <3>2
      <3> QED
        BY <2>1, <3>1, <3>2
    <2> QED
      BY <2>2 DEF BlockSeparates
  <1>5. DeleteBlock(p) => blocks' \subseteq blocks /\ friends' = friends
    BY DEF DeleteBlock
  <1> QED
    BY <1>2, <1>3, <1>4, <1>5, FriendsChange, BlocksChange, CommitFriends

LEMMA StepBlockClosesRequests ==
  ASSUME Typed, Locked, Paired, Separated, NEW p \in Procs, Moves(p) PROVE BlockClosesRequests'
  <1>1. BlockClosesRequests /\ ReadsHold
    BY DEF Separated
  <1> SUFFICES ASSUME NEW i \in Ids, Pending(i)'
               PROVE  Both(requests'[i].from, requests'[i].to) \cap blocks' = {}
    BY DEF BlockClosesRequests, Both
  <1>2. CASE Makes(p) /\ i = Id(p) /\ requests'[i] = [from |-> Me(p), to |-> Peer(p), status |-> "pending"]
    <2>1. ~IsBlocked(Peer(p), Me(p)) /\ blocks' = blocks
      BY <1>1, <1>2 DEF Makes, At, ReadsHold
    <2> QED
      BY <1>2, <2>1 DEF IsBlocked, Both
  <1>3. CASE requests'[i] = requests[i]
    <2>1. Pending(i) /\ Both(requests[i].from, requests[i].to) \cap blocks = {}
      BY <1>1, <1>3 DEF BlockClosesRequests, Pending
    <2>2. CASE blocks' \subseteq blocks
      BY <1>3, <2>1, <2>2
    <2>3. CASE Commit(p) /\ Blocking(p)
      <3>1. i \notin tx[p].rows
        BY <1>3, <2>1, <2>3, CommitBlocks DEF Commit, Pending, Typed, TypeOK
      <3>2. <<requests[i].from, requests[i].to>> \notin Both(Me(p), Peer(p))
        BY <2>1, <2>3, <3>1, CommitBlocks DEF RequestsOf, Live, Pending
      <3> QED
        BY <1>3, <2>1, <2>3, <3>2, CommitBlocks DEF Both
    <2>4. DeleteBlock(p) => blocks' \subseteq blocks
      BY DEF DeleteBlock
    <2> QED
      BY <2>2, <2>3, <2>4, BlocksChange, CommitBlocks, CommitFriends
  <1> QED
    BY <1>2, <1>3, RequestsChange DEF Pending

LEMMA InitSeparated == Init => Separated
  BY DEF Init, Separated, ReadsHold, BlockSees, BlockSeparates, BlockClosesRequests, CreatedHasRow,
         Blocking, Deleted, At, NoTx

LEMMA StutterSeparated == Separated /\ UNCHANGED vars => Separated'
  BY DEF vars, tables, Separated, ReadsHold, BlockSees, BlockSeparates, BlockClosesRequests,
         CreatedHasRow, Blocking, Deleted, At, PendingFrom, Pending, IsBlocked, RequestsOf, Live,
         Me, Peer, Id

LEMMA AlwaysSeparated == ASSUME Serial PROVE Spec => []Separated
  <1>1. ASSUME Typed, Locked, Paired, Separated, NEW p \in Procs, Moves(p) PROVE Separated'
    BY <1>1, StepReadsHold, StepBlockSees, StepBlockSeparates, StepBlockClosesRequests,
       StepCreatedHasRow DEF Separated
  <1>2. Typed /\ Locked /\ Paired /\ Separated /\ [Next]_vars => Separated'
    BY <1>1, NextMoves, StutterSeparated
  <1> QED
    BY InitSeparated, <1>2, AlwaysLocked, AlwaysPaired, PTL DEF Spec

(* Handlers that do not overlap keep a block from being undone: no pending  *)
(* request of the pair outlives it or is made before the unblock.  (RelBlocked *)
(* shows what two overlapping handlers do to BlockSeparates.)               *)
THEOREM SerialBlocks == ASSUME Serial PROVE Spec => []BlockClosesRequests
  BY AlwaysSeparated, PTL DEF Separated

(* And the friendship is gone until then, which overlapping handlers break. *)
THEOREM SerialSeparates == ASSUME Serial PROVE Spec => []BlockSeparates
  BY AlwaysSeparated, PTL DEF Separated

(* A create that is answered 201 while no other handler runs has made its   *)
(* request.                                                                 *)
THEOREM SerialCreates == ASSUME Serial PROVE Spec => []CreatedHasRow
  BY AlwaysSeparated, PTL DEF Separated

=============================================================================
