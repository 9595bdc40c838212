----------------------------- MODULE ChatProofs ------------------------------
(***************************************************************************)
(* Theorems of Chat, for every set of users and handlers and every bound:   *)
(* CreateMessage stores only what was allowed at some moment of the call,   *)
(* and implements what the hub relies on.  For these two nothing is assumed *)
(* of the handlers' steps: they may change the tables in any way.  The last *)
(* part takes the theorems of Relationships over to Chat, and with them     *)
(* shows that a request stands behind each stored message.                  *)
(***************************************************************************)
EXTENDS Chat, RelationshipsProofs, SequenceTheorems

Row == [from : Users, to : Users, seen : SUBSET {"open", "friends"}]

SendTyped ==
  /\ send \in [at : {"none", "isBlocked", "areFriends", "insertMessage"},
               from : Somebody, to : Somebody]
  /\ send.at # "none" => send.from \in Users /\ send.to \in Users
  /\ seen \subseteq {"open", "friends"}
  /\ messages \in Seq(Row)
  /\ confirmed \subseteq DOMAIN messages

(* The history of a running call holds what the tables show now, and each   *)
(* check that was passed is in it.                                          *)
Witnessed ==
  send.at # "none" =>
    /\ Both(send.from, send.to) \cap blocks = {} => "open" \in seen
    /\ "open" \in seen /\ <<send.from, send.to>> \in friends => "friends" \in seen
    /\ send.at = "areFriends" => "open" \in seen
    /\ send.at = "insertMessage" => "friends" \in seen

(* The inductive invariant.                                                 *)
SendInv == SendTyped /\ Witnessed /\ StoredWasAllowed

(* A moment keeps the history and adds what holds at it.                     *)
LEMMA MomentAdds ==
  ASSUME NEW s, NEW before \in SUBSET {"open", "friends"}, NEW B, NEW F
  PROVE  LET m == Moment(s, before, B, F)
         IN  /\ m \subseteq {"open", "friends"} /\ before \subseteq m
             /\ Both(s.from, s.to) \cap B = {} => "open" \in m
             /\ "open" \in m /\ <<s.from, s.to>> \in F => "friends" \in m
  BY DEF Moment

(* Before the first call nothing is stored.                                  *)
LEMMA InitSendInv == ChatInit => SendInv
  BY DEF ChatInit, SendInv, SendTyped, Witnessed, StoredWasAllowed, NoSend, Somebody

(* A step of the call, while no table changes.                               *)
LEMMA SendStepInv ==
  ASSUME SendInv, SendStep, UNCHANGED vars
  PROVE  SendInv'
  <1>1. blocks' = blocks /\ friends' = friends
    BY DEF vars, tables
  <1>2. CASE BeginSend
    <2>1. PICK a \in Users, b \in Users : send' = [at |-> "isBlocked", from |-> a, to |-> b]
      BY <1>2 DEF BeginSend
    <2>2. /\ messages' = messages /\ confirmed' = confirmed
          /\ seen' = Moment(send', {}, blocks, friends)
      BY <1>2 DEF BeginSend
    <2>3. /\ send'.at = "isBlocked" /\ send'.from \in Users /\ send'.to \in Users
          /\ send' \in [at : {"isBlocked"}, from : Somebody, to : Somebody]
      BY <2>1 DEF Somebody
    <2> QED
      BY <1>1, <2>2, <2>3, MomentAdds DEF SendInv, SendTyped, Witnessed, StoredWasAllowed
  <1>3. ASSUME UNCHANGED <<messages, confirmed, seen>>, NEW stmt, SendTo(stmt), send.at # "none",
               \/ stmt = "areFriends" /\ ~IsBlocked(send.from, send.to)
               \/ stmt = "insertMessage" /\ send.at = "areFriends" /\ AreFriends(send.from, send.to)
        PROVE  SendInv'
    <2>1. /\ send'.from = send.from /\ send'.to = send.to /\ send'.at = stmt
          /\ send' \in [at : {stmt}, from : Somebody, to : Somebody]
      BY <1>3 DEF SendTo, SendInv, SendTyped
    <2> QED
      BY <1>1, <1>3, <2>1
         DEF SendInv, SendTyped, Witnessed, StoredWasAllowed, IsBlocked, AreFriends
  <1>4. ASSUME EndSend,
               \/ messages' = messages /\ confirmed' = confirmed
               \/ /\ send.at = "insertMessage" /\ messages' = Stored
                  /\ confirmed' \in {confirmed, confirmed \cup {Len(messages')}}
        PROVE  SendInv'
    <2>1. /\ send' = NoSend /\ seen' = {} /\ NoSend.at = "none"
          /\ NoSend \in [at : {"none"}, from : Somebody, to : Somebody]
      BY <1>4 DEF EndSend, NoSend, Somebody
    <2>2. CASE messages' = messages /\ confirmed' = confirmed
      BY <2>1, <2>2 DEF SendInv, SendTyped, Witnessed, StoredWasAllowed
    <2>3. CASE /\ send.at = "insertMessage" /\ messages' = Stored
               /\ confirmed' \in {confirmed, confirmed \cup {Len(messages')}}
      <3> DEFINE row == [from |-> send.from, to |-> send.to, seen |-> seen]
      <3>1. row \in Row /\ "friends" \in row.seen /\ messages \in Seq(Row)
        BY <2>3 DEF SendInv, SendTyped, Witnessed, Row
      <3>2. messages' = Append(messages, row)
        BY <2>3 DEF Stored
      <3> HIDE DEF row
      <3>3. /\ messages' \in Seq(Row) /\ Len(messages) \in Nat
            /\ Len(messages') = Len(messages) + 1
            /\ DOMAIN messages = 1 .. Len(messages)
            /\ DOMAIN messages' = 1 .. Len(messages) + 1
            /\ \A n \in 1 .. Len(messages) : messages'[n] = messages[n]
            /\ messages'[Len(messages) + 1] = row
        BY <3>1, <3>2, AppendProperties
      <3>4. confirmed' \subseteq DOMAIN messages'
        BY <2>3, <3>3 DEF SendInv, SendTyped
      <3>5. ASSUME NEW n \in DOMAIN messages'
            PROVE  "friends" \in messages'[n].seen
        BY <3>1, <3>3 DEF SendInv, StoredWasAllowed
      <3> QED
        BY <2>1, <3>3, <3>4, <3>5 DEF SendInv, SendTyped, Witnessed, StoredWasAllowed
    <2> QED
      BY <1>4, <2>2, <2>3
  <1>5. CASE SendCheckBlocked
    BY <1>3, <1>4, <1>5 DEF SendCheckBlocked
  <1>6. CASE SendCheckFriends
    BY <1>3, <1>4, <1>6 DEF SendCheckFriends
  <1>7. CASE InsertMessage
    BY <1>4, <1>7 DEF InsertMessage
  <1>8. CASE SendError
    BY <1>4, <1>8 DEF SendError
  <1> QED
    BY <1>2, <1>5, <1>6, <1>7, <1>8 DEF SendStep

(* Every step keeps the invariant: whatever a handler does to the tables is  *)
(* observed by the call.                                                     *)
LEMMA NextSendInv == SendInv /\ [ChatNext]_<<vars, chatVars>> => SendInv'
  <1>1. SUFFICES ASSUME SendInv, [ChatNext]_<<vars, chatVars>> PROVE SendInv'
    OBVIOUS
  <1>2. CASE HandlerStep
    <2>1. /\ send' = send /\ messages' = messages /\ confirmed' = confirmed
          /\ seen' = IF send.at = "none" THEN {} ELSE Moment(send, seen, blocks', friends')
      BY <1>2 DEF HandlerStep
    <2>2. CASE send.at = "none"
      BY <1>1, <2>1, <2>2 DEF SendInv, SendTyped, Witnessed, StoredWasAllowed
    <2>3. CASE send.at # "none"
      <3>1. seen \in SUBSET {"open", "friends"} /\ seen' = Moment(send, seen, blocks', friends')
        BY <1>1, <2>1, <2>3 DEF SendInv, SendTyped
      <3> QED
        BY <1>1, <2>1, <2>3, <3>1, MomentAdds
           DEF SendInv, SendTyped, Witnessed, StoredWasAllowed
    <2> QED
      BY <2>2, <2>3
  <1>3. CASE SendStep /\ UNCHANGED vars
    BY <1>1, <1>3, SendStepInv
  <1>4. CASE UNCHANGED <<vars, chatVars>>
    BY <1>1, <1>4 DEF vars, tables, chatVars, SendInv, SendTyped, Witnessed, StoredWasAllowed
  <1> QED
    BY <1>1, <1>2, <1>3, <1>4 DEF ChatNext

(* A stored message was, during its call, allowed: after a moment without a *)
(* block came one of friendship, whatever handlers commit between the two   *)
(* checks and the INSERT.                                                   *)
THEOREM StoredAllowed == ChatSpec => []StoredWasAllowed
  <1>1. SendInv => StoredWasAllowed
    BY DEF SendInv
  <1> QED
    BY InitSendInv, NextSendInv, <1>1, PTL DEF ChatSpec

-----------------------------------------------------------------------------
(* The messages of a table, one for each row.                               *)
LEMMA PairsTyped ==
  ASSUME NEW s \in Seq(Row)
  PROVE  /\ PairsOf(s) \in Seq(Pairs) /\ Len(PairsOf(s)) = Len(s)
         /\ \A k \in 1 .. Len(s) : PairsOf(s)[k] = <<s[k].from, s[k].to>>
  <1>1. Len(s) \in Nat /\ DOMAIN s = 1 .. Len(s) /\ s \in [1 .. Len(s) -> Row]
    BY LenProperties
  <1>2. ASSUME NEW k \in 1 .. Len(s)
        PROVE  <<s[k].from, s[k].to>> \in Pairs
    <2>1. s[k] \in Row
      BY <1>1
    <2> QED
      BY <2>1 DEF Row, Pairs
  <1>3. PairsOf(s) \in [1 .. Len(s) -> Pairs]
    BY <1>1, <1>2 DEF PairsOf
  <1>4. PairsOf(s) \in Seq(Pairs)
    <2>1. Seq(Pairs) = UNION {[1 .. n -> Pairs] : n \in Nat}
      BY SeqDef, Zenon
    <2> QED
      BY <1>1, <1>3, <2>1, Zenon
  <1>5. Len(PairsOf(s)) \in Nat /\ 1 .. Len(PairsOf(s)) = 1 .. Len(s)
    BY <1>3, <1>4, LenProperties
  <1>6. Len(PairsOf(s)) = Len(s)
    BY <1>1, <1>5, SMT
  <1> QED
    BY <1>1, <1>4, <1>6 DEF PairsOf

(* A row more in the table is a message more.                                *)
LEMMA StoredAppends ==
  ASSUME SendInv, send.at # "none", messages' = Stored
  PROVE  /\ PairsOf(messages') = PairsOf(messages) \o <<<<send.from, send.to>>>>
         /\ Len(PairsOf(messages')) = Len(messages')
  <1> DEFINE row == [from |-> send.from, to |-> send.to, seen |-> seen]
             pair == <<send.from, send.to>>
  <1>1. row \in Row /\ messages \in Seq(Row) /\ <<row.from, row.to>> = pair /\ pair \in Pairs
    BY DEF SendInv, SendTyped, Row, Pairs
  <1>2. messages' = Append(messages, row)
    BY DEF Stored
  <1> HIDE DEF row, pair
  <1>3. /\ messages' \in Seq(Row) /\ Len(messages) \in Nat
        /\ Len(messages') = Len(messages) + 1
        /\ \A n \in 1 .. Len(messages) : messages'[n] = messages[n]
        /\ messages'[Len(messages) + 1] = row
    BY <1>1, <1>2, AppendProperties
  <1>4. /\ PairsOf(messages) \in Seq(Pairs) /\ Len(PairsOf(messages)) = Len(messages)
        /\ \A k \in 1 .. Len(messages) : PairsOf(messages)[k] = <<messages[k].from, messages[k].to>>
    BY <1>1, PairsTyped
  <1>5. /\ PairsOf(messages') \in Seq(Pairs) /\ Len(PairsOf(messages')) = Len(messages')
        /\ \A k \in 1 .. Len(messages') :
             PairsOf(messages')[k] = <<messages'[k].from, messages'[k].to>>
    BY <1>3, PairsTyped
  <1> DEFINE more == PairsOf(messages) \o <<pair>>
  <1>6. /\ more \in Seq(Pairs) /\ Len(more) = Len(messages) + 1
        /\ \A k \in 1 .. Len(messages) + 1 :
             more[k] = IF k <= Len(messages) THEN PairsOf(messages)[k] ELSE pair
    BY <1>1, <1>3, <1>4
  <1> HIDE DEF more
  <1>7. ASSUME NEW k \in 1 .. Len(messages) + 1
        PROVE  PairsOf(messages')[k] = more[k]
    <2>1. CASE k \in 1 .. Len(messages)
      <3>1. k \in 1 .. Len(messages') /\ k <= Len(messages) /\ messages'[k] = messages[k]
        BY <2>1, <1>3
      <3>2. PairsOf(messages')[k] = <<messages[k].from, messages[k].to>>
        BY <3>1, <1>5
      <3>3. more[k] = PairsOf(messages)[k]
        BY <3>1, <1>6
      <3> QED
        BY <2>1, <3>2, <3>3, <1>4
    <2>2. CASE k = Len(messages) + 1
      <3>1. more[k] = pair
        BY <2>2, <1>3, <1>6
      <3>2. PairsOf(messages')[k] = <<row.from, row.to>>
        BY <2>2, <1>3, <1>5
      <3> QED
        BY <1>1, <3>1, <3>2
    <2>3. k \in 1 .. Len(messages) \/ k = Len(messages) + 1
      BY <1>3, SMT
    <2> QED
      BY <2>1, <2>2, <2>3
  <1>8. PairsOf(messages') = more
    BY <1>3, <1>5, <1>6, <1>7, SeqEqual
  <1> QED
    BY <1>5, <1>8 DEF more, pair

(* Each step of a call is a step of Persist or none; a handler's is none.    *)
LEMMA CallSimulation ==
  SendInv /\ [ChatNext]_<<vars, chatVars>> => [Persisted!Next]_Persisted!vars
  <1>1. SUFFICES ASSUME SendInv, [ChatNext]_<<vars, chatVars>>
                 PROVE  [Persisted!Next]_Persisted!vars
    OBVIOUS
  <1> USE DEF Persisted!vars, Persisted!Next
  <1>2. CASE UNCHANGED <<send, messages, confirmed>>
    BY <1>2
  <1>3. CASE BeginSend
    <2>1. PICK a \in Users, b \in Users : send' = [at |-> "isBlocked", from |-> a, to |-> b]
      BY <1>3 DEF BeginSend
    <2>2. /\ send.at = "none" /\ send'.at # "none" /\ <<send'.from, send'.to>> \in Pairs
          /\ messages' = messages /\ confirmed' = confirmed
      BY <1>3, <2>1 DEF BeginSend, Pairs
    <2> QED
      BY <2>2 DEF Persisted!Begin
  <1>4. ASSUME NEW stmt, SendTo(stmt), send.at # "none", stmt # "none",
               UNCHANGED <<messages, confirmed>>
        PROVE  UNCHANGED Persisted!vars
    <2>1. send'.from = send.from /\ send'.to = send.to /\ send'.at # "none"
      BY <1>1, <1>4 DEF SendTo, SendInv, Witnessed, SendTyped
    <2> QED
      BY <1>4, <2>1
  <1>5. ASSUME EndSend, send.at # "none", confirmed' = confirmed,
               messages' = messages \/ messages' = Stored
        PROVE  Persisted!Fail
    <2>1. send'.at = "none"
      BY <1>5 DEF EndSend, NoSend
    <2> QED
      BY <1>1, <1>5, <2>1, StoredAppends DEF Persisted!Fail
  <1>6. CASE SendCheckBlocked
    BY <1>4, <1>5, <1>6 DEF SendCheckBlocked
  <1>7. CASE SendCheckFriends
    BY <1>4, <1>5, <1>7 DEF SendCheckFriends
  <1>8. CASE InsertMessage
    <2>1. /\ send.at # "none" /\ send'.at = "none" /\ messages' = Stored
          /\ confirmed' = confirmed \cup {Len(messages')}
      BY <1>8 DEF InsertMessage, EndSend, NoSend
    <2> QED
      BY <1>1, <2>1, StoredAppends DEF Persisted!Succeed
  <1>9. CASE SendError
    BY <1>5, <1>9 DEF SendError
  <1>10. CASE HandlerStep
    BY <1>2, <1>10 DEF HandlerStep
  <1>11. CASE UNCHANGED <<vars, chatVars>>
    BY <1>2, <1>11 DEF chatVars
  <1> QED
    BY <1>1, <1>3, <1>4, <1>5, <1>6, <1>7, <1>8, <1>9, <1>10, <1>11 DEF ChatNext, SendStep

(* CreateMessage implements Persist, what the hub relies on: it stores its  *)
(* own message or nothing, once, and returns without an error only if it    *)
(* has stored it.                                                           *)
THEOREM CallPersists == ChatSpec => PersistSpec
  <1>1. ChatInit => Persisted!Init
    BY DEF ChatInit, NoSend, Persisted!Init, PairsOf
  <1> QED
    BY InitSendInv, NextSendInv, CallSimulation, <1>1, PTL
       DEF ChatSpec, PersistSpec, Persisted!Spec

-----------------------------------------------------------------------------
(* The hub's calls leave the tables of the handlers alone.                  *)
THEOREM ChatImplements == ChatSpec => Spec
  <1>1. ChatInit => Init
    BY DEF ChatInit
  <1>2. [ChatNext]_<<vars, chatVars>> => [Next]_vars
    BY DEF ChatNext, HandlerStep
  <1> QED
    BY <1>1, <1>2, PTL DEF ChatSpec, Spec

(* A call stores at most one row.                                           *)
CallsCounted ==
  /\ sent \in 0 .. MaxSends
  /\ Len(messages) + (IF send.at = "none" THEN 0 ELSE 1) <= sent

LEMMA InitCounted == ChatInit => CallsCounted
  BY ChatAssumption DEF ChatInit, CallsCounted, NoSend

LEMMA StepCounted == SendInv /\ CallsCounted /\ [ChatNext]_<<vars, chatVars>> => CallsCounted'
  <1> SUFFICES ASSUME SendInv, CallsCounted, [ChatNext]_<<vars, chatVars>> PROVE CallsCounted'
    OBVIOUS
  <1>1. Len(messages) \in Nat /\ sent \in Nat /\ MaxSends \in Nat
    BY ChatAssumption DEF SendInv, SendTyped, CallsCounted
  <1>2. CASE UNCHANGED <<send, messages, sent>>
    BY <1>2 DEF CallsCounted
  <1>3. CASE BeginSend
    <2>1. /\ send.at = "none" /\ sent < MaxSends /\ sent' = sent + 1 /\ messages' = messages
      BY <1>3 DEF BeginSend
    <2> QED
      BY <1>1, <2>1 DEF CallsCounted
  <1>4. ASSUME send.at # "none", EndSend, sent' = sent, messages' \in {messages, Stored}
        PROVE  CallsCounted'
    <2>1. Len(messages') \in {Len(messages), Len(messages) + 1}
      <3> DEFINE row == [from |-> send.from, to |-> send.to, seen |-> seen]
      <3>1. Stored = Append(messages, row) /\ row \in Row /\ messages \in Seq(Row)
        BY <1>4 DEF Stored, SendInv, SendTyped, Row
      <3> HIDE DEF row
      <3> QED
        BY <1>4, <3>1, AppendProperties
    <2> QED
      BY <1>1, <1>4, <2>1 DEF CallsCounted, EndSend, NoSend
  <1>5. ASSUME send.at # "none", NEW stmt, stmt # "none", SendTo(stmt), UNCHANGED <<messages, sent>>
        PROVE  CallsCounted'
    <2>1. send'.at # "none"
      BY <1>5 DEF SendTo, SendInv, SendTyped
    <2> QED
      BY <1>5, <2>1 DEF CallsCounted
  <1>6. CASE SendCheckBlocked \/ SendCheckFriends
    BY <1>4, <1>5, <1>6 DEF SendCheckBlocked, SendCheckFriends
  <1>7. CASE InsertMessage \/ SendError
    BY <1>4, <1>7 DEF InsertMessage, SendError
  <1> QED
    BY <1>2, <1>3, <1>6, <1>7 DEF ChatNext, HandlerStep, SendStep, chatVars

(* The types of the whole, the rows bounded by the calls made.              *)
THEOREM ChatTypeCorrect == ChatSpec => []ChatTypeOK
  <1>1. TypeOK /\ SendInv /\ CallsCounted => ChatTypeOK
    BY ChatAssumption DEF SendInv, SendTyped, CallsCounted, ChatTypeOK, Row
  <1> QED
    BY <1>1, InitSendInv, NextSendInv, InitCounted, StepCounted, ChatImplements, TypeCorrect, PTL
       DEF ChatSpec

(* What the runs check of friendships and requests holds with the hub's     *)
(* calls in between as well.                                                *)
THEOREM ChatFriendships ==
  ChatSpec => /\ [](FriendsMutual /\ OnePending /\ AcceptedAreFriends)
              /\ AnsweredForGood /\ FriendshipByConsent
  BY ChatImplements, MutualFriends, OneRequestPending, AcceptedStand, AnswersStand, Consent, PTL

-----------------------------------------------------------------------------
(* A friendship the call has seen leaves a request behind.                  *)

RequestBetween(table, a, b) ==
  \E i \in Ids : /\ table[i].status \in {"accepted", "blocked"}
               /\ Both(table[i].from, table[i].to) = Both(a, b)

Requested ==
  /\ send.at # "none" /\ "friends" \in seen => RequestBetween(requests, send.from, send.to)
  /\ StoredHasRequest

LEMMA FriendsRequested ==
  ASSUME Paired PROVE \A a, b : <<a, b>> \in friends => RequestBetween(requests, a, b)
  <1> SUFFICES ASSUME NEW a, NEW b, <<a, b>> \in friends PROVE RequestBetween(requests, a, b)
    OBVIOUS
  <1>1. PICK i \in Ids : /\ requests[i].status \in {"accepted", "blocked"}
                        /\ <<a, b>> \in Both(requests[i].from, requests[i].to)
    BY DEF Paired, FriendsHaveRequest
  <1>2. Both(requests[i].from, requests[i].to) = Both(a, b)
    BY <1>1 DEF Both
  <1> QED
    BY <1>1, <1>2 DEF RequestBetween

(* An accepted or blocked request remains one, between the same two.        *)
LEMMA RequestStays ==
  ASSUME Typed, Locked, [Next]_vars
  PROVE  \A a, b : RequestBetween(requests, a, b) => RequestBetween(requests', a, b)
  <1> SUFFICES ASSUME NEW a, NEW b, RequestBetween(requests, a, b)
               PROVE  RequestBetween(requests', a, b)
    OBVIOUS
  <1>1. PICK i \in Ids : /\ requests[i].status \in {"accepted", "blocked"}
                        /\ Both(requests[i].from, requests[i].to) = Both(a, b)
    BY DEF RequestBetween
  <1>2. /\ requests'[i].status \in {"accepted", "blocked"}
        /\ requests'[i].from = requests[i].from /\ requests'[i].to = requests[i].to
    <2>1. ASSUME NEW p \in Procs, Moves(p)
          PROVE  /\ requests'[i].status \in {"accepted", "blocked"}
                 /\ requests'[i].from = requests[i].from /\ requests'[i].to = requests[i].to
      BY <1>1, <2>1, RequestsChange, RequestsKeepUsers DEF Pending
    <2> QED
      BY <1>1, <2>1, NextMoves DEF vars, tables
  <1> QED
    BY <1>1, <1>2 DEF RequestBetween, Both

LEMMA MomentOfFriends ==
  ASSUME NEW s, NEW before, NEW B, NEW F, "friends" \in Moment(s, before, B, F)
  PROVE  "friends" \in before \/ <<s.from, s.to>> \in F
  BY DEF Moment

LEMMA StoredRequested ==
  StoredHasRequest <=> \A n \in DOMAIN messages : RequestBetween(requests, messages[n].from, messages[n].to)
  BY DEF StoredHasRequest, RequestBetween

LEMMA StepRequested ==
  ASSUME Typed, Locked, Paired, Paired', SendInv, Requested, [ChatNext]_<<vars, chatVars>>
  PROVE  Requested'
  <1>1. [Next]_vars
    BY DEF ChatNext, HandlerStep
  <1>2. \A n \in DOMAIN messages : RequestBetween(requests', messages[n].from, messages[n].to)
    BY <1>1, RequestStays, StoredRequested DEF Requested
  <1>3. messages' = messages => StoredHasRequest'
    BY <1>2 DEF StoredHasRequest, RequestBetween
  <1>4. CASE UNCHANGED <<send, messages, seen>>
    <2>1. send.at # "none" /\ "friends" \in seen => RequestBetween(requests', send.from, send.to)
      BY <1>1, RequestStays DEF Requested
    <2> QED
      BY <1>3, <1>4, <2>1 DEF Requested, RequestBetween
  <1>5. CASE HandlerStep /\ send.at # "none"
    <2>1. send' = send /\ messages' = messages /\ seen' = Moment(send, seen, blocks', friends')
      BY <1>5 DEF HandlerStep
    <2>2. ASSUME "friends" \in seen' PROVE RequestBetween(requests', send.from, send.to)
      <3>1. CASE "friends" \in seen
        BY <1>1, <1>5, <3>1, RequestStays DEF Requested
      <3>2. CASE <<send.from, send.to>> \in friends'
        <4>1. (\A a, b : <<a, b>> \in friends => RequestBetween(requests, a, b))'
          BY FriendsRequested, PTL
        <4>2. \A a, b : <<a, b>> \in friends' => RequestBetween(requests', a, b)
          BY <4>1 DEF RequestBetween
        <4> QED
          BY <3>2, <4>2
      <3> QED
        BY <2>1, <2>2, <3>1, <3>2, MomentOfFriends
    <2> QED
      BY <1>3, <2>1, <2>2 DEF Requested, RequestBetween
  <1>6. CASE HandlerStep /\ send.at = "none"
    BY <1>3, <1>6 DEF HandlerStep, Requested
  <1>7. CASE BeginSend /\ UNCHANGED vars
    <2>1. /\ messages' = messages /\ friends' = friends /\ requests' = requests
          /\ seen' = Moment(send', {}, blocks, friends)
      BY <1>7 DEF BeginSend, vars, tables
    <2>2. "friends" \in seen' => RequestBetween(requests, send'.from, send'.to)
      BY <2>1, MomentOfFriends, FriendsRequested
    <2> QED
      BY <1>3, <2>1, <2>2 DEF Requested, RequestBetween
  <1>8. ASSUME NEW stmt, SendTo(stmt), send.at # "none", UNCHANGED <<messages, seen, vars>>
        PROVE  Requested'
    <2>1. send'.from = send.from /\ send'.to = send.to /\ requests' = requests
      BY <1>8 DEF SendTo, SendInv, SendTyped, vars, tables
    <2> QED
      BY <1>3, <1>8, <2>1 DEF Requested, RequestBetween
  <1>9. ASSUME EndSend, send.at # "none", UNCHANGED vars,
               messages' = messages \/ (send.at = "insertMessage" /\ messages' = Stored)
        PROVE  Requested'
    <2>1. send'.at = "none" /\ requests' = requests
      BY <1>9 DEF EndSend, NoSend, vars, tables
    <2>2. CASE messages' = messages
      BY <1>3, <2>1, <2>2 DEF Requested
    <2>3. CASE send.at = "insertMessage" /\ messages' = Stored
      <3> DEFINE row == [from |-> send.from, to |-> send.to, seen |-> seen]
      <3>1. row \in Row /\ row.from = send.from /\ row.to = send.to /\ messages \in Seq(Row)
        BY <2>3 DEF SendInv, SendTyped, Row
      <3>2. messages' = Append(messages, row)
        BY <2>3 DEF Stored
      <3>3. RequestBetween(requests, send.from, send.to)
        BY <2>3 DEF SendInv, Witnessed, Requested
      <3> HIDE DEF row
      <3>4. /\ Len(messages) \in Nat
            /\ DOMAIN messages = 1 .. Len(messages)
            /\ DOMAIN messages' = 1 .. Len(messages) + 1
            /\ \A n \in 1 .. Len(messages) : messages'[n] = messages[n]
            /\ messages'[Len(messages) + 1] = row
        BY <3>1, <3>2, AppendProperties
      <3>5. ASSUME NEW n \in DOMAIN messages'
            PROVE  RequestBetween(requests, messages'[n].from, messages'[n].to)
        <4>1. CASE n \in 1 .. Len(messages)
          BY <3>4, <4>1, StoredRequested DEF Requested
        <4>2. CASE n = Len(messages) + 1
          BY <3>1, <3>3, <3>4, <4>2
        <4>3. n \in 1 .. Len(messages) \/ n = Len(messages) + 1
          BY <3>4, SMT
        <4> QED
          BY <4>1, <4>2, <4>3
      <3> QED
        BY <2>1, <3>5 DEF Requested, StoredHasRequest, RequestBetween
    <2> QED
      BY <1>9, <2>2, <2>3
  <1>10. CASE (SendCheckBlocked \/ SendCheckFriends) /\ UNCHANGED vars
    BY <1>8, <1>9, <1>10 DEF SendCheckBlocked, SendCheckFriends
  <1>11. CASE (InsertMessage \/ SendError) /\ UNCHANGED vars
    BY <1>9, <1>11 DEF InsertMessage, SendError
  <1> QED
    BY <1>4, <1>5, <1>6, <1>7, <1>10, <1>11 DEF ChatNext, SendStep, chatVars

(* Behind every stored message stands a request of the two that was         *)
(* accepted, and it is never lost.                                          *)
THEOREM StoredRequest == ChatSpec => []StoredHasRequest
  <1>1. ChatInit => Requested
    BY DEF ChatInit, Requested, StoredHasRequest, NoSend
  <1>2. /\ Typed /\ Locked /\ Paired /\ Paired' /\ SendInv /\ Requested
        /\ [ChatNext]_<<vars, chatVars>>
        => Requested'
    BY StepRequested
  <1>3. Requested => StoredHasRequest
    BY DEF Requested
  <1> QED
    BY <1>1, <1>2, <1>3, InitSendInv, NextSendInv, ChatImplements, AlwaysLocked, AlwaysPaired, PTL
       DEF ChatSpec
=============================================================================
