-------------------------------- MODULE Chat ---------------------------------
(***************************************************************************)
(* MessageService.CreateMessage while handlers change friendships and       *)
(* blocks.  The hub goroutine calls it, one call at a time; it is three     *)
(* statements without a transaction around them, and the handlers of        *)
(* Relationships commit in between.                                         *)
(***************************************************************************)
EXTENDS Relationships

CONSTANT MaxSends   \* bound: calls of CreateMessage in a whole behaviour

ASSUME ChatAssumption == MaxSends \in Nat

VARIABLES
  send,      \* the call: its next statement, sender and receiver
  messages,  \* the rows of messages, in order
  sent,      \* how many calls were made
  confirmed, \* the messages whose call returned without an error
  seen       \* history of the call: "open" after a moment without a block,
             \* "friends" after a moment of friendship that followed one

chatVars == <<send, messages, sent, confirmed, seen>>

NoSend == [at |-> "none", from |-> "nobody", to |-> "nobody"]

ChatTypeOK ==
  /\ TypeOK
  /\ send \in [at : {"none", "isBlocked", "areFriends", "insertMessage"},
               from : Somebody, to : Somebody]
  /\ messages \in Seq([from : Users, to : Users, seen : SUBSET {"open", "friends"}])
  /\ Len(messages) <= MaxSends
  /\ sent \in 0 .. MaxSends
  /\ confirmed \subseteq DOMAIN messages
  /\ seen \subseteq {"open", "friends"}

ChatInit == Init /\ send = NoSend /\ messages = <<>> /\ sent = 0 /\ confirmed = {} /\ seen = {}

(* What a moment with the given tables adds to the history of a call.       *)
Moment(s, before, blocksNow, friendsNow) ==
  LET open == before \cup (IF Both(s.from, s.to) \cap blocksNow = {} THEN {"open"} ELSE {})
  IN  open \cup (IF "open" \in open /\ <<s.from, s.to>> \in friendsNow
                 THEN {"friends"} ELSE {})

-----------------------------------------------------------------------------
SendTo(stmt) == send' = [send EXCEPT !.at = stmt]

EndSend == send' = NoSend /\ seen' = {}

(* The hub took a message with a text off h.incoming.                       *)
BeginSend ==
  /\ send.at = "none" /\ sent < MaxSends
  /\ \E a, b \in Users : send' = [at |-> "isBlocked", from |-> a, to |-> b]
  /\ sent' = sent + 1
  /\ seen' = Moment(send', {}, blocks, friends)
  /\ UNCHANGED <<messages, confirmed>>

SendCheckBlocked ==
  /\ send.at = "isBlocked"
  /\ IF IsBlocked(send.from, send.to) THEN EndSend
                                      ELSE SendTo("areFriends") /\ UNCHANGED seen
  /\ UNCHANGED <<messages, sent, confirmed>>

(* Mutant: the friendship is not looked at.                                 *)
SendSkipFriends ==
  /\ send.at = "areFriends"
  /\ SendTo("insertMessage")
  /\ UNCHANGED <<messages, sent, confirmed, seen>>

SendCheckFriends ==
  /\ send.at = "areFriends"
  /\ IF AreFriends(send.from, send.to) THEN SendTo("insertMessage") /\ UNCHANGED seen
                                       ELSE EndSend
  /\ UNCHANGED <<messages, sent, confirmed>>

Stored == Append(messages, [from |-> send.from, to |-> send.to, seen |-> seen])

InsertMessage ==
  /\ send.at = "insertMessage"
  /\ messages' = Stored
  /\ confirmed' = confirmed \cup {Len(messages')}
  /\ EndSend /\ UNCHANGED sent

(* Mutant: the failed INSERT is executed again.                             *)
SendErrorRetried ==
  /\ send.at # "none"
  /\ messages' \in {messages} \cup (IF send.at = "insertMessage" THEN {Stored} ELSE {})
  /\ IF send.at = "insertMessage" THEN UNCHANGED <<send, seen>> ELSE EndSend
  /\ UNCHANGED <<sent, confirmed>>

(* A statement fails, or the five-second context ends; the INSERT may have  *)
(* been committed all the same.                                             *)
SendError ==
  /\ send.at # "none"
  /\ messages' \in {messages} \cup (IF send.at = "insertMessage" THEN {Stored} ELSE {})
  /\ EndSend /\ UNCHANGED <<sent, confirmed>>

SendStep == BeginSend \/ SendCheckBlocked \/ SendCheckFriends \/ InsertMessage \/ SendError

(* A step of a handler, observed by the call that is running.               *)
HandlerStep ==
  /\ Next
  /\ seen' = IF send.at = "none" THEN {} ELSE Moment(send, seen, blocks', friends')
  /\ UNCHANGED <<send, messages, sent, confirmed>>

ChatNext == HandlerStep \/ (SendStep /\ UNCHANGED vars)

ChatSpec == ChatInit /\ [][ChatNext]_<<vars, chatVars>>

-----------------------------------------------------------------------------
(* A message is stored only if, during its call, there was a moment without *)
(* a block and after it one at which the two were friends: a pair blocked   *)
(* or not friends before the call, and left so, exchanges nothing.          *)
StoredWasAllowed ==
  \A n \in DOMAIN messages : "friends" \in messages[n].seen

(* Behind every stored message is a request between the two that was        *)
(* accepted; it is still there, accepted or blocked since.                  *)
StoredHasRequest ==
  \A n \in DOMAIN messages :
    \E i \in Ids : /\ requests[i].status \in {"accepted", "blocked"}
                   /\ Both(requests[i].from, requests[i].to)
                        = Both(messages[n].from, messages[n].to)

(* The call implements what the hub relies on: the message it stores is its *)
(* own, once, and success is reported of stored messages only, whatever     *)
(* the handlers and the faults in between.                                  *)
PairsOf(rows) == [n \in DOMAIN rows |-> <<rows[n].from, rows[n].to>>]

Persisted == INSTANCE Persist WITH
  Messages <- Pairs,
  pending <- IF send.at = "none" THEN <<>> ELSE <<<<send.from, send.to>>>>,
  rows <- PairsOf(messages)

PersistSpec == Persisted!Spec

=============================================================================
