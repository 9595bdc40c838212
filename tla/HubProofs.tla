------------------------------ MODULE HubProofs ------------------------------
(***************************************************************************)
(* Theorems of Hub, for every set of connections and users, every queue    *)
(* capacity and every bound: the state stays well typed, a connection in   *)
(* the hub's table has an open send channel, and nothing is ever sent on a *)
(* closed one.                                                             *)
(***************************************************************************)
EXTENDS Hub, SequenceTheorems, TLAPS

(* What the reader and the hub hold in hand is a frame that was read, and a *)
(* connection that is not registered yet has an open channel.               *)
InHand ==
  /\ hub = "persisting" => current \in 1 .. Len(offered)
  /\ \A c \in Conns : reader[c] = "offering" => inbox[c] \in 1 .. Len(offered)

NotYetClosed ==
  \A c \in Conns : reader[c] \in {"absent", "registering"} => c \notin closed

(* The inductive invariant.                                                 *)
IInv == TypeOK /\ InHand /\ NotYetClosed /\ RegisteredOpen

(* The empty table of NewHub satisfies the invariant.                        *)
LEMMA InitIInv == Init => IInv
  <1>1. SUFFICES ASSUME Init PROVE IInv
    OBVIOUS
  <1>2. /\ <<>> \in Seq(Event) /\ Len(<<>>) = 0
        /\ Cap \in Nat /\ MaxFrames \in Nat /\ MaxFaults \in Nat
    BY HubAssumption
  <1>3. TableOK
    BY <1>1, <1>2 DEF Init, TableOK
  <1>4. QueueOK
    BY <1>1, <1>2 DEF Init, QueueOK
  <1>5. PumpOK
    BY <1>1, <1>2 DEF Init, PumpOK
  <1>6. DataOK
    BY <1>1, <1>2 DEF Init, DataOK
  <1>7. quit \in BOOLEAN
    BY <1>1, Zenon DEF Init
  <1>8. InHand /\ NotYetClosed /\ RegisteredOpen
    BY <1>1 DEF Init, InHand, NotYetClosed, RegisteredOpen
  <1> QED
    BY <1>3, <1>4, <1>5, <1>6, <1>7, <1>8 DEF IInv, TypeOK

-----------------------------------------------------------------------------
(* A handler that feeds events to connections keeps the queues typed and    *)
(* within the capacity, and leaves only connections that were not full.     *)
LEMMA FedTyped ==
  ASSUME QueueOK, NEW cs \in SUBSET Conns, NEW D \in SUBSET Conns,
         NEW out \in [D -> Event], Fed(cs, out)
  PROVE  /\ QueueOK'
         /\ registered' = cs \ Full(out)
         /\ Full(out) \subseteq D
  <1>1. Full(out) \subseteq D /\ registered' = cs \ Full(out)
    BY DEF Fed, Full
  <1>2. ASSUME NEW c \in Conns
        PROVE  /\ send'[c] \in Seq(Event)
               /\ Len(send'[c]) <= Cap
    <2>1. send[c] \in Seq(Event) /\ Len(send[c]) <= Cap /\ Cap \in Nat
      BY HubAssumption DEF QueueOK
    <2>2. CASE c \in D /\ c \notin Full(out)
      <3>1. send'[c] = Append(send[c], out[c]) /\ out[c] \in Event
        BY <2>2 DEF Fed, Enqueue
      <3>2. ~(Len(send[c]) >= Cap)
        BY <2>2 DEF Full
      <3> QED
        BY <2>1, <3>1, <3>2
    <2>3. CASE ~(c \in D /\ c \notin Full(out))
      <3>1. send'[c] = send[c]
        BY <2>3 DEF Fed, Enqueue
      <3> QED
        BY <2>1, <3>1
    <2> QED
      BY <2>2, <2>3
  <1>3. send' = [c \in Conns |-> send'[c]]
    BY DEF Fed, Enqueue
  <1> QED
    BY <1>1, <1>2, <1>3 DEF QueueOK

(* What the handlers put on a queue is an event.                             *)
LEMMA EventTyped ==
  /\ \A u \in Users, e \in Presence : PresenceEvent(u, e) \in Event
  /\ \A e \in Events, f \in Users \cup {System}, n \in 0 .. MaxFrames :
       [event |-> e, from |-> f, id |-> n] \in Event
  /\ \A D \in SUBSET Conns, e \in Event : ToAll(D, e) \in [D -> Event]
  /\ Nobody \in [{} -> Event]
  <1>1. MaxFrames \in Nat
    BY HubAssumption
  <1>2. \A u \in Users, e \in Presence : PresenceEvent(u, e) \in Event
    BY <1>1 DEF PresenceEvent, Event, Events
  <1> QED
    BY <1>1, <1>2 DEF Event, ToAll, Nobody

-----------------------------------------------------------------------------
(* One lemma for each group of actions.                                     *)

(* A registration: the new connection's channel is open and its pumps run.   *)
LEMMA RegisterStep ==
  ASSUME IInv, NEW c \in Conns, HubRegister(c)
  PROVE  IInv'
  <1> DEFINE out == ToAll(registered \cup {c}, PresenceEvent(UserOf[c], "user_online"))
  <1>1. TableOK /\ QueueOK /\ PumpOK /\ DataOK /\ quit \in BOOLEAN
    BY DEF IInv, TypeOK
  <1>2. UserOf[c] \in Users /\ registered \cup {c} \subseteq Conns
    BY <1>1, HubAssumption DEF TableOK
  <1>3. out \in [registered \cup {c} -> Event]
    BY <1>2, EventTyped DEF Presence
  <1>4. Fed(registered \cup {c}, out) /\ closed' = closed \cup Full(out)
    BY DEF HubRegister
  <1> HIDE DEF out
  <1>5. QueueOK' /\ registered' = (registered \cup {c}) \ Full(out)
          /\ Full(out) \subseteq registered \cup {c}
    BY <1>1, <1>2, <1>3, <1>4, FedTyped
  <1>6. TableOK'
    BY <1>1, <1>2, <1>4, <1>5 DEF TableOK, HubRegister
  <1>7. PumpOK'
    BY <1>1 DEF PumpOK, HubRegister
  <1>8. DataOK'
    BY <1>1 DEF DataOK, HubRegister
  <1>9. quit' \in BOOLEAN
    BY <1>1, Zenon DEF HubRegister
  <1>10. InHand'
    BY <1>1 DEF IInv, InHand, HubRegister, PumpOK
  <1>11. NotYetClosed'
    <2>1. \A d \in registered : reader[d] \in {"reading", "offering", "leaving"}
      BY DEF IInv, RegisteredOpen
    <2> QED
      BY <1>1, <1>4, <1>5, <2>1 DEF IInv, NotYetClosed, HubRegister, PumpOK
  <1>12. RegisteredOpen'
    <2>1. c \notin closed
      BY DEF IInv, NotYetClosed, HubRegister
    <2>2. \A d \in registered' : d \notin closed'
      BY <1>4, <1>5, <2>1 DEF IInv, RegisteredOpen
    <2>3. \A d \in registered' :
            UserOf[d] \in entries' /\ reader'[d] \in {"reading", "offering", "leaving"}
      BY <1>1, <1>5 DEF IInv, RegisteredOpen, HubRegister, PumpOK
    <2> QED
      BY <2>2, <2>3 DEF RegisteredOpen
  <1> QED
    BY <1>5, <1>6, <1>7, <1>8, <1>9, <1>10, <1>11, <1>12 DEF IInv, TypeOK

(* An unregistration: the connection has left the table when its channel is closed. *)
LEMMA UnregisterStep ==
  ASSUME IInv, NEW c \in Conns, HubUnregister(c)
  PROVE  IInv'
  <1> DEFINE left == registered \ {c}
             to   == IF IsLast(c) THEN left ELSE {}
             out  == IF IsLast(c) THEN ToAll(left, PresenceEvent(UserOf[c], "user_offline"))
                     ELSE Nobody
  <1>1. TableOK /\ QueueOK /\ PumpOK /\ DataOK /\ quit \in BOOLEAN
    BY DEF IInv, TypeOK
  <1>2. UserOf[c] \in Users /\ left \subseteq Conns /\ to \subseteq Conns
    BY <1>1, HubAssumption DEF TableOK
  <1>3. out \in [to -> Event]
    BY <1>2, EventTyped DEF Presence
  <1>4. /\ Fed(left, out)
        /\ closed' = closed \cup Full(out) \cup {c}
        /\ entries' = IF IsLast(c) THEN entries \ {UserOf[c]} ELSE entries
    BY DEF HubUnregister
  <1> HIDE DEF to, out
  <1>5. QueueOK' /\ registered' = left \ Full(out) /\ Full(out) \subseteq to
    BY <1>1, <1>2, <1>3, <1>4, FedTyped
  <1>6. TableOK'
    BY <1>1, <1>2, <1>4, <1>5 DEF TableOK, HubUnregister
  <1>7. PumpOK'
    BY <1>1 DEF PumpOK, HubUnregister
  <1>8. DataOK'
    BY <1>1 DEF DataOK, HubUnregister, dataVars
  <1>9. quit' \in BOOLEAN
    BY <1>1, Zenon DEF HubUnregister
  <1>10. InHand'
    BY <1>1 DEF IInv, InHand, HubUnregister, PumpOK, dataVars
  <1>11. /\ reader'[c] = "closing"
         /\ \A d \in Conns \ {c} : reader'[d] = reader[d]
    BY <1>1 DEF HubUnregister, PumpOK
  <1>12. \A d \in registered : /\ d \in Conns /\ d \notin closed
                               /\ UserOf[d] \in entries
                               /\ reader[d] \in {"reading", "offering", "leaving"}
    BY <1>1 DEF IInv, RegisteredOpen, TableOK
  <1>13. NotYetClosed'
    <2>1. SUFFICES ASSUME NEW d \in Conns, reader'[d] \in {"absent", "registering"}
                   PROVE  d \notin closed'
      BY DEF NotYetClosed
    <2>2. d # c /\ d \notin closed /\ d \notin registered
      BY <2>1, <1>11, <1>12 DEF IInv, NotYetClosed
    <2> QED
      BY <2>2, <1>2, <1>4, <1>5, <1>12 DEF to
  <1>14. RegisteredOpen'
    <2>1. SUFFICES ASSUME NEW d \in registered'
                   PROVE  /\ d \notin closed'
                          /\ UserOf[d] \in entries'
                          /\ reader'[d] \in {"reading", "offering", "leaving"}
      BY DEF RegisteredOpen
    <2>2. d \in left /\ d \notin Full(out)
      BY <2>1, <1>5
    <2>3. d \notin closed' /\ reader'[d] \in {"reading", "offering", "leaving"}
      BY <2>2, <1>4, <1>11, <1>12
    <2>4. UserOf[d] \in entries'
      BY <2>2, <1>4, <1>12 DEF IsLast
    <2> QED
      BY <2>3, <2>4
  <1> QED
    BY <1>5, <1>6, <1>7, <1>8, <1>9, <1>10, <1>13, <1>14 DEF IInv, TypeOK

(* No reader moves, except one whose frame the hub takes.                   *)
OnlyTaken ==
  \A d \in Conns : \/ reader'[d] = reader[d]
                   \/ reader[d] = "offering" /\ reader'[d] = "reading"

(* What a handler that sends to registered connections and changes nothing  *)
(* else in the table preserves.                                             *)
LEMMA RouteStep ==
  ASSUME IInv, NEW D \in SUBSET registered, NEW out \in [D -> Event],
         Fed(registered, out), closed' = closed \cup Full(out), entries' = entries,
         OnlyTaken
  PROVE  /\ QueueOK' /\ NotYetClosed' /\ RegisteredOpen'
         /\ registered' \subseteq Conns /\ closed' \subseteq Conns
  <1>1. TableOK /\ QueueOK
    BY DEF IInv, TypeOK
  <1>2. registered \subseteq Conns /\ D \subseteq Conns
    BY <1>1 DEF TableOK
  <1>3. QueueOK' /\ registered' = registered \ Full(out) /\ Full(out) \subseteq D
    BY <1>1, <1>2, FedTyped
  <1>4. \A d \in registered : /\ d \notin closed /\ UserOf[d] \in entries
                              /\ reader[d] \in {"reading", "offering", "leaving"}
    BY DEF IInv, RegisteredOpen
  <1>5. NotYetClosed'
    BY <1>2, <1>3, <1>4 DEF IInv, NotYetClosed, OnlyTaken
  <1>6. RegisteredOpen'
    BY <1>2, <1>3, <1>4 DEF RegisteredOpen, OnlyTaken
  <1> QED
    BY <1>1, <1>2, <1>3, <1>5, <1>6 DEF TableOK

(* A frame that is dropped is one that is sent to nobody.                    *)
LEMMA DropRoutes ==
  ASSUME QueueOK, NEW c \in Conns, DropFrame(c), NEW e
  PROVE  Route({}, e)
  <1>1. DOMAIN ToAll({}, e) = {} /\ Full(ToAll({}, e)) = {}
    BY DEF ToAll, Full
  <1>2. send = [d \in Conns |-> send[d]]
    BY DEF QueueOK
  <1>3. UNCHANGED <<send, registered, closed>>
    BY DEF DropFrame
  <1>4. Enqueue(ToAll({}, e))
    BY <1>1, <1>2, <1>3 DEF Enqueue
  <1> QED
    BY <1>1, <1>3, <1>4 DEF Route, Fed

(* The frame a reader offers was read, and unless it is a message to be      *)
(* persisted the hub sends one event to registered connections.             *)
LEMMA TakeRoutes ==
  ASSUME IInv, NEW c \in Conns, HubTake(c), ~BeginPersist(c)
  PROVE  \E cs \in SUBSET registered, e \in Event : Route(cs, e) /\ UNCHANGED <<hub, current>>
  <1>1. TableOK /\ QueueOK /\ PumpOK /\ DataOK
    BY DEF IInv, TypeOK
  <1>2. Take(c)
    BY DEF HubTake, RelayPresence, RelayToUser, RelayToGroup, DropFrame, RefuseMessage,
       BeginPersist
  <1>3. /\ inbox[c] \in 1 .. Len(offered) /\ inbox[c] \in 0 .. MaxFrames
        /\ UserOf[c] \in Users
        /\ FrameOf(c) \in Frame
    <2>1. inbox[c] \in 1 .. Len(offered)
      BY <1>2 DEF Take, IInv, InHand
    <2>2. offered[inbox[c]] \in [by : Conns, frame : Frames]
      BY <2>1, <1>1, ElementOfSeq DEF DataOK
    <2> QED
      BY <2>1, <2>2, <1>1, HubAssumption DEF FrameOf, PumpOK
  <1>4. CASE RelayPresence(c)
    BY <1>3, <1>4, EventTyped DEF RelayPresence
  <1>5. CASE RelayToUser(c)
    <2>1. FrameOf(c).event \in Events
      BY <1>3 DEF Frame, Events
    <2> DEFINE e == [event |-> FrameOf(c).event, from |-> UserOf[c], id |-> inbox[c]]
    <2>2. e \in Event
      BY <1>3, <2>1, EventTyped
    <2>3. ConnsOf(FrameOf(c).to) \in SUBSET registered
      BY DEF ConnsOf
    <2> QED
      BY <1>5, <2>2, <2>3 DEF RelayToUser
  <1>6. CASE RelayToGroup(c)
    <2>1. FrameOf(c).event \in Events
      BY <1>3 DEF Frame, Events
    <2> DEFINE e == [event |-> FrameOf(c).event, from |-> UserOf[c], id |-> inbox[c]]
    <2>2. e \in Event
      BY <1>3, <2>1, EventTyped
    <2>3. RoomConns(FrameOf(c).to) \in SUBSET registered
      BY DEF RoomConns
    <2> QED
      BY <1>6, <2>2, <2>3 DEF RelayToGroup
  <1>7. CASE RefuseMessage(c)
    <2> DEFINE e == [event |-> "error", from |-> System, id |-> inbox[c]]
    <2>1. e \in Event
      BY <1>3, EventTyped DEF Events
    <2>2. ConnsOf(UserOf[c]) \in SUBSET registered
      BY DEF ConnsOf
    <2> QED
      BY <1>7, <2>1, <2>2 DEF RefuseMessage
  <1>8. CASE DropFrame(c)
    <2>1. PresenceEvent(UserOf[c], "user_online") \in Event
      BY <1>3, EventTyped DEF Presence
    <2> QED
      BY <1>1, <1>8, <2>1, DropRoutes DEF DropFrame
  <1> QED
    BY <1>4, <1>5, <1>6, <1>7, <1>8 DEF HubTake

(* The hub takes a frame, whichever branch of routeMessage it goes to.       *)
LEMMA TakeStep ==
  ASSUME IInv, NEW c \in Conns, HubTake(c)
  PROVE  IInv'
  <1>1. TableOK /\ QueueOK /\ PumpOK /\ DataOK /\ quit \in BOOLEAN
    BY DEF IInv, TypeOK
  <1>2. Take(c)
    BY DEF HubTake, RelayPresence, RelayToUser, RelayToGroup, DropFrame, RefuseMessage,
       BeginPersist
  <1>3. inbox[c] \in 1 .. Len(offered) /\ inbox[c] \in 0 .. MaxFrames
    BY <1>1, <1>2 DEF Take, IInv, InHand, PumpOK
  <1>4. OnlyTaken
    <2>1. SUFFICES ASSUME NEW d \in Conns
                   PROVE  \/ reader'[d] = reader[d]
                          \/ reader[d] = "offering" /\ reader'[d] = "reading"
      BY DEF OnlyTaken
    <2>2. reader' = [reader EXCEPT ![c] = "reading"] /\ reader[c] = "offering"
      BY <1>2 DEF Take
    <2> QED
      BY <2>2, <1>1 DEF PumpOK
  <1>5. PumpOK'
    BY <1>1, <1>2, HubAssumption DEF Take, PumpOK
  <1>6. DataOK' /\ entries' = entries
    BY <1>1, <1>2 DEF Take, DataOK, dataVars
  <1>7. quit' \in BOOLEAN
    BY <1>1, <1>2, Zenon DEF Take
  <1>8. \A d \in Conns : reader'[d] = "offering" => inbox'[d] \in 1 .. Len(offered')
    BY <1>1, <1>2 DEF Take, PumpOK, IInv, InHand, dataVars
  <1>9. ASSUME NEW cs \in SUBSET registered, NEW e \in Event, Route(cs, e),
               UNCHANGED <<hub, current>>
        PROVE  IInv'
    <2> DEFINE out == ToAll(cs, e)
    <2>1. /\ out \in [cs -> Event] /\ Fed(registered, out)
          /\ closed' = closed \cup Full(out)
      BY <1>9, <1>1, EventTyped DEF TableOK, Route
    <2> HIDE DEF out
    <2>2. QueueOK' /\ NotYetClosed' /\ RegisteredOpen'
          /\ registered' \subseteq Conns /\ closed' \subseteq Conns
      <3>1. entries' = entries
        BY <1>6
      <3> QED
        BY <2>1, <1>4, <3>1, RouteStep
    <2>3. TableOK'
      BY <2>2, <1>1, <1>6, <1>9 DEF TableOK
    <2>4. InHand'
      BY <1>2, <1>8, <1>9 DEF InHand, Take
    <2> QED
      BY <2>2, <2>3, <2>4, <1>5, <1>6, <1>7 DEF IInv, TypeOK
  <1>10. CASE ~BeginPersist(c)
    <2>1. PICK cs \in SUBSET registered, e \in Event : Route(cs, e) /\ UNCHANGED <<hub, current>>
      BY <1>10, TakeRoutes
    <2> QED
      BY <1>9, <2>1
  <1>11. CASE BeginPersist(c)
    <2>1. QueueOK'
      BY <1>1, <1>11 DEF QueueOK, BeginPersist
    <2>2. TableOK'
      BY <1>1, <1>3, <1>6, <1>11 DEF TableOK, BeginPersist
    <2>3. InHand'
      BY <1>2, <1>3, <1>8, <1>11 DEF InHand, BeginPersist, Take, dataVars
    <2>4. NotYetClosed' /\ RegisteredOpen'
      BY <1>1, <1>4, <1>6, <1>11
         DEF IInv, NotYetClosed, RegisteredOpen, BeginPersist, TableOK, OnlyTaken
    <2> QED
      BY <2>1, <2>2, <2>3, <2>4, <1>5, <1>6, <1>7 DEF IInv, TypeOK
  <1> QED
    BY <1>10, <1>11

(* The message a persisting hub works on was read, from one user to another *)
(* or the same, and its answer goes to registered connections.              *)
LEMMA PersistFeeds ==
  ASSUME IInv, PersistOk \/ PersistError
  PROVE  \E D \in SUBSET registered : \E out \in [D -> Event] :
           Fed(registered, out) /\ closed' = closed \cup Full(out)
  <1>1. DataOK /\ hub = "persisting"
    BY DEF IInv, TypeOK, PersistOk, PersistError, Resume
  <1>2. /\ current \in 1 .. Len(offered) /\ Len(offered) \in Nat
        /\ current \in 0 .. MaxFrames
    BY <1>1, HubAssumption DEF IInv, InHand, DataOK
  <1>3. /\ Sender \in Users /\ Receiver \in Users
    <2>1. offered[current] \in [by : Conns, frame : Frames]
      BY <1>2, <1>1, ElementOfSeq DEF DataOK
    <2> QED
      BY <2>1, HubAssumption DEF Sender, Receiver, Frame
  <1>4. CASE PersistOk
    <2>1. Delivery \in [ConnsOf(Receiver) \cup ConnsOf(Sender) -> Event]
      BY <1>2, <1>3, HubAssumption DEF Delivery, Event, Events
    <2>2. ConnsOf(Receiver) \cup ConnsOf(Sender) \in SUBSET registered
      BY DEF ConnsOf
    <2>3. Fed(registered, Delivery) /\ closed' = closed \cup Full(Delivery)
      BY <1>4 DEF PersistOk
    <2> QED
      BY <2>1, <2>2, <2>3
  <1>5. CASE PersistError
    <2>1. Failure \in [ConnsOf(Sender) -> Event]
      BY <1>2, HubAssumption DEF Failure, ToAll, Event, Events
    <2>2. ConnsOf(Sender) \in SUBSET registered
      BY DEF ConnsOf
    <2>3. Fed(registered, Failure) /\ closed' = closed \cup Full(Failure)
      BY <1>5 DEF PersistError
    <2> QED
      BY <2>1, <2>2, <2>3
  <1> QED
    BY <1>4, <1>5

(* CreateMessage has returned: the frame in hand was one of those read.      *)
LEMMA PersistStep ==
  ASSUME IInv, PersistOk \/ PersistError
  PROVE  IInv'
  <1>1. TableOK /\ QueueOK /\ PumpOK /\ DataOK /\ quit \in BOOLEAN
    BY DEF IInv, TypeOK
  <1>2. Resume
    BY DEF PersistOk, PersistError
  <1>3. /\ hub' = "select" /\ current' = 0 /\ entries' = entries
        /\ reader' = reader /\ writer' = writer /\ inbox' = inbox
        /\ sock' = sock /\ wire' = wire
        /\ offered' = offered /\ joined' = joined /\ faults' = faults
    BY <1>2 DEF Resume, connVars
  <1>4. /\ current \in 1 .. Len(offered) /\ Len(offered) \in Nat
        /\ current \in 1 .. MaxFrames
    BY <1>1, <1>2, HubAssumption DEF Resume, IInv, InHand, DataOK
  <1>6. PumpOK'
    BY <1>1, <1>3 DEF PumpOK
  <1>7. DataOK'
    <2> DEFINE Row == [id : 1 .. MaxFrames, ok : BOOLEAN]
    <2>1. [id |-> current, ok |-> TRUE] \in Row /\ [id |-> current, ok |-> FALSE] \in Row
      BY <1>4
    <2>2. /\ stored \in Seq(Row)
          /\ \/ stored' = stored
             \/ stored' = Append(stored, [id |-> current, ok |-> TRUE])
             \/ stored' = Append(stored, [id |-> current, ok |-> FALSE])
      BY <1>1 DEF PersistOk, PersistError, DataOK
    <2>3. stored' \in Seq(Row)
      <3> HIDE DEF Row
      <3> QED
        BY <2>1, <2>2, AppendProperties
    <2> QED
      BY <2>3, <1>1, <1>3 DEF DataOK
  <1>8. quit' \in BOOLEAN
    BY <1>1, <1>2, Zenon DEF Resume
  <1>9. InHand'
    BY <1>3 DEF IInv, InHand
  <1>10. OnlyTaken
    BY <1>3 DEF OnlyTaken
  <1>11. PICK D \in SUBSET registered : \E out \in [D -> Event] :
           Fed(registered, out) /\ closed' = closed \cup Full(out)
    BY PersistFeeds
  <1>12. PICK out \in [D -> Event] :
           Fed(registered, out) /\ closed' = closed \cup Full(out)
    BY <1>11
  <1>13. QueueOK' /\ NotYetClosed' /\ RegisteredOpen'
          /\ registered' \subseteq Conns /\ closed' \subseteq Conns
    <2>1. entries' = entries
      BY <1>3
    <2> QED
      BY <2>1, <1>10, <1>12, RouteStep
  <1>14. TableOK'
    BY <1>1, <1>3, <1>13, HubAssumption DEF TableOK
  <1> QED
    BY <1>6, <1>7, <1>8, <1>9, <1>13, <1>14 DEF IInv, TypeOK

(* Upgrades, the pumps, Stop and the quit case send nothing; a queue may    *)
(* lose its head.                                                           *)
LEMMA PumpsStep ==
  ASSUME IInv, NEW c \in Conns, Connect(c) \/ PumpStep(c)
  PROVE  IInv'
  <1>1. TableOK /\ QueueOK /\ PumpOK /\ DataOK /\ quit \in BOOLEAN
    BY DEF IInv, TypeOK
  <1>2. /\ hub' = hub /\ current' = current /\ entries' = entries
        /\ registered' = registered /\ closed' = closed /\ joined' = joined
        /\ stored' = stored
    BY DEF Connect, PumpStep, Read, ReadError, ReaderClose, Write, WriteError,
           WriteClose, PingError, dataVars
  <1>3. quit' \in BOOLEAN
    <2>1. quit' = quit
      BY DEF Connect, PumpStep, Read, ReadError, ReaderClose, Write, WriteError,
             WriteClose, PingError
    <2> QED
      BY <1>1, <2>1, Zenon
  <1>4. TableOK'
    BY <1>1, <1>2 DEF TableOK
  <1>5. \/ send' = send
        \/ send[c] # <<>> /\ send' = [send EXCEPT ![c] = Tail(@)]
    BY DEF Connect, PumpStep, Read, ReadError, ReaderClose, Write, WriteError,
           WriteClose, PingError
  <1>6. QueueOK'
    <2>1. CASE send' = send
      BY <2>1, <1>1 DEF QueueOK
    <2>2. CASE send[c] # <<>> /\ send' = [send EXCEPT ![c] = Tail(@)]
      <3>1. /\ Tail(send[c]) \in Seq(Event)
            /\ Len(Tail(send[c])) = Len(send[c]) - 1 /\ Len(send[c]) \in Nat
            /\ Len(send[c]) <= Cap /\ Cap \in Nat
        BY <2>2, <1>1, HeadTailProperties, HubAssumption DEF QueueOK
      <3>2. Len(Tail(send[c])) <= Cap
        BY <3>1
      <3> QED
        BY <2>2, <3>1, <3>2, <1>1 DEF QueueOK
    <2> QED
      BY <1>5, <2>1, <2>2
  <1>7. \/ reader' = reader
        \/ reader[c] = "absent" /\ reader' = [reader EXCEPT ![c] = "registering"]
        \/ reader[c] = "reading" /\ reader' = [reader EXCEPT ![c] = "offering"]
        \/ reader[c] = "reading" /\ reader' = [reader EXCEPT ![c] = "leaving"]
        \/ reader[c] = "closing" /\ reader' = [reader EXCEPT ![c] = "done"]
    BY DEF Connect, PumpStep, Read, ReadError, ReaderClose, Write, WriteError,
           WriteClose, PingError
  <1>8. NotYetClosed' /\ RegisteredOpen'
    BY <1>1, <1>2, <1>7 DEF IInv, NotYetClosed, RegisteredOpen, PumpOK, TableOK
  <1>9. CASE Read(c)
    <2>1. PICK f \in Frames : offered' = Append(offered, [by |-> c, frame |-> f])
      BY <1>9 DEF Read
    <2>2. [by |-> c, frame |-> f] \in [by : Conns, frame : Frames]
      OBVIOUS
    <2>3. /\ offered' \in Seq([by : Conns, frame : Frames])
          /\ Len(offered') = Len(offered) + 1
          /\ Len(offered) \in Nat /\ Len(offered) < MaxFrames
      BY <2>1, <2>2, <1>1, <1>9, AppendProperties DEF DataOK, Read
    <2>4. DataOK'
      BY <2>3, <1>1, <1>2, <1>9, HubAssumption DEF DataOK, Read
    <2>5. /\ inbox' = [inbox EXCEPT ![c] = Len(offered) + 1]
          /\ reader' = [reader EXCEPT ![c] = "offering"]
          /\ UNCHANGED <<writer, sock, wire>>
      BY <1>9 DEF Read
    <2>6. PumpOK'
      BY <2>3, <2>5, <1>1, HubAssumption DEF PumpOK
    <2>7. InHand'
      BY <2>3, <2>5, <1>1, <1>2 DEF IInv, InHand, PumpOK
    <2> QED
      BY <2>4, <2>6, <2>7, <1>3, <1>4, <1>6, <1>8 DEF IInv, TypeOK
  <1>10. CASE ~Read(c)
    <2>1. offered' = offered /\ inbox' = inbox
      BY <1>10 DEF Connect, PumpStep, ReadError, ReaderClose, Write, WriteError,
                   WriteClose, PingError, dataVars
    <2>2. faults' = faults \/ (faults < MaxFaults /\ faults' = faults + 1)
      BY <1>10 DEF Connect, PumpStep, ReadError, ReaderClose, Write, WriteError,
                   WriteClose, PingError, Fault
    <2>3. DataOK'
      BY <2>1, <2>2, <1>1, <1>2, HubAssumption DEF DataOK
    <2>4. reader' \in [Conns -> {"absent", "registering", "reading", "offering",
                                "leaving", "closing", "done"}]
      BY <1>1, <1>7 DEF PumpOK
    <2>5. /\ writer' = writer \/ writer' = [writer EXCEPT ![c] = "done"]
          /\ \/ sock' = sock
             \/ sock' = [sock EXCEPT ![c] = "open"]
             \/ sock' = [sock EXCEPT ![c] = "closed"]
      BY <1>10 DEF Connect, PumpStep, ReadError, ReaderClose, Write, WriteError,
                   WriteClose, PingError, WriterGone
    <2>6. \/ wire' = wire
          \/ send[c] # <<>> /\ wire' = [wire EXCEPT ![c] = Append(@, Head(send[c]))]
      BY <1>10 DEF Connect, PumpStep, ReadError, ReaderClose, Write, WriteError,
                   WriteClose, PingError
    <2>7. wire' \in [Conns -> Seq(Event)]
      <3>1. send[c] \in Seq(Event) /\ wire[c] \in Seq(Event)
        BY <1>1 DEF QueueOK, PumpOK
      <3>2. send[c] # <<>> => Append(wire[c], Head(send[c])) \in Seq(Event)
        BY <3>1, HeadTailProperties, AppendProperties
      <3> QED
        BY <2>6, <3>2, <1>1 DEF PumpOK
    <2>8. PumpOK'
      BY <2>1, <2>4, <2>5, <2>7, <1>1 DEF PumpOK
    <2>9. reader'[c] = "offering" => reader[c] = "offering"
      <3>1. CASE reader' = reader
        BY <3>1
      <3>2. CASE reader' # reader
        BY <3>2, <1>1, <1>10
           DEF Connect, PumpStep, ReadError, ReaderClose, Write, WriteError,
               WriteClose, PingError, PumpOK
      <3> QED
        BY <3>1, <3>2
    <2>10. InHand'
      BY <2>1, <2>9, <1>1, <1>2, <1>7 DEF IInv, InHand, PumpOK
    <2> QED
      BY <2>3, <2>8, <2>10, <1>3, <1>4, <1>6, <1>8 DEF IInv, TypeOK
  <1> QED
    BY <1>9, <1>10

(* Stop and the quit case: no channel in the table is left open, and no table. *)
LEMMA StopStep ==
  ASSUME IInv, Stop \/ HubQuit
  PROVE  IInv'
  <1>1. TableOK /\ QueueOK /\ PumpOK /\ DataOK /\ quit \in BOOLEAN
    BY DEF IInv, TypeOK
  <1>2. /\ send' = send /\ reader' = reader /\ writer' = writer /\ inbox' = inbox
        /\ sock' = sock /\ wire' = wire /\ offered' = offered /\ stored' = stored
        /\ joined' = joined /\ faults' = faults /\ current' = current
        /\ hub' \in {hub, "returned"}
        /\ closed' = closed \cup registered \/ (closed' = closed /\ registered' = registered)
        /\ (entries' = {} /\ registered' = {})
             \/ (entries' = entries /\ registered' = registered /\ closed' = closed)
    BY DEF Stop, HubQuit, connVars, dataVars
  <1>3. quit' \in BOOLEAN
    <2>1. CASE Stop
      BY <2>1, Zenon DEF Stop
    <2>2. CASE HubQuit
      BY <2>2, <1>1, Zenon DEF HubQuit
    <2> QED
      BY <2>1, <2>2
  <1>4. TableOK' /\ QueueOK' /\ PumpOK' /\ DataOK'
    BY <1>1, <1>2 DEF TableOK, QueueOK, PumpOK, DataOK
  <1>5. InHand'
    BY <1>2 DEF IInv, InHand
  <1>6. NotYetClosed' /\ RegisteredOpen'
    BY <1>2 DEF IInv, NotYetClosed, RegisteredOpen
  <1> QED
    BY <1>3, <1>4, <1>5, <1>6 DEF IInv, TypeOK

(* The invariant is inductive: one step for each kind of action.             *)
LEMMA NextIInv == IInv /\ [Next]_vars => IInv'
  <1>1. SUFFICES ASSUME IInv, [Next]_vars PROVE IInv'
    OBVIOUS
  <1>2. CASE \E c \in Conns : HubRegister(c)
    BY <1>1, <1>2, RegisterStep
  <1>3. CASE \E c \in Conns : HubUnregister(c)
    BY <1>1, <1>3, UnregisterStep
  <1>4. CASE \E c \in Conns : HubTake(c)
    BY <1>1, <1>4, TakeStep
  <1>5. CASE PersistOk \/ PersistError
    BY <1>1, <1>5, PersistStep
  <1>6. CASE Stop \/ HubQuit
    BY <1>1, <1>6, StopStep
  <1>7. CASE \E c \in Conns : Connect(c) \/ PumpStep(c)
    BY <1>1, <1>7, PumpsStep
  <1>8. CASE UNCHANGED vars
    <2>1. TypeOK'
      BY <1>1, <1>8 DEF IInv, TypeOK, TableOK, QueueOK, PumpOK, DataOK, vars,
                        connVars, dataVars
    <2>2. InHand' /\ NotYetClosed' /\ RegisteredOpen'
      BY <1>1, <1>8 DEF IInv, InHand, NotYetClosed, RegisteredOpen, vars,
                        connVars, dataVars
    <2> QED
      BY <2>1, <2>2 DEF IInv
  <1> QED
    BY <1>1, <1>2, <1>3, <1>4, <1>5, <1>6, <1>7, <1>8 DEF Next, HubStep

(* The state of the hub stays well typed, and no queue grows beyond its     *)
(* capacity.                                                                *)
THEOREM TypeCorrect == Spec => []TypeOK
  <1>1. IInv => TypeOK
    BY DEF IInv
  <1> QED
    BY InitIInv, NextIInv, <1>1, PTL DEF Spec

(* Every connection in the hub's table has an open channel: no send of      *)
(* broadcastToAll, sendToUser or sendToGroup is on a closed channel, and no *)
(* eviction or shutdown closes one twice.                                   *)
THEOREM TableIsOpen == Spec => []RegisteredOpen
  <1>1. IInv => RegisteredOpen
    BY DEF IInv
  <1> QED
    BY InitIInv, NextIInv, <1>1, PTL DEF Spec

-----------------------------------------------------------------------------
(* A handler that addresses open channels only leaves the closed ones alone. *)
LEMMA FedOpen ==
  ASSUME QueueOK, NEW cs, NEW D, NEW out \in [D -> Event], Fed(cs, out),
         NEW c \in Conns, c \notin D
  PROVE  send'[c] = send[c]
  BY DEF QueueOK, Fed, Enqueue

(* Each step: a closed channel stays closed and gets nothing more.           *)
LEMMA ClosedStep ==
  ASSUME IInv, [Next]_vars, NEW c \in closed
  PROVE  Len(send'[c]) <= Len(send[c]) /\ c \in closed'
  <1>1. TableOK /\ QueueOK /\ c \in Conns /\ c \notin registered
    BY DEF IInv, TypeOK, TableOK, RegisteredOpen
  <1>2. send[c] \in Seq(Event) /\ Len(send[c]) \in Nat
    BY <1>1 DEF QueueOK
  <1>3. send[c] # <<>> => Len(Tail(send[c])) = Len(send[c]) - 1
    BY <1>2, HeadTailProperties
  <1>4. ASSUME NEW d \in Conns, HubRegister(d)
        PROVE  c \in closed' /\ send'[c] = send[c]
    <2> DEFINE out == ToAll(registered \cup {d}, PresenceEvent(UserOf[d], "user_online"))
    <2>1. out \in [registered \cup {d} -> Event]
      BY <1>1, HubAssumption, EventTyped DEF TableOK, Presence
    <2>2. Fed(registered \cup {d}, out) /\ closed \subseteq closed' /\ c # d
      BY <1>4 DEF HubRegister, IInv, NotYetClosed
    <2> HIDE DEF out
    <2> QED
      BY <2>1, <2>2, <1>1, FedOpen
  <1>5. ASSUME NEW d \in Conns, HubUnregister(d)
        PROVE  c \in closed' /\ send'[c] = send[c]
    <2> DEFINE left == registered \ {d}
               to   == IF IsLast(d) THEN left ELSE {}
               out  == IF IsLast(d) THEN ToAll(left, PresenceEvent(UserOf[d], "user_offline"))
                       ELSE Nobody
    <2>1. out \in [to -> Event]
      BY <1>1, HubAssumption, EventTyped DEF TableOK, Presence
    <2>2. Fed(left, out) /\ closed \subseteq closed'
      BY <1>5 DEF HubUnregister
    <2>3. c \notin to
      BY <1>1
    <2> HIDE DEF out, to, left
    <2> QED
      BY <2>1, <2>2, <2>3, <1>1, FedOpen
  <1>6. ASSUME NEW D \in SUBSET registered, NEW out \in [D -> Event], Fed(registered, out),
               closed' = closed \cup Full(out)
        PROVE  c \in closed' /\ send'[c] = send[c]
    <2>1. c \notin D
      BY <1>1
    <2> QED
      BY <1>6, <2>1, <1>1, FedOpen
  <1>7. ASSUME NEW d \in Conns, HubTake(d)
        PROVE  c \in closed' /\ send'[c] = send[c]
    <2>1. CASE BeginPersist(d)
      BY <2>1 DEF BeginPersist
    <2>2. CASE ~BeginPersist(d)
      <3>1. PICK cs \in SUBSET registered : \E e \in Event : Route(cs, e)
        BY <1>7, <2>2, <1>1, TakeRoutes
      <3>2. PICK e \in Event : Route(cs, e)
        BY <3>1
      <3> DEFINE out == ToAll(cs, e)
      <3>3. out \in [cs -> Event] /\ Fed(registered, out) /\ closed' = closed \cup Full(out)
        BY <3>2, <1>1, EventTyped DEF Route, TableOK
      <3> HIDE DEF out
      <3> QED
        BY <3>3, <1>6
    <2> QED
      BY <2>1, <2>2
  <1>8. ASSUME PersistOk \/ PersistError
        PROVE  c \in closed' /\ send'[c] = send[c]
    <2>1. PICK D \in SUBSET registered : \E out \in [D -> Event] :
            Fed(registered, out) /\ closed' = closed \cup Full(out)
      BY <1>8, PersistFeeds
    <2> QED
      BY <2>1, <1>6
  <1>9. ASSUME Stop \/ HubQuit
        PROVE  c \in closed' /\ send'[c] = send[c]
    BY <1>9 DEF Stop, HubQuit
  <1>10. ASSUME NEW d \in Conns, Connect(d) \/ PumpStep(d)
         PROVE  /\ c \in closed'
                /\ \/ send'[c] = send[c]
                   \/ send[c] # <<>> /\ send'[c] = Tail(send[c])
    <2>1. /\ closed' = closed
          /\ \/ send' = send
             \/ send[d] # <<>> /\ send' = [send EXCEPT ![d] = Tail(@)]
      BY <1>10 DEF Connect, PumpStep, Read, ReadError, ReaderClose, Write, WriteError,
                   WriteClose, PingError
    <2> QED
      BY <2>1, <1>1 DEF QueueOK
  <1>11. ASSUME UNCHANGED vars
         PROVE  c \in closed' /\ send'[c] = send[c]
    <2>1. closed' = closed /\ send' = send
      BY <1>11 DEF vars
    <2> QED
      BY <2>1
  <1>12. /\ c \in closed'
         /\ \/ send'[c] = send[c]
            \/ send[c] # <<>> /\ send'[c] = Tail(send[c])
    <2> DEFINE Kept == /\ c \in closed'
                       /\ \/ send'[c] = send[c]
                          \/ send[c] # <<>> /\ send'[c] = Tail(send[c])
    <2>1. (\E d \in Conns : HubRegister(d)) => Kept
      BY <1>4
    <2>2. (\E d \in Conns : HubUnregister(d)) => Kept
      BY <1>5
    <2>3. (\E d \in Conns : HubTake(d)) => Kept
      BY <1>7
    <2>4. (PersistOk \/ PersistError \/ Stop \/ HubQuit \/ UNCHANGED vars) => Kept
      BY <1>8, <1>9, <1>11
    <2>5. (\E d \in Conns : Connect(d) \/ PumpStep(d)) => Kept
      BY <1>10
    <2> HIDE DEF Kept
    <2>6. Kept
      BY <2>1, <2>2, <2>3, <2>4, <2>5 DEF Next, HubStep
    <2> QED
      BY <2>6 DEF Kept
  <1>13. CASE send'[c] = send[c]
    BY <1>2, <1>12, <1>13
  <1>14. CASE send[c] # <<>> /\ send'[c] = Tail(send[c])
    BY <1>2, <1>3, <1>12, <1>14
  <1> QED
    BY <1>12, <1>13, <1>14

(* Nothing is put on a send channel after it was closed, and it stays       *)
(* closed: the hub never panics on a send.                                  *)
THEOREM NoSendOnClosed == Spec => ClosedNeverFed
  <1>1. IInv /\ [Next]_vars
          => [\A c \in closed : Len(send'[c]) <= Len(send[c]) /\ c \in closed']_vars
    BY ClosedStep
  <1> QED
    BY InitIInv, NextIInv, <1>1, PTL DEF Spec, ClosedNeverFed

-----------------------------------------------------------------------------
(* The messages of a table, one for each row.                               *)
LEMMA IdsTyped ==
  ASSUME NEW s \in Seq([id : 1 .. MaxFrames, ok : BOOLEAN])
  PROVE  /\ Ids(s) \in Seq(1 .. MaxFrames) /\ Len(Ids(s)) = Len(s)
         /\ \A k \in 1 .. Len(s) : Ids(s)[k] = s[k].id
  <1>1. /\ Len(s) \in Nat /\ DOMAIN s = 1 .. Len(s)
        /\ \A k \in 1 .. Len(s) : s[k].id \in 1 .. MaxFrames
    <2>1. /\ Len(s) \in Nat /\ DOMAIN s = 1 .. Len(s)
          /\ s \in [1 .. Len(s) -> [id : 1 .. MaxFrames, ok : BOOLEAN]]
      BY LenProperties
    <2>2. ASSUME NEW k \in 1 .. Len(s)
          PROVE  s[k].id \in 1 .. MaxFrames
      <3>1. s[k] \in [id : 1 .. MaxFrames, ok : BOOLEAN]
        BY <2>1
      <3> QED
        BY <3>1
    <2> QED
      BY <2>1, <2>2
  <1>2. Ids(s) \in [1 .. Len(s) -> 1 .. MaxFrames]
    BY <1>1 DEF Ids
  <1>3. Ids(s) \in Seq(1 .. MaxFrames)
    <2>1. Seq(1 .. MaxFrames) = UNION {[1 .. n -> 1 .. MaxFrames] : n \in Nat}
      BY SeqDef, Zenon
    <2> QED
      BY <1>1, <1>2, <2>1, Zenon
  <1>4. Len(Ids(s)) \in Nat /\ 1 .. Len(Ids(s)) = 1 .. Len(s)
    BY <1>2, <1>3, LenProperties
  <1>5. Len(Ids(s)) = Len(s)
    BY <1>1, <1>4, SMT
  <1> QED
    BY <1>1, <1>3, <1>5 DEF Ids

(* A row more in the table is a message more in the hub's view of it.        *)
LEMMA IdsAppend ==
  ASSUME DataOK, NEW ok \in BOOLEAN, NEW n \in 1 .. MaxFrames
  PROVE  LET more == Append(stored, [id |-> n, ok |-> ok])
         IN  /\ Ids(more) = Ids(stored) \o <<n>>
             /\ Len(Ids(stored) \o <<n>>) = Len(stored) + 1
             /\ {k \in DOMAIN more : more[k].ok} =
                  {k \in DOMAIN stored : stored[k].ok} \cup (IF ok THEN {Len(stored) + 1} ELSE {})
  <1> DEFINE row == [id |-> n, ok |-> ok]
             more == Append(stored, row)
  <1>1. /\ stored \in Seq([id : 1 .. MaxFrames, ok : BOOLEAN])
        /\ row \in [id : 1 .. MaxFrames, ok : BOOLEAN]
        /\ row.id = n /\ row.ok = ok
    BY DEF DataOK
  <1> HIDE DEF row
  <1>2. /\ DOMAIN stored = 1 .. Len(stored) /\ Len(stored) \in Nat
        /\ DOMAIN more = 1 .. Len(stored) + 1
        /\ \A k \in 1 .. Len(stored) : more[k] = stored[k]
        /\ more[Len(stored) + 1] = row
    BY <1>1
  <1>3. /\ Ids(stored) \in Seq(1 .. MaxFrames) /\ Len(Ids(stored)) = Len(stored)
        /\ \A k \in 1 .. Len(stored) : Ids(stored)[k] = stored[k].id
    BY <1>1, IdsTyped
  <1>4. /\ Ids(more) \in Seq(1 .. MaxFrames) /\ Len(Ids(more)) = Len(stored) + 1
        /\ \A k \in 1 .. Len(stored) + 1 : Ids(more)[k] = more[k].id
    <2>1. more \in Seq([id : 1 .. MaxFrames, ok : BOOLEAN]) /\ Len(more) = Len(stored) + 1
      BY <1>1
    <2> HIDE DEF more
    <2> QED
      BY <2>1, IdsTyped
  <1>5. /\ Ids(stored) \o <<n>> \in Seq(1 .. MaxFrames)
        /\ Len(Ids(stored) \o <<n>>) = Len(stored) + 1
        /\ \A k \in 1 .. Len(stored) + 1 :
             (Ids(stored) \o <<n>>)[k] = IF k <= Len(stored) THEN Ids(stored)[k] ELSE n
    BY <1>3
  <1>6. ASSUME NEW k \in 1 .. Len(stored) + 1
        PROVE  Ids(more)[k] = (Ids(stored) \o <<n>>)[k]
    <2> HIDE DEF more
    <2>1. CASE k \in 1 .. Len(stored)
      <3>1. Ids(more)[k] = stored[k].id
        BY <2>1, <1>2, <1>4
      <3>2. (Ids(stored) \o <<n>>)[k] = stored[k].id
        BY <2>1, <1>2, <1>3, <1>5
      <3> QED
        BY <3>1, <3>2
    <2>2. CASE k = Len(stored) + 1
      <3>1. more[k] = row
        BY <2>2, <1>2, Zenon
      <3>2. Ids(more)[k] = n
        BY <3>1, <1>1, <1>4
      <3>3. (Ids(stored) \o <<n>>)[k] = n
        BY <2>2, <1>2, <1>5
      <3> QED
        BY <3>2, <3>3
    <2>3. Len(stored) \in Nat
      BY <1>2
    <2>4. k \in 1 .. Len(stored) \/ k = Len(stored) + 1
      BY <2>3, SMT
    <2> QED
      BY <2>1, <2>2, <2>4
  <1>7. Ids(more) = Ids(stored) \o <<n>>
    BY <1>4, <1>5, <1>6, SeqEqual
  <1>8. {k \in DOMAIN more : more[k].ok} =
          {k \in DOMAIN stored : stored[k].ok} \cup (IF ok THEN {Len(stored) + 1} ELSE {})
    BY <1>1, <1>2
  <1> QED
    BY <1>5, <1>7, <1>8 DEF row

(* Each step of the hub is a step of Persist, or none.                       *)
LEMMA PersistSimulation == IInv /\ [Next]_vars => [Persisted!Next]_Persisted!vars
  <1>1. SUFFICES ASSUME IInv, [Next]_vars PROVE [Persisted!Next]_Persisted!vars
    OBVIOUS
  <1> USE DEF Persisted!vars, Persisted!Next
  <1>2. CASE UNCHANGED <<hub, current, stored>>
    BY <1>2
  <1>3. CASE PersistOk
    <2>1. /\ hub = "persisting" /\ hub' = "select" /\ current \in 1 .. MaxFrames
          /\ stored' = Append(stored, [id |-> current, ok |-> TRUE])
      BY <1>1, <1>3 DEF PersistOk, Resume, IInv, InHand, TypeOK, TableOK, DataOK
    <2>2. /\ Ids(stored') = Ids(stored) \o <<current>>
          /\ Len(Ids(stored')) = Len(stored) + 1
          /\ {k \in DOMAIN stored' : stored'[k].ok} =
               {k \in DOMAIN stored : stored[k].ok} \cup {Len(stored) + 1}
      BY <1>1, <2>1, IdsAppend DEF IInv, TypeOK
    <2> QED
      BY <2>1, <2>2 DEF Persisted!Succeed
  <1>4. CASE PersistError
    <2>1. /\ hub = "persisting" /\ hub' = "select" /\ current \in 1 .. MaxFrames
          /\ \/ stored' = stored
             \/ stored' = Append(stored, [id |-> current, ok |-> FALSE])
      BY <1>1, <1>4 DEF PersistError, Resume, IInv, InHand, TypeOK, TableOK, DataOK
    <2>2. /\ \/ Ids(stored') = Ids(stored)
             \/ Ids(stored') = Ids(stored) \o <<current>>
          /\ {k \in DOMAIN stored' : stored'[k].ok} = {k \in DOMAIN stored : stored[k].ok}
      BY <1>1, <2>1, IdsAppend DEF IInv, TypeOK
    <2> QED
      BY <2>1, <2>2 DEF Persisted!Fail
  <1>5. ASSUME NEW c \in Conns, BeginPersist(c)
        PROVE  Persisted!Begin
    <2>1. /\ hub = "select" /\ hub' = "persisting" /\ stored' = stored
          /\ current' = inbox[c] /\ inbox[c] \in 1 .. MaxFrames
      BY <1>1, <1>5 DEF BeginPersist, Take, dataVars, IInv, InHand, TypeOK, PumpOK, DataOK
    <2> QED
      BY <2>1 DEF Persisted!Begin
  <1>6. ASSUME NEW c \in Conns,
               \/ HubRegister(c) \/ HubUnregister(c) \/ (HubTake(c) /\ ~BeginPersist(c))
        PROVE  /\ hub = "select" /\ hub' # "persisting" /\ stored' = stored
    BY <1>6 DEF HubRegister, HubUnregister, HubTake, RelayPresence, RelayToUser,
                RelayToGroup, DropFrame, RefuseMessage, Take, dataVars, connVars
  <1>7. CASE HubQuit
    BY <1>7 DEF HubQuit, dataVars
  <1>8. ASSUME Stop \/ (\E c \in Conns : Connect(c) \/ PumpStep(c)) \/ UNCHANGED vars
        PROVE  UNCHANGED <<hub, current, stored>>
    BY <1>8 DEF Stop, Connect, PumpStep, Read, ReadError, ReaderClose, Write, WriteError,
                WriteClose, PingError, vars, dataVars
  <1> QED
    BY <1>1, <1>2, <1>3, <1>4, <1>5, <1>6, <1>7, <1>8 DEF Next, HubStep

(* The hub implements Persist: it calls CreateMessage for one message at a  *)
(* time and counts as stored what such a call has stored, once, whatever    *)
(* connections come and go meanwhile.                                       *)
THEOREM HubPersists == Spec => PersistSpec
  <1>1. Init => Persisted!Init
    BY DEF Init, Persisted!Init, Ids
  <1> QED
    BY InitIInv, NextIInv, PersistSimulation, <1>1, PTL DEF Spec, PersistSpec, Persisted!Spec
=============================================================================
