---------------------------- MODULE HubFeedProofs ----------------------------
(***************************************************************************)
(* Theorems of Hub about what the connections are told: every writer's     *)
(* channel is closed when the hub has returned, messages and acks follow   *)
(* their rows, a sender is answered once, a session's feed is the stored   *)
(* messages in order, and the presence a session knows is right.           *)
(***************************************************************************)
EXTENDS HubProofs, FiniteSetTheorems

(* A frame that a reader still offers or the hub is persisting.              *)
Pending(n) == current = n \/ \E c \in Conns : inbox[c] = n

(* The same of the next state, for an n of this one.                         *)
StillPending(n) == current' = n \/ \E c \in Conns : inbox'[c] = n

Asked(n) == IsUserMessage(offered[n].frame)
HasRow(n) == \E j \in 1 .. Len(stored) : stored[j].ok /\ stored[j].id = n
WillHaveRow(n) == \E j \in 1 .. Len(stored') : stored'[j].ok /\ stored'[j].id = n

(* The events of the hub's own that come of a user message; an "ack" that a  *)
(* client sent is not one.                                                   *)
Speaks(e) == e.event = "message" \/ Answer(e, e.id)

(* The layers of the invariant.  The pumps start with the registration, and *)
(* a connection that has pumps is in the table or has a closed channel.     *)
Started ==
  /\ \A c \in Conns : reader[c] \in {"absent", "registering"} <=> writer[c] = "none"
  /\ \A c \in Conns : writer[c] = "none" => wire[c] = <<>> /\ send[c] = <<>>
  /\ \A c \in Conns : writer[c] # "none" => c \in registered \/ c \in closed
  /\ hub = "returned" => registered = {}

(* A frame in hand was read on the connection that offers it, and is in no   *)
(* other hand.                                                               *)
Framed ==
  /\ \A n \in 1 .. Len(offered) : writer[offered[n].by] # "none"
  /\ \A c \in Conns : IF reader[c] = "offering" THEN offered[inbox[c]].by = c ELSE inbox[c] = 0
  /\ IF hub = "persisting" THEN Asked(current) ELSE current = 0
  /\ \A c \in Conns : inbox[c] # 0 => inbox[c] # current

(* The rows are of messages the hub is done with, one row for each.          *)
RowsOnce ==
  /\ \A j \in 1 .. Len(stored) : stored[j].id \in 1 .. Len(offered) /\ ~Pending(stored[j].id)
  /\ \A j, k \in 1 .. Len(stored) : stored[j].id = stored[k].id => j = k

(* What comes of a message comes when the hub is done with it, and says what *)
(* became of its row.                                                        *)
TellsRight(e) ==
  Speaks(e) => /\ e.id \in 1 .. Len(offered) /\ ~Pending(e.id)
               /\ e.event = "error" <=> ~HasRow(e.id)
WillTell(e) ==
  Speaks(e) => /\ e.id \in 1 .. Len(offered') /\ ~StillPending(e.id)
               /\ e.event = "error" <=> ~WillHaveRow(e.id)
Told == \A c \in Conns : \A i \in 1 .. Len(Seen(c)) : TellsRight(Seen(c)[i])

Answered ==
  \A n \in 1 .. Len(offered) :
    LET c == offered[n].by
    IN  Asked(n) /\ ~Pending(n) /\ writer[c] = "running" /\ c \in registered
        => \E i \in 1 .. Len(Seen(c)) :
             /\ Answer(Seen(c)[i], n)
             /\ \A k \in 1 .. Len(Seen(c)) : Answer(Seen(c)[k], n) => k = i

(* Feed, for a set of rows and the messages they are of.                     *)
FeedOf(s, due, id) ==
  /\ \A i \in 1 .. Len(s) :
       s[i].event = "message" => \E j \in due : s[i].id = id[j]
  /\ \A i \in 1 .. Len(s) : \A j, l \in due :
       s[i].event = "message" /\ s[i].id = id[j] /\ l < j
         => \E k \in 1 .. i - 1 : s[k].event = "message" /\ s[k].id = id[l]
  /\ \A i, k \in 1 .. Len(s) :
       i # k /\ s[i].event = "message" /\ s[k].event = "message" => s[i].id # s[k].id

(* Every row of a set has been told.                                         *)
CompleteOf(s, due, id) ==
  \A j \in due : \E i \in 1 .. Len(s) : s[i].event = "message" /\ s[i].id = id[j]

Ordered ==
  \A c \in Conns :
    /\ joined[c] <= Len(stored)
    /\ writer[c] # "none" => FeedOf(wire[c], Due(c), Ids(stored))
    /\ writer[c] = "running" => FeedOf(Seen(c), Due(c), Ids(stored))
    /\ writer[c] = "running" /\ c \in registered
         => CompleteOf(Seen(c), Due(c), Ids(stored))

-----------------------------------------------------------------------------
(* What a session has been told, and what it is told next.                   *)

LEMMA SeenTyped ==
  ASSUME QueueOK, PumpOK, NEW c \in Conns
  PROVE  /\ Seen(c) \in Seq(Event) /\ Len(Seen(c)) \in Nat
         /\ DOMAIN Seen(c) = 1 .. Len(Seen(c))
         /\ \A i \in 1 .. Len(Seen(c)) : Seen(c)[i] \in Event
  <1>1. wire[c] \in Seq(Event) /\ send[c] \in Seq(Event)
    BY DEF QueueOK, PumpOK
  <1>2. Seen(c) \in Seq(Event)
    BY <1>1 DEF Seen
  <1> QED
    BY <1>2, LenProperties, ElementOfSeq

LEMMA ConcatAppend ==
  ASSUME NEW s \in Seq(Event), NEW t \in Seq(Event), NEW e \in Event
  PROVE  s \o Append(t, e) = Append(s \o t, e)
  <1>1. /\ s \o Append(t, e) \in Seq(Event) /\ Append(s \o t, e) \in Seq(Event)
        /\ Len(s \o Append(t, e)) = Len(Append(s \o t, e))
    OBVIOUS
  <1>2. ASSUME NEW i \in 1 .. Len(s \o Append(t, e))
        PROVE  (s \o Append(t, e))[i] = Append(s \o t, e)[i]
    OBVIOUS
  <1> QED
    BY <1>1, <1>2, SeqEqual

(* The writer moves the head of the queue to the wire.                       *)
LEMMA HeadMoves ==
  ASSUME NEW s \in Seq(Event), NEW t \in Seq(Event), t # <<>>
  PROVE  Append(s, Head(t)) \o Tail(t) = s \o t
  <1>1. /\ Head(t) \in Event /\ Tail(t) \in Seq(Event) /\ Len(Tail(t)) = Len(t) - 1
        /\ Len(t) \in Nat \ {0} /\ Head(t) = t[1]
        /\ \A i \in 1 .. Len(t) - 1 : Tail(t)[i] = t[i + 1]
    BY HeadTailProperties, EmptySeq
  <1>2. /\ Append(s, Head(t)) \o Tail(t) \in Seq(Event) /\ s \o t \in Seq(Event)
        /\ Len(Append(s, Head(t)) \o Tail(t)) = Len(s \o t)
    BY <1>1
  <1>3. ASSUME NEW i \in 1 .. Len(s \o t)
        PROVE  (Append(s, Head(t)) \o Tail(t))[i] = (s \o t)[i]
    BY <1>1
  <1> QED
    BY <1>2, <1>3, SeqEqual

LEMMA HeadLost ==
  ASSUME NEW s \in Seq(Event), NEW t \in Seq(Event), t # <<>>
  PROVE  \A i \in 1 .. Len(s \o Tail(t)) : \E k \in 1 .. Len(s \o t) :
           (s \o Tail(t))[i] = (s \o t)[k]
  <1>1. /\ Tail(t) \in Seq(Event) /\ Len(Tail(t)) = Len(t) - 1
        /\ Len(t) \in Nat \ {0} /\ Len(s) \in Nat
        /\ \A i \in 1 .. Len(t) - 1 : Tail(t)[i] = t[i + 1]
    BY HeadTailProperties, EmptySeq, LenProperties
  <1>2. Len(s \o Tail(t)) = Len(s) + Len(t) - 1 /\ Len(s \o t) = Len(s) + Len(t)
    BY <1>1
  <1>3. SUFFICES ASSUME NEW i \in 1 .. Len(s \o Tail(t))
                 PROVE  \E k \in 1 .. Len(s \o t) : (s \o Tail(t))[i] = (s \o t)[k]
    OBVIOUS
  <1>4. CASE i <= Len(s)
    <2>1. i \in 1 .. Len(s \o t) /\ (s \o Tail(t))[i] = (s \o t)[i]
      BY <1>1, <1>2, <1>4
    <2> QED
      BY <2>1
  <1>5. CASE i > Len(s)
    <2>1. i \in Len(s) + 1 .. Len(s) + Len(t) - 1
      BY <1>1, <1>2, <1>5
    <2>2. i + 1 \in 1 .. Len(s \o t) /\ (s \o Tail(t))[i] = (s \o t)[i + 1]
      BY <1>1, <1>2, <2>1
    <2> QED
      BY <2>2
  <1> QED
    BY <1>1, <1>2, <1>4, <1>5

(* A handler that feeds "out" adds one event to what each connection of it   *)
(* that is not full has been told.                                           *)
LEMMA FedSeen ==
  ASSUME QueueOK, PumpOK, NEW cs, NEW D \in SUBSET Conns, NEW out \in [D -> Event],
         Fed(cs, out), wire' = wire, NEW c \in Conns
  PROVE  /\ c \in D /\ c \notin Full(out) => Seen(c)' = Append(Seen(c), out[c])
         /\ c \notin D \/ c \in Full(out) => Seen(c)' = Seen(c)
         /\ registered' = cs \ Full(out)
  <1>1. wire[c] \in Seq(Event) /\ send[c] \in Seq(Event)
    BY DEF QueueOK, PumpOK
  <1>4. registered' = cs \ Full(out)
    BY DEF Fed
  <1>2. CASE c \in D /\ c \notin Full(out)
    <2>1. send'[c] = Append(send[c], out[c]) /\ out[c] \in Event
      BY <1>2 DEF Fed, Enqueue
    <2>2. Seen(c)' = wire[c] \o Append(send[c], out[c])
      BY <2>1 DEF Seen
    <2>3. wire[c] \o Append(send[c], out[c]) = Append(wire[c] \o send[c], out[c])
      BY <1>1, <2>1, ConcatAppend
    <2> QED
      BY <1>2, <2>2, <2>3, <1>4 DEF Seen
  <1>3. CASE c \notin D \/ c \in Full(out)
    <2>1. send'[c] = send[c]
      BY <1>3 DEF Fed, Enqueue
    <2> QED
      BY <1>3, <2>1, <1>4 DEF Seen
  <1> QED
    BY <1>2, <1>3

-----------------------------------------------------------------------------
(* The first layer: which connections have pumps, and a queue to drain.      *)

(* A handler that feeds registered connections and starts no pumps.          *)
LEMMA FedStarted ==
  ASSUME IInv, Started, NEW cs \in SUBSET registered, NEW D \in SUBSET registered,
         NEW out \in [D -> Event], Fed(cs, out), Full(out) \subseteq closed',
         closed \subseteq closed', registered \subseteq cs \cup closed',
         wire' = wire, writer' = writer, hub' # "returned",
         \A c \in Conns : reader'[c] \in {"absent", "registering"}
                            <=> reader[c] \in {"absent", "registering"}
  PROVE  Started'
  <1>1. QueueOK /\ registered \subseteq Conns
    BY DEF IInv, TypeOK, TableOK
  <1>2. registered' = cs \ Full(out)
    BY DEF Fed
  <1>3. ASSUME NEW c \in Conns, writer[c] = "none"
        PROVE  send'[c] = <<>>
    <2>1. c \notin D /\ send[c] = <<>>
      BY <1>1, <1>3 DEF IInv, RegisteredOpen, Started
    <2> QED
      BY <1>1, <2>1, FedOpen
  <1> QED
    BY <1>1, <1>2, <1>3 DEF Started

LEMMA StartedStep == IInv /\ Started /\ [Next]_vars => Started'
  <1>1. SUFFICES ASSUME IInv, Started, [Next]_vars PROVE Started'
    OBVIOUS
  <1>2. TableOK /\ QueueOK /\ PumpOK
    BY <1>1 DEF IInv, TypeOK
  <1>3. registered \subseteq Conns
    BY <1>2 DEF TableOK
  <1>4. ASSUME NEW c \in Conns, HubRegister(c)
        PROVE  Started'
    <2> DEFINE out == ToAll(registered \cup {c}, PresenceEvent(UserOf[c], "user_online"))
    <2>1. out \in [registered \cup {c} -> Event]
      BY <1>3, HubAssumption, EventTyped DEF Presence
    <2>2. /\ Fed(registered \cup {c}, out) /\ closed' = closed \cup Full(out)
          /\ registered' = (registered \cup {c}) \ Full(out)
          /\ hub' = "select"
      BY <1>4 DEF HubRegister, Fed
    <2>3. /\ reader'[c] = "reading" /\ writer'[c] = "running"
          /\ wire' = wire
          /\ \A d \in Conns \ {c} : reader'[d] = reader[d] /\ writer'[d] = writer[d]
      BY <1>2, <1>4 DEF HubRegister, PumpOK
    <2> HIDE DEF out
    <2>4. ASSUME NEW d \in Conns, writer'[d] = "none"
          PROVE  send'[d] = <<>>
      <3>1. d # c /\ d \notin registered /\ send[d] = <<>>
        BY <1>1, <2>3, <2>4 DEF IInv, RegisteredOpen, Started
      <3>2. d \notin registered \cup {c}
        BY <3>1
      <3> QED
        BY <1>2, <2>1, <2>2, <3>1, <3>2, FedOpen
    <2> QED
      BY <1>1, <1>3, <2>2, <2>3, <2>4 DEF Started
  <1>5. ASSUME NEW c \in Conns, HubUnregister(c)
        PROVE  Started'
    <2> DEFINE left == registered \ {c}
               to   == IF IsLast(c) THEN left ELSE {}
               out  == IF IsLast(c) THEN ToAll(left, PresenceEvent(UserOf[c], "user_offline"))
                       ELSE Nobody
    <2>1. out \in [to -> Event] /\ to \in SUBSET registered
      BY <1>3, HubAssumption, EventTyped DEF Presence
    <2>2. Fed(left, out) /\ closed' = closed \cup Full(out) \cup {c} /\ hub' # "returned"
      BY <1>5 DEF HubUnregister
    <2>3. /\ wire' = wire /\ writer' = writer
          /\ \A d \in Conns : reader'[d] \in {"absent", "registering"}
                             <=> reader[d] \in {"absent", "registering"}
      BY <1>2, <1>5 DEF HubUnregister, PumpOK
    <2> HIDE DEF out, to
    <2> QED
      BY <1>1, <2>1, <2>2, <2>3, FedStarted
  <1>6. ASSUME NEW D \in SUBSET registered, NEW out \in [D -> Event], Fed(registered, out),
               closed' = closed \cup Full(out), OnlyTaken, wire' = wire, writer' = writer,
               hub' # "returned"
        PROVE  Started'
    <2>1. \A d \in Conns : reader'[d] \in {"absent", "registering"}
                           <=> reader[d] \in {"absent", "registering"}
      BY <1>6 DEF OnlyTaken
    <2> QED
      BY <1>1, <1>6, <2>1, FedStarted
  <1>7. ASSUME NEW c \in Conns, HubTake(c)
        PROVE  Started'
    <2>1. Take(c)
      BY <1>7 DEF HubTake, RelayPresence, RelayToUser, RelayToGroup, DropFrame,
         RefuseMessage, BeginPersist
    <2>2. OnlyTaken /\ wire' = wire /\ writer' = writer
      BY <1>2, <2>1 DEF Take, OnlyTaken, PumpOK
    <2>3. CASE BeginPersist(c)
      <3>1. /\ registered' = registered /\ send' = send /\ closed' = closed
            /\ hub' = "persisting"
        BY <2>3 DEF BeginPersist
      <3> QED
        BY <1>1, <2>2, <3>1 DEF Started, OnlyTaken
    <2>4. CASE ~BeginPersist(c)
      <3>1. PICK cs \in SUBSET registered, e \in Event : Route(cs, e) /\ UNCHANGED <<hub, current>>
        BY <1>1, <1>7, <2>4, TakeRoutes
      <3> DEFINE out == ToAll(cs, e)
      <3>2. /\ out \in [cs -> Event] /\ Fed(registered, out)
            /\ closed' = closed \cup Full(out) /\ hub' # "returned"
        BY <1>3, <2>1, <3>1, EventTyped DEF Route, Take
      <3> HIDE DEF out
      <3> QED
        BY <2>2, <3>2, <1>6
    <2> QED
      BY <2>3, <2>4
  <1>8. ASSUME PersistOk \/ PersistError
        PROVE  Started'
    <2>1. PICK D \in SUBSET registered : \E out \in [D -> Event] :
            Fed(registered, out) /\ closed' = closed \cup Full(out)
      BY <1>1, <1>8, PersistFeeds
    <2>2. reader' = reader /\ wire' = wire /\ writer' = writer /\ hub' = "select"
      BY <1>8 DEF PersistOk, PersistError, Resume, connVars
    <2>3. OnlyTaken
      BY <2>2 DEF OnlyTaken
    <2> QED
      BY <2>1, <2>2, <2>3, <1>6
  <1>9. ASSUME Stop \/ HubQuit \/ UNCHANGED vars
        PROVE  Started'
    <2>1. /\ reader' = reader /\ writer' = writer /\ wire' = wire /\ send' = send
          /\ \/ hub' = hub /\ registered' = registered /\ closed' = closed
             \/ hub' = "returned" /\ registered' = {} /\ closed' = closed \cup registered
      BY <1>9 DEF Stop, HubQuit, vars, connVars
    <2> QED
      BY <1>1, <2>1 DEF Started
  <1>10. ASSUME NEW c \in Conns, Connect(c) \/ PumpStep(c)
         PROVE  Started'
    <2>1. hub' = hub /\ registered' = registered /\ closed' = closed
      BY <1>10 DEF Connect, PumpStep, Read, ReadError, ReaderClose, Write, WriteError,
                   WriteClose, PingError
    <2>2. /\ \A d \in Conns : reader'[d] \in {"absent", "registering"}
                             <=> reader[d] \in {"absent", "registering"}
          /\ \A d \in Conns : writer'[d] = "none" <=> writer[d] = "none"
      BY <1>2, <1>10 DEF Connect, PumpStep, Read, ReadError, ReaderClose, Write, WriteError,
                   WriteClose, PingError, WriterGone, WriterStep, PumpOK
    <2>3. ASSUME NEW d \in Conns, writer[d] = "none"
          PROVE  wire'[d] = wire[d] /\ send'[d] = send[d]
      <3>1. \/ wire' = wire /\ send' = send
            \/ /\ writer[c] = "running"
               /\ wire' = wire \/ wire' = [wire EXCEPT ![c] = Append(@, Head(send[c]))]
               /\ send' = [send EXCEPT ![c] = Tail(@)]
        BY <1>10 DEF Connect, PumpStep, Read, ReadError, ReaderClose, Write, WriteError,
                     WriteClose, PingError, WriterStep
      <3> QED
        BY <2>3, <3>1, <1>2 DEF PumpOK, QueueOK
    <2> QED
      BY <1>1, <2>1, <2>2, <2>3 DEF Started
  <1> QED
    BY <1>1, <1>4, <1>5, <1>7, <1>8, <1>9, <1>10 DEF Next, HubStep

(* When the hub has returned, the table is empty and every channel that a   *)
(* writer drains is closed: the quit case reaches every session, and those  *)
(* that left the table before it were closed when they left.                *)
THEOREM ReturnedClosed == Spec => []ReturnedClosesAll
  <1>1. Init => Started
    BY DEF Init, Started
  <1>2. Started => ReturnedClosesAll
    BY DEF Started, ReturnedClosesAll
  <1> QED
    BY InitIInv, NextIInv, StartedStep, <1>1, <1>2, PTL DEF Spec

-----------------------------------------------------------------------------
(* The second layer: the frames in hand.                                     *)

(* A record read from the sequence of frames.                                *)
LEMMA OfferedTyped ==
  ASSUME DataOK, NEW n \in 1 .. Len(offered)
  PROVE  /\ offered[n].by \in Conns /\ offered[n].frame \in Frame
         /\ UserOf[offered[n].by] \in Users
  <1>1. offered[n] \in [by : Conns, frame : Frames]
    BY ElementOfSeq DEF DataOK
  <1> QED
    BY <1>1, HubAssumption

(* A frame that is read is added to the others.                              *)
LEMMA ReadAppends ==
  ASSUME IInv, NEW c \in Conns, Read(c)
  PROVE  /\ Len(offered) \in Nat /\ Len(offered') = Len(offered) + 1
         /\ \A n \in 1 .. Len(offered) : offered'[n] = offered[n]
         /\ offered'[Len(offered) + 1].by = c
  <1>1. PICK f \in Frames : offered' = Append(offered, [by |-> c, frame |-> f])
    BY DEF Read
  <1>2. /\ offered \in Seq([by : Conns, frame : Frames])
        /\ [by |-> c, frame |-> f] \in [by : Conns, frame : Frames]
    BY DEF IInv, TypeOK, DataOK
  <1>3. [by |-> c, frame |-> f].by = c
    OBVIOUS
  <1> DEFINE r == [by |-> c, frame |-> f]
  <1> HIDE DEF r
  <1>4. /\ Len(offered) \in Nat /\ Len(offered') = Len(offered) + 1
        /\ \A n \in 1 .. Len(offered) : offered'[n] = offered[n]
        /\ offered'[Len(offered) + 1] = r
    <2>1. offered' = Append(offered, r)
      BY <1>1 DEF r
    <2> QED
      BY <1>2, <2>1, AppendProperties
  <1> QED
    BY <1>3, <1>4 DEF r

(* The frames read before stay, and what no step but Read adds.              *)
LEMMA OfferedStays ==
  ASSUME IInv, [Next]_vars
  PROVE  /\ offered' = offered \/ \E c \in Conns : Read(c)
         /\ Len(offered) \in Nat /\ Len(offered') \in Nat /\ Len(offered') >= Len(offered)
         /\ \A n \in 1 .. Len(offered) : offered'[n] = offered[n]
  <1>1. offered' = offered \/ \E c \in Conns : Read(c)
    BY DEF Next, HubStep, HubTake, HubRegister, HubUnregister, RelayPresence, RelayToUser,
           RelayToGroup, DropFrame, RefuseMessage, BeginPersist, Take, PersistOk,
           PersistError, Resume,
           HubQuit, Stop, Connect, PumpStep, ReadError, ReaderClose, Write, WriteError,
           WriteClose, PingError, vars, dataVars
  <1>2. Len(offered) \in Nat
    BY DEF IInv, TypeOK, DataOK
  <1>3. CASE offered' = offered
    BY <1>1, <1>2, <1>3
  <1>4. CASE \E c \in Conns : Read(c)
    BY <1>1, <1>4, ReadAppends
  <1> QED
    BY <1>1, <1>3, <1>4

LEMMA FramedStep == IInv /\ Started /\ Framed /\ [Next]_vars => Framed'
  <1>1. SUFFICES ASSUME IInv, Started, Framed, [Next]_vars PROVE Framed'
    OBVIOUS
  <1>2. TableOK /\ PumpOK /\ DataOK /\ InHand
    BY <1>1 DEF IInv, TypeOK
  <1>3. /\ Len(offered) \in Nat
        /\ \A n \in 1 .. Len(offered) : offered[n].by \in Conns
    BY <1>2, OfferedTyped DEF DataOK
  <1>4. \A c \in Conns : writer[c] # "none" => writer'[c] # "none"
    BY ZenonT(40), <1>1, <1>2 DEF Next, HubStep, HubTake, HubRegister, HubUnregister, RelayPresence,
           RelayToUser, RelayToGroup, DropFrame, RefuseMessage, BeginPersist, Take, PersistOk,
           PersistError, Resume, HubQuit, Stop, Connect, PumpStep, Read, ReadError,
           ReaderClose, Write, WriteError, WriteClose, PingError, WriterGone, vars,
           connVars, PumpOK
  <1>5. ASSUME NEW c \in Conns, Read(c)
        PROVE  Framed'
    <2>1. /\ Len(offered') = Len(offered) + 1
          /\ \A n \in 1 .. Len(offered) : offered'[n] = offered[n]
          /\ offered'[Len(offered) + 1].by = c
      BY <1>1, <1>5, ReadAppends
    <2>2. /\ reader[c] = "reading" /\ reader'[c] = "offering"
          /\ inbox'[c] = Len(offered) + 1
          /\ \A d \in Conns \ {c} : reader'[d] = reader[d] /\ inbox'[d] = inbox[d]
          /\ hub' = hub /\ current' = current
      BY <1>2, <1>5 DEF Read, PumpOK
    <2>3. \A n \in 1 .. Len(offered') : writer'[offered'[n].by] # "none"
      <3>1. writer'[c] # "none"
        BY <1>1, <1>4, <2>2 DEF Started
      <3>2. ASSUME NEW n \in 1 .. Len(offered')
            PROVE  n \in 1 .. Len(offered) \/ n = Len(offered) + 1
        BY <1>3, <2>1
      <3> QED
        BY <1>1, <1>3, <1>4, <2>1, <3>1, <3>2 DEF Framed
    <2>4. \A d \in Conns : IF reader'[d] = "offering" THEN offered'[inbox'[d]].by = d
                           ELSE inbox'[d] = 0
      BY <1>1, <1>2, <2>1, <2>2 DEF Framed, InHand
    <2>5. IF hub' = "persisting" THEN IsUserMessage(offered'[current'].frame) ELSE current' = 0
      BY <1>1, <1>2, <2>1, <2>2 DEF Framed, InHand, Asked
    <2>6. \A d \in Conns : inbox'[d] # 0 => inbox'[d] # current'
      <3>1. current # Len(offered) + 1
        BY <1>1, <1>2, <1>3 DEF Framed, InHand
      <3> QED
        BY <1>1, <2>2, <3>1 DEF Framed
    <2> QED
      BY <2>3, <2>4, <2>5, <2>6 DEF Framed, Asked
  <1>6. ASSUME offered' = offered, hub' # "persisting" => current' = 0,
               hub' = "persisting" => Asked(current'),
               \A c \in Conns : /\ IF reader'[c] = "offering"
                                   THEN reader[c] = "offering" /\ inbox'[c] = inbox[c]
                                   ELSE inbox'[c] = 0
                                /\ inbox'[c] # 0 => inbox'[c] # current'
        PROVE  Framed'
    <2>1. \A n \in 1 .. Len(offered') : writer'[offered'[n].by] # "none"
      BY <1>1, <1>3, <1>4, <1>6 DEF Framed
    <2> QED
      BY <1>1, <1>6, <2>1 DEF Framed, Asked
  <1>7. ASSUME NEW c \in Conns, HubTake(c)
        PROVE  Framed'
    <2>1. Take(c)
      BY <1>7 DEF HubTake, RelayPresence, RelayToUser, RelayToGroup, DropFrame,
         RefuseMessage, BeginPersist
    <2>2. /\ hub = "select" /\ reader[c] = "offering" /\ reader'[c] = "reading"
          /\ inbox'[c] = 0 /\ offered' = offered
          /\ \A d \in Conns \ {c} : reader'[d] = reader[d] /\ inbox'[d] = inbox[d]
      BY <1>2, <2>1 DEF Take, PumpOK, dataVars
    <2>3. CASE BeginPersist(c)
      <3>1. hub' = "persisting" /\ current' = inbox[c] /\ Asked(inbox[c])
        BY <2>3 DEF BeginPersist, FrameOf, Asked
      <3>2. \A d \in Conns \ {c} : inbox[d] # 0 => inbox[d] # inbox[c]
        BY <1>1, <2>2 DEF Framed
      <3> QED
        BY <1>1, <1>6, <2>2, <3>1, <3>2 DEF Framed
    <2>4. CASE ~BeginPersist(c)
      <3>1. hub' = hub /\ current' = current
        BY <1>7, <2>4 DEF HubTake, RelayPresence, RelayToUser, RelayToGroup, DropFrame,
           RefuseMessage
      <3> QED
        BY <1>1, <1>6, <2>2, <3>1 DEF Framed
    <2> QED
      BY <2>3, <2>4
  <1>8. ASSUME NEW c \in Conns, HubRegister(c) \/ HubUnregister(c)
        PROVE  Framed'
    <2>1. /\ offered' = offered /\ current' = current /\ inbox' = inbox
          /\ hub = "select" /\ hub' # "persisting"
          /\ reader[c] # "offering" /\ reader'[c] # "offering"
          /\ \A d \in Conns \ {c} : reader'[d] = reader[d]
      BY <1>2, <1>8 DEF HubRegister, HubUnregister, PumpOK, dataVars
    <2> QED
      BY <1>1, <1>6, <2>1 DEF Framed
  <1>9. ASSUME PersistOk \/ PersistError
        PROVE  Framed'
    <2>1. /\ offered' = offered /\ inbox' = inbox /\ reader' = reader
          /\ hub' = "select" /\ current' = 0
      BY <1>9 DEF PersistOk, PersistError, Resume, connVars
    <2> QED
      BY <1>1, <1>6, <2>1 DEF Framed
  <1>10. ASSUME HubQuit \/ Stop \/ UNCHANGED vars
         PROVE  Framed'
    <2>1. /\ offered' = offered /\ inbox' = inbox /\ reader' = reader /\ current' = current
          /\ hub' = hub \/ (hub = "select" /\ hub' = "returned")
      BY <1>10 DEF HubQuit, Stop, vars, connVars, dataVars
    <2> QED
      BY <1>1, <1>6, <2>1 DEF Framed
  <1>11. ASSUME NEW c \in Conns, Connect(c) \/ PumpStep(c), ~Read(c)
         PROVE  Framed'
    <2>1. /\ offered' = offered /\ inbox' = inbox /\ current' = current /\ hub' = hub
          /\ \/ reader' = reader
             \/ /\ reader[c] # "offering" /\ reader'[c] # "offering"
                /\ \A d \in Conns \ {c} : reader'[d] = reader[d]
      BY <1>2, <1>11 DEF Connect, PumpStep, ReadError, ReaderClose, Write, WriteError,
                   WriteClose, PingError, PumpOK, dataVars
    <2> QED
      BY <1>1, <1>6, <2>1 DEF Framed
  <1> QED
    BY <1>1, <1>5, <1>7, <1>8, <1>9, <1>10, <1>11 DEF Next, HubStep, PumpStep

(* How frames come into hand and leave it: a message leaves it refused or    *)
(* with the end of its CreateMessage.                                        *)
LEMMA PendingStep ==
  ASSUME IInv, Started, Framed, [Next]_vars
  PROVE  /\ \A n \in 1 .. Len(offered) : StillPending(n) => Pending(n)
         /\ \A n \in 1 .. Len(offered') : n \notin 1 .. Len(offered) => StillPending(n)
         /\ \A n \in 1 .. Len(offered) : Asked(n) /\ Pending(n) =>
              \/ StillPending(n)
              \/ \E c \in Conns : RefuseMessage(c) /\ n = inbox[c]
              \/ (PersistOk \/ PersistError) /\ n = current
         /\ stored' = stored \/ PersistOk \/ PersistError
  <1>1. TableOK /\ PumpOK /\ DataOK /\ Len(offered) \in Nat
    BY DEF IInv, TypeOK, DataOK
  <1>2. offered' = offered \/ \E c \in Conns : Read(c)
    BY OfferedStays
  <1>3. stored' = stored \/ PersistOk \/ PersistError
    BY DEF Next, HubStep, HubTake, HubRegister, HubUnregister, RelayPresence, RelayToUser,
           RelayToGroup, DropFrame, RefuseMessage, BeginPersist, Take, HubQuit, Stop,
           Connect, PumpStep,
           Read, ReadError, ReaderClose, Write, WriteError, WriteClose, PingError, vars,
           dataVars
  <1>4. CASE \E c \in Conns : Read(c)
    <2>1. PICK c \in Conns : Read(c)
      BY <1>4
    <2>2. /\ Len(offered') = Len(offered) + 1 /\ current' = current
          /\ inbox[c] = 0 /\ inbox'[c] = Len(offered) + 1
          /\ \A d \in Conns \ {c} : inbox'[d] = inbox[d]
      BY <1>1, <2>1, ReadAppends DEF Read, Framed, PumpOK
    <2>3. \A n \in 1 .. Len(offered') : n \notin 1 .. Len(offered) => n = Len(offered) + 1
      BY <1>1, <2>2
    <2>4. \A n \in 1 .. Len(offered) : n # 0 /\ n # Len(offered) + 1
      BY <1>1
    <2> QED
      BY <1>3, <2>2, <2>3, <2>4 DEF Pending, StillPending
  <1>5. ASSUME NEW c \in Conns, HubTake(c)
        PROVE  /\ \A n \in 1 .. Len(offered) : StillPending(n) => Pending(n)
               /\ \A n \in 1 .. Len(offered) : Asked(n) /\ Pending(n) =>
                    StillPending(n) \/ (RefuseMessage(c) /\ n = inbox[c])
    <2>1. Take(c)
      BY <1>5 DEF HubTake, RelayPresence, RelayToUser, RelayToGroup, DropFrame,
         RefuseMessage, BeginPersist
    <2>2. /\ hub = "select" /\ inbox'[c] = 0
          /\ \A d \in Conns \ {c} : inbox'[d] = inbox[d]
      BY <1>1, <2>1 DEF Take, PumpOK
    <2>3. current = 0
      BY <2>2 DEF Framed
    <2>4. CASE BeginPersist(c)
      BY <2>2, <2>3, <2>4 DEF BeginPersist, Pending, StillPending
    <2>5. CASE ~BeginPersist(c)
      <3>1. current' = current
        BY <1>5, <2>5 DEF HubTake, RelayPresence, RelayToUser, RelayToGroup, DropFrame,
           RefuseMessage
      <3>2. ~RefuseMessage(c) => ~Asked(inbox[c])
        BY <1>5, <2>5 DEF HubTake, RelayPresence, RelayToUser, RelayToGroup, DropFrame,
           Asked, FrameOf,
                         IsUserMessage, Presence
      <3> QED
        BY <2>2, <3>1, <3>2 DEF Pending, StillPending
    <2> QED
      BY <2>4, <2>5
  <1>6. CASE PersistOk \/ PersistError
    <2>1. inbox' = inbox /\ current' = 0
      BY <1>6 DEF PersistOk, PersistError, Resume, connVars
    <2> QED
      BY <1>2, <1>3, <1>4, <1>6, <2>1 DEF Pending, StillPending
  <1>7. CASE UNCHANGED <<inbox, current>>
    BY <1>2, <1>3, <1>4, <1>7 DEF Pending, StillPending
  <1>8. \/ \E c \in Conns : Read(c) \/ HubTake(c)
        \/ PersistOk \/ PersistError
        \/ UNCHANGED <<inbox, current>>
    BY DEF Next, HubStep, HubRegister, HubUnregister, HubQuit, Stop, Connect, PumpStep,
           ReadError, ReaderClose, Write, WriteError, WriteClose, PingError, vars, connVars
  <1> QED
    BY <1>2, <1>3, <1>4, <1>5, <1>6, <1>7, <1>8

-----------------------------------------------------------------------------
(* What each handler tells a connection d.                                   *)

(* Nothing, or an event that does not come of a message.                     *)
Quiet(d) ==
  \/ Seen(d)' = Seen(d)
  \/ \E e \in Event : ~Speaks(e) /\ Seen(d)' = Append(Seen(d), e)

LEMMA RelayTold ==
  ASSUME IInv, NEW c \in Conns, HubTake(c), ~RefuseMessage(c), ~BeginPersist(c),
         NEW d \in Conns
  PROVE  \/ Seen(d)' = Seen(d)
         \/ \E e \in Event : /\ Seen(d)' = Append(Seen(d), e) /\ ~Speaks(e)
                             /\ e.event \in Presence => RelayPresence(c)
  <1> DEFINE Goal == \/ Seen(d)' = Seen(d)
                     \/ \E e \in Event : /\ Seen(d)' = Append(Seen(d), e) /\ ~Speaks(e)
                                         /\ e.event \in Presence => RelayPresence(c)
  <1>1. TableOK /\ QueueOK /\ PumpOK /\ DataOK /\ registered \subseteq Conns
    BY DEF IInv, TypeOK, TableOK
  <1>2. Take(c) /\ wire' = wire
    BY DEF HubTake, RelayPresence, RelayToUser, RelayToGroup, DropFrame, Take
  <1>3. /\ inbox[c] \in 0 .. MaxFrames /\ UserOf[c] \in Users
        /\ FrameOf(c) \in Frame
    BY <1>1, <1>2, OfferedTyped, HubAssumption DEF Take, IInv, InHand, FrameOf, PumpOK
  <1>4. ASSUME NEW cs \in SUBSET registered, NEW e \in Event, Route(cs, e),
               \/ ~Speaks(e) /\ (e.event \in Presence => RelayPresence(c))
               \/ cs = {}
        PROVE  Goal
    <2> DEFINE out == ToAll(cs, e)
    <2>1. out \in [cs -> Event] /\ Fed(registered, out) /\ cs \in SUBSET Conns
      BY <1>1, <1>4, EventTyped DEF Route
    <2>2. d \in cs => out[d] = e
      BY DEF ToAll
    <2> HIDE DEF out
    <2>3. (Seen(d)' = Append(Seen(d), e) /\ d \in cs) \/ Seen(d)' = Seen(d)
      BY <1>1, <1>2, <2>1, <2>2, FedSeen
    <2> QED
      BY <1>4, <2>3
  <1>5. CASE RelayPresence(c)
    <2> DEFINE e == PresenceEvent(UserOf[c], FrameOf(c).event)
    <2>1. e \in Event /\ ~Speaks(e) /\ Route(registered, e)
      BY <1>3, <1>5, EventTyped DEF RelayPresence, Presence, PresenceEvent, Speaks, Answer
    <2> HIDE DEF e
    <2> QED
      BY <1>4, <1>5, <2>1
  <1>6. CASE RelayToUser(c)
    <2> DEFINE e == [event |-> FrameOf(c).event, from |-> UserOf[c], id |-> inbox[c]]
    <2>1. FrameOf(c).event \in Events \ (Presence \cup {"message"})
      BY <1>3, <1>6 DEF RelayToUser, Frame, IsUserMessage
    <2>2. /\ e \in Event /\ ~Speaks(e) /\ e.event \notin Presence
          /\ Route(ConnsOf(FrameOf(c).to), e)
      BY <1>3, <1>6, <2>1, EventTyped, HubAssumption DEF RelayToUser, Speaks, Answer
    <2>3. ConnsOf(FrameOf(c).to) \in SUBSET registered
      BY DEF ConnsOf
    <2> HIDE DEF e
    <2> QED
      BY <1>4, <2>2, <2>3
  <1>7. CASE RelayToGroup(c)
    <2> DEFINE e == [event |-> FrameOf(c).event, from |-> UserOf[c], id |-> inbox[c]]
    <2>1. FrameOf(c).event \in Events
      BY <1>3 DEF Frame, Events
    <2>2. e \in Event /\ Route(RoomConns(FrameOf(c).to), e)
      BY <1>3, <1>7, <2>1, EventTyped DEF RelayToGroup
    <2>3. RoomConns(FrameOf(c).to) = {}
      BY DEF RoomConns, rooms
    <2> HIDE DEF e
    <2> QED
      BY <1>4, <2>2, <2>3
  <1>8. CASE DropFrame(c)
    BY <1>2, <1>8 DEF DropFrame, Seen
  <1> QED
    BY <1>5, <1>6, <1>7, <1>8 DEF HubTake

(* Presence of the hub's own.                                                *)
LEMMA RegisterTold ==
  ASSUME IInv, NEW c \in Conns, HubRegister(c), NEW d \in Conns
  PROVE  LET e == PresenceEvent(UserOf[c], "user_online")
         IN  /\ e \in Event
             /\ \/ Seen(d)' = Append(Seen(d), e) /\ d \in registered \cup {c}
                \/ Seen(d)' = Seen(d) /\ d \notin registered'
             /\ registered' \subseteq registered \cup {c}
  <1> DEFINE e == PresenceEvent(UserOf[c], "user_online")
             out == ToAll(registered \cup {c}, e)
  <1>1. QueueOK /\ PumpOK /\ registered \cup {c} \in SUBSET Conns
    BY DEF IInv, TypeOK, TableOK
  <1>2. e \in Event
    BY HubAssumption, EventTyped DEF Presence
  <1>3. /\ out \in [registered \cup {c} -> Event]
        /\ \A x \in registered \cup {c} : out[x] = e
    BY <1>1, <1>2, EventTyped DEF ToAll
  <1>4. Fed(registered \cup {c}, out) /\ wire' = wire
    BY DEF HubRegister
  <1> HIDE DEF out, e
  <1>5. /\ d \in registered \cup {c} /\ d \notin Full(out) => Seen(d)' = Append(Seen(d), out[d])
        /\ d \notin registered \cup {c} \/ d \in Full(out) => Seen(d)' = Seen(d)
        /\ registered' = (registered \cup {c}) \ Full(out)
    BY <1>1, <1>3, <1>4, FedSeen
  <1> QED
    BY <1>2, <1>3, <1>5 DEF e

LEMMA UnregisterTold ==
  ASSUME IInv, NEW c \in Conns, HubUnregister(c), NEW d \in Conns
  PROVE  LET e == PresenceEvent(UserOf[c], "user_offline")
         IN  /\ e \in Event
             /\ \/ Seen(d)' = Append(Seen(d), e) /\ IsLast(c) /\ d \in registered
                \/ Seen(d)' = Seen(d) /\ (d \notin registered' \/ ~IsLast(c))
             /\ registered' \subseteq registered \ {c}
  <1> DEFINE left == registered \ {c}
             to   == IF IsLast(c) THEN left ELSE {}
             e    == PresenceEvent(UserOf[c], "user_offline")
             out  == IF IsLast(c) THEN ToAll(left, e) ELSE Nobody
  <1>1. QueueOK /\ PumpOK /\ registered \subseteq Conns /\ to \in SUBSET Conns
    BY DEF IInv, TypeOK, TableOK
  <1>2. e \in Event
    BY HubAssumption, EventTyped DEF Presence
  <1>3. out \in [to -> Event] /\ \A x \in to : out[x] = e
    BY <1>1, <1>2, EventTyped DEF ToAll
  <1>4. Fed(left, out) /\ wire' = wire
    BY DEF HubUnregister
  <1>5. to \subseteq left /\ (IsLast(c) => to = left) /\ (to # {} => IsLast(c))
    OBVIOUS
  <1> HIDE DEF out, e, to
  <1>6. /\ d \in to /\ d \notin Full(out) => Seen(d)' = Append(Seen(d), out[d])
        /\ d \notin to \/ d \in Full(out) => Seen(d)' = Seen(d)
        /\ registered' = left \ Full(out)
    BY <1>1, <1>3, <1>4, FedSeen
  <1> QED
    BY <1>2, <1>3, <1>5, <1>6 DEF e

(* An error goes to every connection of a user that stays in the table.      *)
LEMMA ErrorTold ==
  ASSUME IInv, NEW u \in Users, NEW n \in 0 .. MaxFrames, wire' = wire,
         Fed(registered, ToAll(ConnsOf(u), [event |-> "error", from |-> System, id |-> n])),
         NEW d \in Conns
  PROVE  LET e == [event |-> "error", from |-> System, id |-> n]
         IN  /\ e \in Event
             /\ \/ Seen(d)' = Append(Seen(d), e) /\ UserOf[d] = u
                \/ Seen(d)' = Seen(d) /\ (d \notin registered' \/ UserOf[d] # u)
             /\ registered' \subseteq registered
  <1> DEFINE e   == [event |-> "error", from |-> System, id |-> n]
             out == ToAll(ConnsOf(u), e)
  <1>1. QueueOK /\ PumpOK /\ registered \subseteq Conns
    BY DEF IInv, TypeOK, TableOK
  <1>2. e \in Event
    BY EventTyped DEF Events
  <1>3. ConnsOf(u) \in SUBSET Conns
    BY <1>1 DEF ConnsOf
  <1>4. /\ out \in [ConnsOf(u) -> Event]
        /\ \A x \in ConnsOf(u) : out[x] = e
    BY <1>2, <1>3, EventTyped DEF ToAll
  <1> HIDE DEF out, e
  <1>5. /\ d \in ConnsOf(u) /\ d \notin Full(out) => Seen(d)' = Append(Seen(d), out[d])
        /\ d \notin ConnsOf(u) \/ d \in Full(out) => Seen(d)' = Seen(d)
        /\ registered' = registered \ Full(out)
    BY <1>1, <1>3, <1>4, FedSeen DEF out, e
  <1> QED
    BY <1>2, <1>4, <1>5 DEF e, ConnsOf

LEMMA RefuseTold ==
  ASSUME IInv, NEW c \in Conns, RefuseMessage(c), NEW d \in Conns
  PROVE  LET e == [event |-> "error", from |-> System, id |-> inbox[c]]
         IN  /\ e \in Event
             /\ \/ Seen(d)' = Append(Seen(d), e) /\ UserOf[d] = UserOf[c]
                \/ Seen(d)' = Seen(d) /\ (d \notin registered' \/ UserOf[d] # UserOf[c])
             /\ registered' \subseteq registered
  <1>1. /\ UserOf[c] \in Users /\ inbox[c] \in 0 .. MaxFrames
        /\ wire' = wire
        /\ Fed(registered, ToAll(ConnsOf(UserOf[c]),
                                 [event |-> "error", from |-> System, id |-> inbox[c]]))
    BY HubAssumption DEF IInv, TypeOK, PumpOK, RefuseMessage, Route, Take
  <1> QED
    BY <1>1, ErrorTold

LEMMA PersistErrorTold ==
  ASSUME IInv, PersistError, NEW d \in Conns
  PROVE  LET e == [event |-> "error", from |-> System, id |-> current]
         IN  /\ e \in Event
             /\ \/ Seen(d)' = Append(Seen(d), e) /\ UserOf[d] = Sender
                \/ Seen(d)' = Seen(d) /\ (d \notin registered' \/ UserOf[d] # Sender)
             /\ registered' \subseteq registered
  <1>1. DataOK /\ current \in 0 .. MaxFrames /\ current \in 1 .. Len(offered)
    BY DEF IInv, TypeOK, TableOK, InHand, PersistError, Resume
  <1>2. /\ Sender \in Users /\ wire' = wire
        /\ Fed(registered, ToAll(ConnsOf(Sender),
                                 [event |-> "error", from |-> System, id |-> current]))
    BY <1>1, OfferedTyped DEF PersistError, Resume, connVars, Failure, Sender
  <1> QED
    BY <1>1, <1>2, ErrorTold

(* The message goes to the receiver and the ack to the sender.                *)
LEMMA PersistOkTold ==
  ASSUME IInv, PersistOk, NEW d \in Conns
  PROVE  LET m == [event |-> "message", from |-> Sender, id |-> current]
             a == [event |-> "ack", from |-> System, id |-> current]
         IN  /\ m \in Event /\ a \in Event /\ Sender # Receiver
             /\ \/ Seen(d)' = Append(Seen(d), m) /\ UserOf[d] = Receiver /\ d \in registered
                \/ Seen(d)' = Append(Seen(d), a) /\ UserOf[d] = Sender /\ d \in registered
                \/ /\ Seen(d)' = Seen(d)
                   /\ d \notin registered' \/ UserOf[d] \notin {Sender, Receiver}
             /\ registered' \subseteq registered
  <1> DEFINE m == [event |-> "message", from |-> Sender, id |-> current]
             a == [event |-> "ack", from |-> System, id |-> current]
             to == ConnsOf(Receiver) \cup ConnsOf(Sender)
  <1>1. /\ QueueOK /\ PumpOK /\ DataOK /\ registered \subseteq Conns
        /\ current \in 0 .. MaxFrames /\ current \in 1 .. Len(offered)
    BY DEF IInv, TypeOK, TableOK, InHand, PersistOk, Resume
  <1>2. /\ Sender \in Users /\ Sender # Receiver /\ wire' = wire
        /\ Fed(registered, Delivery)
    BY <1>1, OfferedTyped DEF PersistOk, Resume, connVars, Sender
  <1>3. m \in Event /\ a \in Event
    BY <1>1, <1>2, EventTyped DEF Events
  <1>4. to \in SUBSET Conns
    BY <1>1 DEF ConnsOf
  <1>5. /\ Delivery \in [to -> Event]
        /\ \A x \in to : Delivery[x] = IF UserOf[x] = Receiver THEN m ELSE a
    BY <1>3 DEF Delivery
  <1>6. \A x \in to : x \in registered /\ UserOf[x] \in {Sender, Receiver}
    BY DEF ConnsOf
  <1>7. \A x \in registered : x \notin to => UserOf[x] \notin {Sender, Receiver}
    BY DEF ConnsOf
  <1> HIDE DEF m, a, to
  <1>8. /\ d \in to /\ d \notin Full(Delivery) => Seen(d)' = Append(Seen(d), Delivery[d])
        /\ d \notin to \/ d \in Full(Delivery) => Seen(d)' = Seen(d)
        /\ registered' = registered \ Full(Delivery)
    BY <1>1, <1>2, <1>4, <1>5, FedSeen
  <1> QED
    BY <1>2, <1>3, <1>5, <1>6, <1>7, <1>8 DEF m, a

(* The pumps tell nothing new; a writer that fails loses the head of its      *)
(* queue and is done.                                                        *)
Lost(d) ==
  /\ writer'[d] = "done" /\ wire'[d] = wire[d]
  /\ \A i \in 1 .. Len(Seen(d)') : \E k \in 1 .. Len(Seen(d)) : Seen(d)'[i] = Seen(d)[k]

LEMMA PumpsTold ==
  ASSUME IInv, NEW c \in Conns, Connect(c) \/ PumpStep(c), NEW d \in Conns
  PROVE  Seen(d)' = Seen(d) \/ Lost(d)
  <1>1. QueueOK /\ PumpOK
    BY DEF IInv, TypeOK
  <1>2. wire[d] \in Seq(Event) /\ send[d] \in Seq(Event)
    BY <1>1 DEF QueueOK, PumpOK
  <1>3. CASE Write(c)
    <2>1. CASE d = c
      <3>1. /\ send[d] # <<>> /\ wire'[d] = Append(wire[d], Head(send[d]))
            /\ send'[d] = Tail(send[d])
        BY <1>1, <1>3, <2>1 DEF Write, QueueOK, PumpOK
      <3>2. Append(wire[d], Head(send[d])) \o Tail(send[d]) = wire[d] \o send[d]
        BY <1>2, <3>1, HeadMoves
      <3> QED
        BY <3>1, <3>2 DEF Seen
    <2>2. CASE d # c
      BY <1>1, <1>3, <2>2 DEF Write, QueueOK, PumpOK, Seen
    <2> QED
      BY <2>1, <2>2
  <1>4. CASE WriteError(c)
    <2>1. CASE d = c
      <3>1. /\ send[d] # <<>> /\ wire' = wire /\ writer'[d] = "done"
            /\ send'[d] = Tail(send[d])
        BY <1>1, <1>4, <2>1 DEF WriteError, WriterGone, QueueOK, PumpOK
      <3>2. Seen(d)' = wire[d] \o Tail(send[d])
        BY <3>1 DEF Seen
      <3>3. \A i \in 1 .. Len(wire[d] \o Tail(send[d])) :
              \E k \in 1 .. Len(wire[d] \o send[d]) :
                (wire[d] \o Tail(send[d]))[i] = (wire[d] \o send[d])[k]
        BY <1>2, <3>1, HeadLost
      <3>4. \A i \in 1 .. Len(Seen(d)') : \E k \in 1 .. Len(Seen(d)) : Seen(d)'[i] = Seen(d)[k]
        BY <3>2, <3>3, Zenon DEF Seen
      <3> QED
        BY <3>1, <3>4 DEF Lost
    <2>2. CASE d # c
      BY <1>1, <1>4, <2>2 DEF WriteError, QueueOK, Seen
    <2> QED
      BY <2>1, <2>2
  <1>5. CASE ~Write(c) /\ ~WriteError(c)
    <2>1. wire' = wire /\ send' = send
      BY <1>5 DEF Connect, PumpStep, Read, ReadError, ReaderClose, WriteClose, PingError
    <2> QED
      BY <2>1 DEF Seen
  <1> QED
    BY <1>3, <1>4, <1>5

(* What a connection is told in a step that answers no message.               *)
LEMMA QuietStep ==
  ASSUME IInv, [Next]_vars, ~(PersistOk \/ PersistError),
         \A c \in Conns : ~RefuseMessage(c), NEW d \in Conns
  PROVE  Quiet(d) \/ Lost(d)
  <1>1. ASSUME NEW c \in Conns, HubRegister(c) PROVE Quiet(d)
    BY <1>1, RegisterTold DEF Quiet, PresenceEvent, Speaks, Answer
  <1>2. ASSUME NEW c \in Conns, HubUnregister(c) PROVE Quiet(d)
    BY <1>2, UnregisterTold DEF Quiet, PresenceEvent, Speaks, Answer
  <1>3. ASSUME NEW c \in Conns, HubTake(c) PROVE Quiet(d)
    <2>1. CASE BeginPersist(c)
      BY <2>1 DEF BeginPersist, Take, Seen, Quiet
    <2> QED
      BY <1>3, <2>1, RelayTold DEF HubTake, Quiet
  <1>4. ASSUME Stop \/ HubQuit \/ UNCHANGED vars PROVE Quiet(d)
    BY <1>4 DEF Stop, HubQuit, vars, connVars, Seen, Quiet
  <1>5. ASSUME NEW c \in Conns, Connect(c) \/ PumpStep(c) PROVE Quiet(d) \/ Lost(d)
    BY <1>5, PumpsTold DEF Quiet
  <1> QED
    BY <1>1, <1>2, <1>3, <1>4, <1>5 DEF Next, HubStep

-----------------------------------------------------------------------------
(* The third layer: rows, and what is told of them.                          *)

(* The two ways a message leaves the hub's hands.                             *)
LEMMA DoneWith ==
  ASSUME IInv, Started, Framed
  PROVE  /\ \A c \in Conns : RefuseMessage(c) =>
              /\ inbox[c] \in 1 .. Len(offered) /\ Pending(inbox[c]) /\ ~StillPending(inbox[c])
              /\ offered[inbox[c]].by = c /\ stored' = stored /\ offered' = offered
         /\ PersistOk \/ PersistError =>
              /\ current \in 1 .. Len(offered) /\ Pending(current) /\ ~StillPending(current)
              /\ offered' = offered
  <1>1. PumpOK /\ DataOK /\ InHand /\ \A n \in 1 .. Len(offered) : n # 0
    BY DEF IInv, TypeOK, DataOK
  <1>2. ASSUME NEW c \in Conns, RefuseMessage(c)
        PROVE  /\ inbox[c] \in 1 .. Len(offered) /\ Pending(inbox[c]) /\ ~StillPending(inbox[c])
               /\ offered[inbox[c]].by = c /\ stored' = stored /\ offered' = offered
    <2>1. /\ hub = "select" /\ reader[c] = "offering" /\ current' = current
          /\ inbox'[c] = 0 /\ \A d \in Conns \ {c} : inbox'[d] = inbox[d]
          /\ stored' = stored /\ offered' = offered
      BY <1>1, <1>2 DEF RefuseMessage, Take, PumpOK, dataVars
    <2>2. inbox[c] \in 1 .. Len(offered) /\ offered[inbox[c]].by = c /\ current = 0
      BY <1>1, <2>1 DEF InHand, Framed
    <2>3. \A d \in Conns \ {c} : inbox[d] # inbox[c]
      BY <1>1, <2>2 DEF Framed
    <2> QED
      BY <1>1, <2>1, <2>2, <2>3 DEF Pending, StillPending
  <1>3. ASSUME PersistOk \/ PersistError
        PROVE  /\ current \in 1 .. Len(offered) /\ Pending(current) /\ ~StillPending(current)
               /\ offered' = offered
    <2>1. /\ hub = "persisting" /\ current' = 0 /\ inbox' = inbox /\ offered' = offered
      BY <1>3 DEF PersistOk, PersistError, Resume, connVars
    <2>2. current \in 1 .. Len(offered) /\ \A d \in Conns : inbox[d] # current
      BY <1>1, <2>1 DEF InHand, Framed
    <2> QED
      BY <1>1, <2>1, <2>2 DEF Pending, StillPending
  <1> QED
    BY <1>2, <1>3

(* A row is added with the end of CreateMessage only.                        *)
LEMMA RowAdded ==
  ASSUME IInv, PersistOk \/ PersistError
  PROVE  /\ Len(stored) \in Nat /\ ~(PersistOk /\ PersistError)
         /\ \/ stored' = stored /\ PersistError
            \/ /\ Len(stored') = Len(stored) + 1
               /\ \A j \in 1 .. Len(stored) : stored'[j] = stored[j]
               /\ stored'[Len(stored) + 1].id = current
               /\ stored'[Len(stored) + 1].ok <=> PersistOk
  <1> DEFINE Row == [id : 1 .. MaxFrames, ok : BOOLEAN]
             yes == [id |-> current, ok |-> TRUE]
             no  == [id |-> current, ok |-> FALSE]
  <1>1. stored \in Seq(Row) /\ current \in 1 .. MaxFrames
    <2>1. /\ stored \in Seq(Row) /\ Len(offered) \in Nat /\ Len(offered) <= MaxFrames
          /\ MaxFrames \in Nat
      BY HubAssumption DEF IInv, TypeOK, DataOK
    <2>2. current \in 1 .. Len(offered)
      BY DEF IInv, InHand, PersistOk, PersistError, Resume
    <2> QED
      BY <2>1, <2>2
  <1>2. yes \in Row /\ no \in Row /\ yes.id = current /\ no.id = current /\ yes.ok /\ ~no.ok
    BY <1>1
  <1>3. \/ stored' = stored /\ PersistError
        \/ stored' = Append(stored, yes) /\ PersistOk
        \/ stored' = Append(stored, no) /\ PersistError
    BY DEF PersistOk, PersistError
  <1>4. ~(PersistOk /\ PersistError)
    <2>1. ASSUME PersistOk, PersistError PROVE FALSE
      <3>1. /\ stored' = Append(stored, yes)
            /\ stored' = stored \/ stored' = Append(stored, no)
        BY <2>1 DEF PersistOk, PersistError
      <3> HIDE DEF yes, no, Row
      <3>2. /\ Len(Append(stored, yes)) = Len(stored) + 1 /\ Len(stored) \in Nat
            /\ Append(stored, yes)[Len(stored) + 1] = yes
            /\ Append(stored, no)[Len(stored) + 1] = no
        BY <1>1, <1>2, AppendProperties
      <3>3. yes # no
        BY <1>2
      <3> QED
        BY <3>1, <3>2, <3>3
    <2> QED
      BY <2>1
  <1> HIDE DEF yes, no, Row
  <1>5. Len(stored) \in Nat
    BY <1>1
  <1>6. ASSUME NEW r \in Row, stored' = Append(stored, r)
        PROVE  /\ Len(stored') = Len(stored) + 1
               /\ \A j \in 1 .. Len(stored) : stored'[j] = stored[j]
               /\ stored'[Len(stored) + 1] = r
    BY <1>1, <1>6, AppendProperties
  <1> QED
    BY <1>2, <1>3, <1>4, <1>5, <1>6

LEMMA RowsStep == IInv /\ Started /\ Framed /\ RowsOnce /\ [Next]_vars => RowsOnce'
  <1>1. SUFFICES ASSUME IInv, Started, Framed, RowsOnce, [Next]_vars PROVE RowsOnce'
    OBVIOUS
  <1>2. /\ Len(stored) \in Nat
        /\ \A j \in 1 .. Len(stored) : /\ stored[j].id \in 1 .. Len(offered')
                                       /\ ~StillPending(stored[j].id)
    <2>1. /\ Len(offered) \in Nat /\ Len(offered') \in Nat /\ Len(offered') >= Len(offered)
          /\ Len(stored) \in Nat
      BY <1>1, OfferedStays DEF IInv, TypeOK, DataOK
    <2>2. \A n \in 1 .. Len(offered) : n \in 1 .. Len(offered') /\ (StillPending(n) => Pending(n))
      BY <1>1, <2>1, PendingStep
    <2> QED
      BY <1>1, <2>1, <2>2 DEF RowsOnce
  <1>3. CASE stored' = stored
    <2>1. \A j \in 1 .. Len(stored') : stored'[j].id \in 1 .. Len(offered') /\ ~StillPending(stored'[j].id)
      BY <1>2, <1>3
    <2>2. \A j \in 1 .. Len(stored') : ~StillPending(stored[j].id)
      BY <1>2, <1>3
    <2> QED
      BY <1>1, <1>3, <2>1, <2>2 DEF RowsOnce, Pending, StillPending
  <1>4. CASE PersistOk \/ PersistError
    <2>1. /\ current \in 1 .. Len(offered) /\ Pending(current) /\ ~StillPending(current)
          /\ offered' = offered
      BY <1>1, <1>4, DoneWith
    <2>2. CASE stored' = stored
      BY <1>3, <2>2
    <2>3. CASE stored' # stored
      <3>1. /\ Len(stored') = Len(stored) + 1
            /\ \A j \in 1 .. Len(stored) : stored'[j] = stored[j]
            /\ stored'[Len(stored) + 1].id = current
        BY <1>1, <1>4, <2>3, RowAdded
      <3>2. \A j \in 1 .. Len(stored') : j \in 1 .. Len(stored) \/ j = Len(stored) + 1
        BY <1>2, <3>1
      <3>3. \A j \in 1 .. Len(stored') :
              stored'[j].id \in 1 .. Len(offered') /\ ~StillPending(stored'[j].id)
        BY <1>2, <2>1, <3>1, <3>2
      <3>4. \A j \in 1 .. Len(stored) : stored[j].id # current
        BY <1>1, <2>1 DEF RowsOnce
      <3>5. \A j, k \in 1 .. Len(stored') : stored'[j].id = stored'[k].id => j = k
        BY <1>1, <3>1, <3>2, <3>4 DEF RowsOnce
      <3> QED
        BY <3>3, <3>5 DEF RowsOnce, Pending, StillPending
    <2> QED
      BY <2>2, <2>3
  <1> QED
    BY <1>1, <1>3, <1>4, PendingStep

(* A row that is there stays, and no row comes for a message that the hub is *)
(* done with.                                                                *)
LEMMA RowKept ==
  ASSUME IInv, Started, Framed, RowsOnce, [Next]_vars
  PROVE  /\ \A n \in 1 .. Len(offered) : ~Pending(n) => (WillHaveRow(n) <=> HasRow(n))
         /\ \A c \in Conns : RefuseMessage(c) => ~HasRow(inbox[c]) /\ ~WillHaveRow(inbox[c])
         /\ PersistOk => WillHaveRow(current)
         /\ PersistError => ~WillHaveRow(current)
  <1>1. CASE stored' = stored /\ ~(PersistOk \/ PersistError)
    <2>1. \A n : WillHaveRow(n) <=> HasRow(n)
      BY <1>1 DEF HasRow, WillHaveRow
    <2>2. ASSUME NEW c \in Conns, RefuseMessage(c)
          PROVE  ~HasRow(inbox[c])
      BY <2>2, DoneWith DEF HasRow, WillHaveRow, RowsOnce
    <2> QED
      BY <1>1, <2>1, <2>2
  <1>2. CASE PersistOk \/ PersistError
    <2>1. /\ current \in 1 .. Len(offered) /\ Pending(current)
      BY <1>2, DoneWith
    <2>2. \A j \in 1 .. Len(stored) : stored[j].id # current
      BY <2>1 DEF RowsOnce
    <2>3. \A c \in Conns : ~RefuseMessage(c)
      BY <1>2 DEF PersistOk, PersistError, Resume, RefuseMessage, Take
    <2>4. CASE stored' = stored /\ PersistError /\ ~PersistOk
      BY <2>2, <2>3, <2>4 DEF HasRow, WillHaveRow
    <2>5. CASE /\ Len(stored) \in Nat /\ Len(stored') = Len(stored) + 1
               /\ \A j \in 1 .. Len(stored) : stored'[j] = stored[j]
               /\ stored'[Len(stored) + 1].id = current
               /\ stored'[Len(stored) + 1].ok <=> PersistOk
      <3>1. \A j \in 1 .. Len(stored') : j \in 1 .. Len(stored) \/ j = Len(stored) + 1
        BY <2>5
      <3>2. \A j \in 1 .. Len(stored) : j \in 1 .. Len(stored')
        BY <2>5
      <3>3. Len(stored) + 1 \in 1 .. Len(stored')
        BY <2>5
      <3>4. \A n : n # current => (WillHaveRow(n) <=> HasRow(n))
        BY <2>5, <3>1, <3>2 DEF HasRow, WillHaveRow
      <3>5. PersistOk => WillHaveRow(current)
        BY <2>5, <3>3 DEF HasRow, WillHaveRow
      <3>6. PersistError => ~PersistOk
        BY <2>5, <3>3, RowAdded DEF PersistOk, PersistError
      <3>7. ~PersistOk => ~WillHaveRow(current)
        BY <2>2, <2>5, <3>1 DEF HasRow, WillHaveRow
      <3>8. \A n \in 1 .. Len(offered) : ~Pending(n) => (WillHaveRow(n) <=> HasRow(n))
        BY <2>1, <3>4
      <3>9. PersistError => ~WillHaveRow(current)
        BY <3>6, <3>7
      <3> QED
        BY <2>3, <3>5, <3>8, <3>9
    <2>6. Len(stored) \in Nat /\ ~(PersistOk /\ PersistError)
      BY <1>2, RowAdded
    <2>7. \/ stored' = stored /\ PersistError
          \/ /\ Len(stored') = Len(stored) + 1
             /\ \A j \in 1 .. Len(stored) : stored'[j] = stored[j]
             /\ stored'[Len(stored) + 1].id = current
             /\ stored'[Len(stored) + 1].ok <=> PersistOk
      BY <1>2, RowAdded
    <2> QED
      BY <2>4, <2>5, <2>6, <2>7
  <1> QED
    BY <1>1, <1>2, PendingStep

(* What was told of a message stays right.                                    *)
LEMMA TellsKept ==
  ASSUME IInv, Started, Framed, RowsOnce, [Next]_vars, NEW e, TellsRight(e)
  PROVE  WillTell(e)
  <1>1. SUFFICES ASSUME Speaks(e) PROVE WillTell(e)
    BY DEF WillTell
  <1>2. e.id \in 1 .. Len(offered) /\ ~Pending(e.id) /\ (e.event = "error" <=> ~HasRow(e.id))
    BY <1>1 DEF TellsRight
  <1>3. e.id \in 1 .. Len(offered')
    BY <1>2, OfferedStays
  <1>4. ~StillPending(e.id)
    BY <1>2, PendingStep
  <1>5. WillHaveRow(e.id) <=> HasRow(e.id)
    BY <1>2, RowKept
  <1> QED
    BY <1>2, <1>3, <1>4, <1>5 DEF WillTell

(* What a connection is told after a step: what it was told, or one event    *)
(* more.                                                                     *)
LEMMA SeenNext ==
  ASSUME IInv, [Next]_vars, NEW d \in Conns
  PROVE  \/ Seen(d)' = Seen(d)
         \/ Lost(d)
         \/ \E e \in Event : /\ Seen(d)' = Append(Seen(d), e)
                             /\ \/ ~Speaks(e)
                                \/ /\ PersistOk /\ e.id = current
                                   /\ e.event \in {"message", "ack"}
                                \/ /\ PersistError /\ e.id = current
                                   /\ e.event = "error"
                                \/ /\ \E c \in Conns : RefuseMessage(c) /\ e.id = inbox[c]
                                   /\ e.event = "error"
  <1>1. CASE PersistOk
    BY <1>1, PersistOkTold
  <1>2. CASE PersistError
    BY <1>2, PersistErrorTold
  <1>3. CASE \E c \in Conns : RefuseMessage(c)
    BY <1>3, RefuseTold
  <1>4. CASE ~(PersistOk \/ PersistError) /\ \A c \in Conns : ~RefuseMessage(c)
    BY <1>4, QuietStep DEF Quiet
  <1> QED
    BY <1>1, <1>2, <1>3, <1>4

LEMMA ToldStep == IInv /\ Started /\ Framed /\ RowsOnce /\ Told /\ [Next]_vars => Told'
  <1>1. SUFFICES ASSUME IInv, Started, Framed, RowsOnce, Told, [Next]_vars,
                        NEW d \in Conns, NEW i \in 1 .. Len(Seen(d)')
                 PROVE  WillTell(Seen(d)'[i])
    BY DEF Told, TellsRight, WillTell, Pending, StillPending, HasRow, WillHaveRow
  <1>2. Seen(d) \in Seq(Event) /\ Len(Seen(d)) \in Nat
    BY <1>1, SeenTyped DEF IInv, TypeOK
  <1>3. ASSUME NEW k \in 1 .. Len(Seen(d))
        PROVE  WillTell(Seen(d)[k])
    BY <1>1, TellsKept DEF Told
  <1>4. CASE Seen(d)' = Seen(d)
    BY <1>1, <1>3, <1>4
  <1>5. CASE Lost(d)
    BY <1>1, <1>3, <1>5 DEF Lost
  <1>6. ASSUME NEW e \in Event, Seen(d)' = Append(Seen(d), e), WillTell(e)
        PROVE  WillTell(Seen(d)'[i])
    <2>1. /\ i \in 1 .. Len(Seen(d)) \/ i = Len(Seen(d)) + 1
          /\ i \in 1 .. Len(Seen(d)) => Seen(d)'[i] = Seen(d)[i]
          /\ i = Len(Seen(d)) + 1 => Seen(d)'[i] = e
      BY <1>1, <1>2, <1>6, AppendProperties
    <2> QED
      BY <1>3, <1>6, <2>1
  <1>7. ASSUME NEW e \in Event,
               \/ ~Speaks(e)
               \/ PersistOk /\ e.id = current /\ e.event \in {"message", "ack"}
               \/ PersistError /\ e.id = current /\ e.event = "error"
               \/ (\E c \in Conns : RefuseMessage(c) /\ e.id = inbox[c]) /\ e.event = "error"
        PROVE  WillTell(e)
    <2>1. CASE ~Speaks(e)
      BY <2>1 DEF WillTell
    <2>2. CASE PersistOk /\ e.id = current /\ e.event \in {"message", "ack"}
      BY <1>1, <2>2, DoneWith, RowKept DEF WillTell
    <2>3. CASE PersistError /\ e.id = current /\ e.event = "error"
      BY <1>1, <2>3, DoneWith, RowKept DEF WillTell
    <2>4. CASE (\E c \in Conns : RefuseMessage(c) /\ e.id = inbox[c]) /\ e.event = "error"
      BY <1>1, <2>4, DoneWith, RowKept DEF WillTell
    <2> QED
      BY <1>7, <2>1, <2>2, <2>3, <2>4
  <1> QED
    BY <1>1, <1>4, <1>5, <1>6, <1>7, SeenNext

(* The layers so far.                                                        *)
TInv == IInv /\ Started /\ Framed /\ RowsOnce /\ Told

LEMMA InitTInv == Init => TInv
  <1>1. SUFFICES ASSUME Init PROVE TInv
    OBVIOUS
  <1>2. Len(offered) = 0 /\ Len(stored) = 0
    BY <1>1 DEF Init
  <1>3. \A c \in Conns : Len(Seen(c)) = 0
    BY <1>1 DEF Init, Seen
  <1>4. Started /\ Framed
    BY <1>1, <1>2 DEF Init, Started, Framed
  <1>5. RowsOnce /\ Told
    BY <1>2, <1>3 DEF RowsOnce, Told
  <1> QED
    BY <1>1, <1>4, <1>5, InitIInv DEF TInv

LEMMA NextTInv == TInv /\ [Next]_vars => TInv'
  BY NextIInv, StartedStep, FramedStep, RowsStep, ToldStep DEF TInv

(* A message, or an ack of the hub's, is sent for a row that is in the      *)
(* database and that CreateMessage reported as stored, an error of the      *)
(* hub's for none: persist first, then deliver, then acknowledge            *)
(* (handleUserMessage), whatever events the clients send.                   *)
THEOREM PersistedFirst == Spec => []PersistFirst
  <1>1. TInv => PersistFirst
    <2>1. SUFFICES ASSUME TInv, NEW c \in Conns, NEW i \in DOMAIN Seen(c)
                   PROVE  LET e  == Seen(c)[i]
                              ok == \E j \in DOMAIN stored : stored[j].ok /\ stored[j].id = e.id
                          IN  /\ e.event = "message" => ok
                              /\ Answer(e, e.id) => (e.event = "ack" <=> ok)
      BY DEF PersistFirst
    <2>2. DOMAIN Seen(c) = 1 .. Len(Seen(c)) /\ DOMAIN stored = 1 .. Len(stored)
      BY <2>1, SeenTyped DEF TInv, IInv, TypeOK, DataOK
    <2>3. TellsRight(Seen(c)[i])
      BY <2>1, <2>2 DEF TInv, Told
    <2> QED
      BY <2>2, <2>3 DEF TellsRight, HasRow, Speaks, Answer
  <1> QED
    BY InitTInv, NextTInv, <1>1, PTL DEF Spec

-----------------------------------------------------------------------------
(* The fourth layer: one answer for each message.                            *)

(* Only a registration starts pumps, adds to the table or sets where the     *)
(* feed of a connection begins.                                              *)
LEMMA OnceRegistered ==
  ASSUME IInv, Started, [Next]_vars, NEW c \in Conns, writer[c] # "none"
  PROVE  /\ writer'[c] = "running" => writer[c] = "running"
         /\ c \in registered' => c \in registered
         /\ joined'[c] = joined[c]
  <1>1. TableOK /\ PumpOK /\ DataOK
    BY DEF IInv, TypeOK
  <1>2. ASSUME NEW d \in Conns, HubRegister(d)
        PROVE  /\ writer'[c] = "running" => writer[c] = "running"
               /\ c \in registered' => c \in registered
               /\ joined'[c] = joined[c]
    <2>1. c # d
      BY <1>2 DEF HubRegister, Started
    <2> QED
      BY <1>1, <1>2, <2>1 DEF HubRegister, Fed, PumpOK, DataOK
  <1>3. CASE ~\E d \in Conns : HubRegister(d)
    <2>1. joined' = joined /\ (writer' = writer \/ \E d \in Conns : writer' = [writer EXCEPT ![d] = "done"])
      BY <1>3 DEF Next, HubStep, HubTake, HubUnregister, RelayPresence, RelayToUser,
           RelayToGroup, DropFrame, RefuseMessage, BeginPersist, Take, PersistOk,
           PersistError, Resume,
           HubQuit, Stop, Connect, PumpStep, Read, ReadError, ReaderClose, Write, WriteError,
           WriteClose, PingError, WriterGone, vars, connVars, dataVars
    <2>2. registered' \subseteq registered
      BY <1>3 DEF Next, HubStep, HubTake, HubUnregister, RelayPresence, RelayToUser,
           RelayToGroup, DropFrame, RefuseMessage, BeginPersist, Route, Fed, PersistOk,
           PersistError,
           HubQuit, Stop, Connect, PumpStep, Read, ReadError, ReaderClose, Write, WriteError,
           WriteClose, PingError, vars
    <2> QED
      BY <1>1, <2>1, <2>2 DEF PumpOK
  <1> QED
    BY <1>2, <1>3

LEMMA AnsweredStep == TInv /\ Answered /\ [Next]_vars => Answered'
  <1>1. SUFFICES ASSUME TInv, Answered, [Next]_vars,
                        NEW n \in 1 .. Len(offered'), NEW c, c = offered'[n].by,
                        IsUserMessage(offered'[n].frame), ~StillPending(n),
                        writer'[c] = "running", c \in registered'
                 PROVE  \E i \in 1 .. Len(Seen(c)') :
                          /\ Answer(Seen(c)'[i], n)
                          /\ \A k \in 1 .. Len(Seen(c)') : Answer(Seen(c)'[k], n) => k = i
    BY DEF Answered, Asked, Pending, StillPending, Answer
  <1>2. IInv /\ Started /\ Framed /\ RowsOnce /\ Told
    BY <1>1 DEF TInv
  <1>3. /\ n \in 1 .. Len(offered) /\ c = offered[n].by /\ Asked(n)
    BY <1>1, <1>2, PendingStep, OfferedStays DEF Asked
  <1>4. c \in Conns /\ writer[c] = "running" /\ c \in registered
    <2>1. c \in Conns /\ writer[c] # "none"
      BY <1>2, <1>3, OfferedTyped DEF IInv, TypeOK, Framed
    <2> QED
      BY <1>1, <1>2, <2>1, OnceRegistered
  <1>5. Seen(c) \in Seq(Event) /\ Len(Seen(c)) \in Nat
    BY <1>2, <1>4, SeenTyped DEF IInv, TypeOK
  <1>6. ASSUME NEW e \in Event, Seen(c)' = Append(Seen(c), e)
        PROVE  /\ Len(Seen(c)') = Len(Seen(c)) + 1
               /\ Len(Seen(c)) + 1 \in 1 .. Len(Seen(c)')
               /\ \A i \in 1 .. Len(Seen(c)') : i \in 1 .. Len(Seen(c)) \/ i = Len(Seen(c)) + 1
               /\ \A i \in 1 .. Len(Seen(c)) : i \in 1 .. Len(Seen(c)') /\ Seen(c)'[i] = Seen(c)[i]
               /\ Seen(c)'[Len(Seen(c)) + 1] = e
    <2>1. /\ Len(Seen(c)') = Len(Seen(c)) + 1
          /\ \A i \in 1 .. Len(Seen(c)) : Seen(c)'[i] = Seen(c)[i]
          /\ Seen(c)'[Len(Seen(c)) + 1] = e
      BY <1>5, <1>6, AppendProperties
    <2> QED
      BY <1>5, <2>1
  <1>7. CASE ~Pending(n)
    <2>1. PICK i \in 1 .. Len(Seen(c)) :
            /\ Answer(Seen(c)[i], n)
            /\ \A k \in 1 .. Len(Seen(c)) : Answer(Seen(c)[k], n) => k = i
      BY <1>1, <1>3, <1>4, <1>7 DEF Answered
    <2>2. CASE Seen(c)' = Seen(c)
      BY <2>1, <2>2
    <2>3. CASE Lost(c)
      BY <1>1, <2>3 DEF Lost
    <2>4. ASSUME NEW e \in Event, Seen(c)' = Append(Seen(c), e),
                 \/ ~Speaks(e)
                 \/ PersistOk /\ e.id = current /\ e.event \in {"message", "ack"}
                 \/ PersistError /\ e.id = current /\ e.event = "error"
                 \/ (\E x \in Conns : RefuseMessage(x) /\ e.id = inbox[x]) /\ e.event = "error"
          PROVE  \E m \in 1 .. Len(Seen(c)') :
                   /\ Answer(Seen(c)'[m], n)
                   /\ \A k \in 1 .. Len(Seen(c)') : Answer(Seen(c)'[k], n) => k = m
      <3>1. ~Answer(e, n)
        BY <1>2, <1>7, <2>4, DoneWith DEF Speaks, Answer
      <3> QED
        BY <1>6, <2>1, <2>4, <3>1
    <2> QED
      BY <1>1, <1>2, <1>4, <2>2, <2>3, <2>4, SeenNext
  <1>8. CASE Pending(n)
    <2>1. \A k \in 1 .. Len(Seen(c)) : ~Answer(Seen(c)[k], n)
      BY <1>2, <1>4, <1>8 DEF Told, TellsRight, Speaks, Answer
    <2>2. \E e \in Event : Seen(c)' = Append(Seen(c), e) /\ Answer(e, n)
      <3>1. CASE \E x \in Conns : RefuseMessage(x) /\ n = inbox[x]
        <4>1. PICK x \in Conns : RefuseMessage(x) /\ n = inbox[x]
          BY <3>1
        <4>2. x = c
          BY <1>2, <1>3, <4>1, DoneWith
        <4> QED
          BY <1>1, <1>2, <4>1, <4>2, RefuseTold DEF Answer
      <3>2. CASE PersistOk /\ n = current
        <4>1. UserOf[c] = Sender
          BY <1>3, <3>2 DEF Sender
        <4> QED
          BY <1>1, <1>2, <1>4, <3>2, <4>1, PersistOkTold DEF Answer
      <3>3. CASE PersistError /\ n = current
        <4>1. UserOf[c] = Sender
          BY <1>3, <3>3 DEF Sender
        <4> QED
          BY <1>1, <1>2, <1>4, <3>3, <4>1, PersistErrorTold DEF Answer
      <3> QED
        BY <1>1, <1>2, <1>3, <1>8, <3>1, <3>2, <3>3, PendingStep
    <2> QED
      BY <1>6, <2>1, <2>2
  <1> QED
    BY <1>7, <1>8

(* The connection that sent a user message is answered exactly once, by an  *)
(* ack or an error, when the hub is done with it and the connection is      *)
(* still registered, whatever was interleaved while CreateMessage ran.      *)
THEOREM OneAnswerEach == Spec => []AnsweredOnce
  <1>1. Init => Answered
    <2>1. Init => Len(offered) = 0
      BY DEF Init
    <2> QED
      BY <2>1 DEF Answered
  <1>2. TInv /\ Answered => AnsweredOnce
    <2>1. SUFFICES ASSUME TInv, Answered, NEW n \in DOMAIN offered, NEW c,
                          c = offered[n].by, IsUserMessage(offered[n].frame),
                          writer[c] = "running", c \in registered, inbox[c] # n, current # n
                   PROVE  Cardinality({i \in DOMAIN Seen(c) :
                             Answer(Seen(c)[i], n)}) = 1
      BY DEF AnsweredOnce
    <2>2. n \in 1 .. Len(offered) /\ c \in Conns /\ n # 0
      BY <2>1, OfferedTyped DEF TInv, IInv, TypeOK, DataOK
    <2>3. ~Pending(n)
      <3>1. ASSUME NEW d \in Conns, inbox[d] = n PROVE FALSE
        BY <2>1, <2>2, <3>1 DEF TInv, Framed
      <3> QED
        BY <2>1, <3>1 DEF Pending
    <2>4. DOMAIN Seen(c) = 1 .. Len(Seen(c))
      BY <2>1, <2>2, SeenTyped DEF TInv, IInv, TypeOK
    <2>5. PICK i \in 1 .. Len(Seen(c)) :
            /\ Answer(Seen(c)[i], n)
            /\ \A k \in 1 .. Len(Seen(c)) : Answer(Seen(c)[k], n) => k = i
      BY <2>1, <2>2, <2>3 DEF Answered, Asked
    <2>6. {k \in DOMAIN Seen(c) : Answer(Seen(c)[k], n)} = {i}
      BY <2>4, <2>5 DEF Answer
    <2> QED
      BY <2>6, FS_Singleton
  <1> QED
    BY InitTInv, NextTInv, AnsweredStep, <1>1, <1>2, PTL DEF Spec

-----------------------------------------------------------------------------
(* The fifth layer: the feed.  First its parts, for any sequence of events.  *)

(* What FeedOf says of the start of a sequence.                              *)
LEMMA FeedPrefix ==
  ASSUME NEW s \in Seq(Event), NEW t \in Seq(Event), NEW due, NEW id,
         Len(t) <= Len(s), \A i \in 1 .. Len(t) : t[i] = s[i], FeedOf(s, due, id)
  PROVE  FeedOf(t, due, id)
  <1>1. Len(s) \in Nat /\ Len(t) \in Nat
    OBVIOUS
  <1>2. \A i \in 1 .. Len(t) : i \in 1 .. Len(s) /\ \A k \in 1 .. i - 1 : k \in 1 .. Len(t)
    BY <1>1
  <1> QED
    BY <1>2 DEF FeedOf

(* An event that is no message leaves the feed as it is.                     *)
LEMMA FeedQuiet ==
  ASSUME NEW s \in Seq(Event), NEW e \in Event, NEW due, NEW id, e.event # "message"
  PROVE  /\ FeedOf(s, due, id) => FeedOf(Append(s, e), due, id)
         /\ CompleteOf(s, due, id) => CompleteOf(Append(s, e), due, id)
  <1> DEFINE t == Append(s, e)
  <1>1. /\ Len(s) \in Nat /\ Len(t) = Len(s) + 1
        /\ \A i \in 1 .. Len(s) : t[i] = s[i]
        /\ t[Len(s) + 1] = e
    BY AppendProperties
  <1> HIDE DEF t
  <1>2. /\ \A i \in 1 .. Len(t) : i \in 1 .. Len(s) \/ i = Len(s) + 1
        /\ \A i \in 1 .. Len(s) : i \in 1 .. Len(t) /\ \A k \in 1 .. i - 1 : k \in 1 .. Len(s)
    BY <1>1
  <1>3. FeedOf(s, due, id) => FeedOf(t, due, id)
    BY SMTT(30), <1>1, <1>2 DEF FeedOf
  <1>4. CompleteOf(s, due, id) => CompleteOf(t, due, id)
    BY <1>1, <1>2 DEF CompleteOf
  <1> QED
    BY <1>3, <1>4 DEF t

(* Only the messages of the rows that are due matter.                        *)
LEMMA FeedSame ==
  ASSUME NEW s, NEW due, NEW id, NEW is, \A j \in due : id[j] = is[j]
  PROVE  /\ FeedOf(s, due, id) => FeedOf(s, due, is)
         /\ CompleteOf(s, due, id) => CompleteOf(s, due, is)
  BY DEF FeedOf, CompleteOf

(* A row after all others, of a message that was not told, changes nothing.  *)
LEMMA FeedNewRow ==
  ASSUME NEW s, NEW n \in Nat, NEW due \in SUBSET (1 .. n), NEW id, FeedOf(s, due, id),
         \A i \in 1 .. Len(s) : s[i].event = "message" => s[i].id # id[n + 1]
  PROVE  FeedOf(s, due \cup {n + 1}, id)
  BY DEF FeedOf

(* That message, told to a session that was told of all others, is in order. *)
LEMMA FeedMore ==
  ASSUME NEW s \in Seq(Event), NEW n \in Nat, NEW due \in SUBSET (1 .. n), NEW id,
         FeedOf(s, due, id), CompleteOf(s, due, id),
         \A i \in 1 .. Len(s) : s[i].event = "message" => s[i].id # id[n + 1],
         NEW e \in Event, e.event = "message", e.id = id[n + 1],
         \A j \in due : id[j] # id[n + 1]
  PROVE  /\ FeedOf(Append(s, e), due \cup {n + 1}, id)
         /\ CompleteOf(Append(s, e), due \cup {n + 1}, id)
  <1> DEFINE t    == Append(s, e)
             more == due \cup {n + 1}
  <1>1. /\ Len(s) \in Nat /\ Len(t) = Len(s) + 1
        /\ \A i \in 1 .. Len(s) : t[i] = s[i]
        /\ t[Len(s) + 1] = e
    BY AppendProperties
  <1> HIDE DEF t
  <1>2. /\ \A i \in 1 .. Len(t) : i \in 1 .. Len(s) \/ i = Len(s) + 1
        /\ \A i \in 1 .. Len(s) : i \in 1 .. Len(t) /\ \A k \in 1 .. i - 1 : k \in 1 .. Len(s)
        /\ Len(s) + 1 \in 1 .. Len(t)
        /\ \A k \in 1 .. Len(s) : k \in 1 .. (Len(s) + 1) - 1 /\ k # Len(s) + 1
    BY <1>1
  <1>3. FeedOf(s, more, id)
    BY FeedNewRow
  <1>4. \A i \in 1 .. Len(t) :
          t[i].event = "message" => \E j \in more : t[i].id = id[j]
    BY <1>1, <1>2, <1>3 DEF FeedOf
  <1>5. ASSUME NEW i \in 1 .. Len(t), NEW j \in more, NEW l \in more,
               t[i].event = "message", t[i].id = id[j], l < j
        PROVE  \E k \in 1 .. i - 1 : t[k].event = "message" /\ t[k].id = id[l]
    <2>1. CASE i \in 1 .. Len(s)
      <3>1. PICK k \in 1 .. i - 1 : s[k].event = "message" /\ s[k].id = id[l]
        BY <1>1, <1>3, <1>5, <2>1 DEF FeedOf
      <3> QED
        BY <1>1, <1>2, <2>1, <3>1
    <2>2. CASE i = Len(s) + 1
      <3>1. j = n + 1 /\ l \in due
        BY <1>1, <1>5, <2>2
      <3>2. PICK k \in 1 .. Len(s) : s[k].event = "message" /\ s[k].id = id[l]
        BY <3>1 DEF CompleteOf
      <3> QED
        BY <1>1, <1>2, <2>2, <3>2
    <2> QED
      BY <1>2, <2>1, <2>2
  <1>6. \A i, k \in 1 .. Len(t) :
          i # k /\ t[i].event = "message" /\ t[k].event = "message" => t[i].id # t[k].id
    BY <1>1, <1>2 DEF FeedOf
  <1>7. CompleteOf(t, more, id)
    BY <1>1, <1>2 DEF CompleteOf
  <1>8. FeedOf(t, more, id)
    BY <1>4, <1>5, <1>6 DEF FeedOf
  <1> QED
    BY <1>7, <1>8 DEF t

(* The rows a registered connection is due after a step: one more when the   *)
(* hub has stored a message to its user.                                     *)
LEMMA DueStep ==
  ASSUME IInv, Started, Framed, RowsOnce, [Next]_vars, NEW c \in Conns,
         writer[c] # "none", joined[c] <= Len(stored)
  PROVE  /\ Len(stored) \in Nat /\ Due(c) \in SUBSET (1 .. Len(stored))
         /\ joined'[c] <= Len(stored')
         /\ \A j \in 1 .. Len(stored) : Ids(stored)[j] = stored[j].id
                                        /\ Ids(stored')[j] = stored[j].id
         /\ ~PersistOk => Due(c)' = Due(c)
         /\ PersistOk =>
              /\ Ids(stored')[Len(stored) + 1] = current
              /\ Due(c)' = IF UserOf[c] = Receiver THEN Due(c) \cup {Len(stored) + 1} ELSE Due(c)
  <1>1. /\ Len(stored) \in Nat /\ joined[c] \in Nat /\ joined'[c] = joined[c]
        /\ DOMAIN stored = 1 .. Len(stored)
    BY OnceRegistered DEF IInv, TypeOK, DataOK
  <1>2. \A j \in 1 .. Len(stored) : offered'[stored[j].id] = offered[stored[j].id]
    BY OfferedStays DEF RowsOnce
  <1>3. Due(c) \in SUBSET (1 .. Len(stored))
    BY <1>1 DEF Due
  <1>4. CASE stored' = stored
    <2>1. Due(c)' = Due(c)
      BY <1>1, <1>2, <1>4 DEF Due
    <2>2. ~PersistOk
      <3>1. ASSUME PersistOk PROVE FALSE
        <4>1. stored' = Append(stored, [id |-> current, ok |-> TRUE])
          BY <3>1 DEF PersistOk
        <4>2. Len(stored') = Len(stored) + 1
          BY <4>1 DEF IInv, TypeOK, DataOK
        <4> QED
          BY <1>1, <1>4, <4>2
      <3> QED
        BY <3>1
    <2> QED
      BY <1>1, <1>3, <1>4, <2>1, <2>2 DEF Ids
  <1>5. CASE /\ PersistOk \/ PersistError
             /\ Len(stored') = Len(stored) + 1
             /\ \A j \in 1 .. Len(stored) : stored'[j] = stored[j]
             /\ stored'[Len(stored) + 1].id = current
             /\ stored'[Len(stored) + 1].ok <=> PersistOk
    <2>1. DOMAIN stored' = 1 .. Len(stored) + 1
      <3>1. DataOK'
        BY NextIInv DEF IInv, TypeOK
      <3> QED
        BY <1>5, <3>1 DEF DataOK
    <2>2. /\ \A j \in 1 .. Len(stored) : Ids(stored')[j] = stored[j].id
          /\ Ids(stored')[Len(stored) + 1] = current
      BY <1>1, <1>5, <2>1 DEF Ids
    <2>3. offered' = offered /\ current \in 1 .. Len(offered)
      BY <1>5, DoneWith
    <2>4. \A j : j \in joined[c] + 1 .. Len(stored')
                 <=> j \in joined[c] + 1 .. Len(stored) \/ j = Len(stored) + 1
      BY <1>1, <1>5
    <2>5. Due(c)' = {j \in joined[c] + 1 .. Len(stored') :
                       stored'[j].ok /\ offered[stored'[j].id].frame.to = UserOf[c]}
      BY <1>1, <2>3 DEF Due
    <2>6. \A j : j \in Due(c)' <=> \/ j \in Due(c)
                                   \/ j = Len(stored) + 1 /\ PersistOk /\ UserOf[c] = Receiver
      <3>1. \A j \in joined[c] + 1 .. Len(stored) : stored'[j] = stored[j] /\ j # Len(stored) + 1
        BY <1>1, <1>5
      <3> QED
        BY <1>5, <2>4, <2>5, <3>1 DEF Due, Receiver
    <2>7. Len(stored) + 1 \notin Due(c)
      BY <1>1, <1>3
    <2>8. ~PersistOk => Due(c)' = Due(c)
      BY <2>6
    <2>9. PersistOk => Due(c)' = IF UserOf[c] = Receiver THEN Due(c) \cup {Len(stored) + 1}
                                 ELSE Due(c)
      BY <2>6
    <2> QED
      BY <1>1, <1>3, <1>5, <2>2, <2>8, <2>9 DEF Ids
  <1> QED
    BY <1>4, <1>5, PendingStep, RowAdded

(* The wire is the start of what a connection was told.                      *)
LEMMA WireIsStart ==
  ASSUME NEW s \in Seq(Event), NEW t \in Seq(Event)
  PROVE  /\ s \o t \in Seq(Event) /\ Len(s) <= Len(s \o t)
         /\ \A i \in 1 .. Len(s) : i \in 1 .. Len(s \o t) /\ s[i] = (s \o t)[i]
  OBVIOUS

(* It grows at a running writer only, and by what the connection was told.   *)
LEMMA WireStep ==
  ASSUME [Next]_vars, QueueOK, PumpOK, NEW c \in Conns
  PROVE  wire'[c] = wire[c] \/ (writer'[c] = "running" /\ Seen(c)' = Seen(c))
  <1>1. CASE \E d \in Conns : Write(d)
    <2>1. PICK d \in Conns : Write(d)
      BY <1>1
    <2>2. CASE d # c
      BY <2>1, <2>2 DEF Write, PumpOK
    <2>3. CASE d = c
      <3>1. /\ send[c] # <<>> /\ wire'[c] = Append(wire[c], Head(send[c]))
            /\ send'[c] = Tail(send[c]) /\ writer'[c] = "running"
        BY <2>1, <2>3 DEF Write, WriterStep, QueueOK, PumpOK
      <3>2. wire[c] \in Seq(Event) /\ send[c] \in Seq(Event)
        BY DEF QueueOK, PumpOK
      <3>3. Append(wire[c], Head(send[c])) \o Tail(send[c]) = wire[c] \o send[c]
        BY <3>1, <3>2, HeadMoves
      <3> QED
        BY <3>1, <3>3 DEF Seen
    <2> QED
      BY <2>2, <2>3
  <1>2. CASE ~\E d \in Conns : Write(d)
    BY <1>2 DEF Next, HubStep, HubTake, HubRegister, HubUnregister, RelayPresence, RelayToUser,
           RelayToGroup, DropFrame, RefuseMessage, BeginPersist, Take, PersistOk,
           PersistError, Resume,
           HubQuit, Stop, Connect, PumpStep, Read, ReadError, ReaderClose, WriteError,
           WriteClose, PingError, vars, connVars
  <1> QED
    BY <1>1, <1>2

(* The invariant of one connection whose pumps run or ran.                   *)
OrderedAt(c) ==
  /\ FeedOf(wire[c], Due(c), Ids(stored))
  /\ writer[c] = "running" => FeedOf(Seen(c), Due(c), Ids(stored))
  /\ writer[c] = "running" /\ c \in registered => CompleteOf(Seen(c), Due(c), Ids(stored))

(* A step that stores no message as sent.                                    *)
LEMMA OrderedQuiet ==
  ASSUME TInv, [Next]_vars, ~PersistOk, NEW c \in Conns, writer[c] # "none",
         joined[c] <= Len(stored), OrderedAt(c)
  PROVE  OrderedAt(c)'
  <1>1. IInv /\ Started /\ Framed /\ RowsOnce /\ QueueOK /\ PumpOK
    BY DEF TInv, IInv, TypeOK
  <1>2. /\ Due(c)' = Due(c)
        /\ \A j \in Due(c) : Ids(stored)[j] = Ids(stored')[j]
    BY <1>1, DueStep
  <1>3. Seen(c) \in Seq(Event)
    BY <1>1, SeenTyped
  <1>4. ASSUME writer'[c] = "running"
        PROVE  /\ FeedOf(Seen(c)', Due(c)', Ids(stored'))
               /\ c \in registered' => CompleteOf(Seen(c)', Due(c)', Ids(stored'))
    <2>1. /\ FeedOf(Seen(c), Due(c), Ids(stored'))
          /\ c \in registered' => CompleteOf(Seen(c), Due(c), Ids(stored'))
      BY <1>1, <1>2, <1>4, OnceRegistered, FeedSame DEF OrderedAt
    <2>2. \/ Seen(c)' = Seen(c)
          \/ \E e \in Event : Seen(c)' = Append(Seen(c), e) /\ e.event # "message"
      BY <1>1, <1>4, SeenNext DEF Lost, Speaks, Answer
    <2> QED
      BY <1>2, <1>3, <2>1, <2>2, FeedQuiet
  <1>5. FeedOf(wire'[c], Due(c)', Ids(stored'))
    <2>1. CASE wire'[c] = wire[c]
      BY <1>2, <2>1, FeedSame DEF OrderedAt
    <2>2. CASE writer'[c] = "running"
      <3>1. wire'[c] \in Seq(Event) /\ send'[c] \in Seq(Event)
        BY <1>1, NextIInv DEF IInv, TypeOK, QueueOK, PumpOK
      <3>2. /\ Len(wire'[c]) <= Len(Seen(c)')
            /\ \A i \in 1 .. Len(wire'[c]) : wire'[c][i] = Seen(c)'[i]
            /\ Seen(c)' \in Seq(Event)
        BY <3>1, WireIsStart DEF Seen
      <3> QED
        BY <1>4, <2>2, <3>1, <3>2, FeedPrefix
    <2> QED
      BY <1>1, <2>1, <2>2, WireStep
  <1> QED
    BY <1>4, <1>5 DEF OrderedAt

(* The step that stores a message and delivers it.                           *)
LEMMA OrderedStore ==
  ASSUME TInv, PersistOk, NEW c \in Conns, writer[c] # "none",
         joined[c] <= Len(stored), OrderedAt(c)
  PROVE  OrderedAt(c)'
  <1> DEFINE n == Len(stored)
  <1>1. IInv /\ Started /\ Framed /\ RowsOnce /\ Told /\ QueueOK /\ PumpOK /\ [Next]_vars
    BY DEF TInv, IInv, TypeOK, Next, HubStep
  <1>2. /\ n \in Nat /\ Due(c) \in SUBSET (1 .. n)
        /\ \A j \in Due(c) : Ids(stored)[j] = Ids(stored')[j] /\ Ids(stored')[j] # Ids(stored')[n + 1]
        /\ Ids(stored')[n + 1] = current
        /\ UserOf[c] = Receiver => Due(c)' = Due(c) \cup {n + 1}
        /\ UserOf[c] # Receiver => Due(c)' = Due(c)
    <2>1. /\ n \in Nat /\ Due(c) \in SUBSET (1 .. n)
          /\ \A j \in 1 .. n : Ids(stored)[j] = stored[j].id /\ Ids(stored')[j] = stored[j].id
          /\ Ids(stored')[n + 1] = current
          /\ UserOf[c] = Receiver => Due(c)' = Due(c) \cup {n + 1}
          /\ UserOf[c] # Receiver => Due(c)' = Due(c)
      BY <1>1, DueStep
    <2>2. \A j \in 1 .. n : stored[j].id # current
      BY <1>1, DoneWith DEF RowsOnce
    <2> HIDE DEF n
    <2> QED
      BY <2>1, <2>2
  <1> HIDE DEF n
  <1>3. Seen(c) \in Seq(Event) /\ wire[c] \in Seq(Event) /\ send[c] \in Seq(Event)
    BY <1>1, SeenTyped DEF QueueOK, PumpOK
  <1>4. \A i \in 1 .. Len(Seen(c)) :
          Seen(c)[i].event = "message" => Seen(c)[i].id # Ids(stored')[n + 1]
    BY <1>1, <1>2, DoneWith DEF Told, TellsRight, Speaks, Answer
  <1>5. \A i \in 1 .. Len(wire[c]) :
          wire[c][i].event = "message" => wire[c][i].id # Ids(stored')[n + 1]
    BY <1>3, <1>4, WireIsStart DEF Seen
  <1>6. wire' = wire /\ writer' = writer
    BY DEF PersistOk, Resume, connVars
  <1>7. FeedOf(wire'[c], Due(c)', Ids(stored'))
    <2>1. FeedOf(wire[c], Due(c), Ids(stored'))
      BY <1>2, FeedSame DEF OrderedAt
    <2>2. FeedOf(wire[c], Due(c) \cup {n + 1}, Ids(stored'))
      BY <1>2, <1>5, <2>1, FeedNewRow
    <2> QED
      BY <1>2, <1>6, <2>1, <2>2, Zenon
  <1>8. ASSUME writer'[c] = "running"
        PROVE  /\ FeedOf(Seen(c)', Due(c)', Ids(stored'))
               /\ c \in registered' => CompleteOf(Seen(c)', Due(c)', Ids(stored'))
    <2>1. /\ FeedOf(Seen(c), Due(c), Ids(stored'))
          /\ c \in registered => CompleteOf(Seen(c), Due(c), Ids(stored'))
      BY <1>2, <1>6, <1>8, FeedSame DEF OrderedAt
    <2> DEFINE m == [event |-> "message", from |-> Sender, id |-> current]
               a == [event |-> "ack", from |-> System, id |-> current]
    <2>2. /\ m \in Event /\ m.event = "message" /\ m.id = current
          /\ a \in Event /\ a.event # "message"
          /\ Sender # Receiver /\ registered' \subseteq registered
          /\ \/ Seen(c)' = Append(Seen(c), m) /\ UserOf[c] = Receiver /\ c \in registered
             \/ Seen(c)' = Append(Seen(c), a) /\ UserOf[c] = Sender
             \/ Seen(c)' = Seen(c) /\ (c \notin registered' \/ UserOf[c] # Receiver)
      BY <1>1, PersistOkTold
    <2> HIDE DEF m, a
    <2>3. CASE Seen(c)' = Append(Seen(c), m) /\ UserOf[c] = Receiver /\ c \in registered
      <3>1. /\ FeedOf(Append(Seen(c), m), Due(c) \cup {n + 1}, Ids(stored'))
            /\ CompleteOf(Append(Seen(c), m), Due(c) \cup {n + 1}, Ids(stored'))
        <4>1. m \in Event /\ m.event = "message" /\ m.id = Ids(stored')[n + 1]
          BY <1>2, <2>2
        <4>2. CompleteOf(Seen(c), Due(c), Ids(stored'))
          BY <2>1, <2>3
        <4>3. n \in Nat /\ Due(c) \in SUBSET (1 .. n) /\ Seen(c) \in Seq(Event)
              /\ \A j \in Due(c) : Ids(stored')[j] # Ids(stored')[n + 1]
          BY <1>2, <1>3
        <4> QED
          BY <1>4, <2>1, <4>1, <4>2, <4>3, FeedMore
      <3>2. Due(c)' = Due(c) \cup {n + 1}
        BY <1>2, <2>3
      <3> QED
        BY <2>3, <3>1, <3>2, Zenon
    <2>4. CASE Seen(c)' = Append(Seen(c), a) /\ UserOf[c] = Sender
      BY <1>2, <1>3, <2>1, <2>2, <2>4, FeedQuiet
    <2>5. CASE Seen(c)' = Seen(c) /\ UserOf[c] # Receiver
      BY <1>2, <2>1, <2>2, <2>5
    <2>6. CASE Seen(c)' = Seen(c) /\ UserOf[c] = Receiver /\ c \notin registered'
      <3>1. FeedOf(Seen(c), Due(c) \cup {n + 1}, Ids(stored'))
        BY <1>2, <1>4, <2>1, FeedNewRow
      <3> QED
        BY <1>2, <2>6, <3>1, Zenon
    <2> QED
      BY <2>2, <2>3, <2>4, <2>5, <2>6
  <1> QED
    BY <1>7, <1>8 DEF OrderedAt

(* A registration: the connection is due nothing yet.                        *)
LEMMA OrderedNew ==
  ASSUME TInv, NEW c \in Conns, HubRegister(c)
  PROVE  OrderedAt(c)' /\ joined'[c] <= Len(stored')
  <1>1. IInv /\ Started /\ QueueOK /\ PumpOK /\ DataOK /\ Len(stored) \in Nat
    BY DEF TInv, IInv, TypeOK, DataOK
  <1>2. /\ wire'[c] = <<>> /\ Seen(c) = <<>>
        /\ joined'[c] = Len(stored) /\ stored' = stored
    <2>1. wire[c] = <<>> /\ send[c] = <<>>
      BY <1>1 DEF HubRegister, Started
    <2> QED
      BY <1>1, <2>1 DEF HubRegister, DataOK, Seen
  <1>3. Due(c)' = {}
    <2>1. joined'[c] + 1 .. Len(stored') = {}
      BY <1>1, <1>2
    <2> QED
      BY <2>1 DEF Due
  <1> DEFINE e == PresenceEvent(UserOf[c], "user_online")
  <1>4. /\ e \in Event /\ e.event # "message"
        /\ Seen(c)' = Append(<<>>, e) \/ Seen(c)' = <<>>
    BY <1>1, <1>2, RegisterTold DEF PresenceEvent
  <1> HIDE DEF e
  <1>5. \A id : FeedOf(<<>>, {}, id) /\ CompleteOf(<<>>, {}, id)
    BY DEF FeedOf, CompleteOf
  <1>6. \A id : FeedOf(Append(<<>>, e), {}, id) /\ CompleteOf(Append(<<>>, e), {}, id)
    <2>1. <<>> \in Seq(Event)
      OBVIOUS
    <2> QED
      BY <1>4, <1>5, <2>1, FeedQuiet
  <1>7. /\ FeedOf(Seen(c)', {}, Ids(stored')) /\ CompleteOf(Seen(c)', {}, Ids(stored'))
        /\ FeedOf(wire'[c], {}, Ids(stored'))
    BY <1>2, <1>4, <1>5, <1>6
  <1> QED
    BY <1>1, <1>2, <1>3, <1>7 DEF OrderedAt

(* No pumps start but with a registration.                                   *)
LEMMA NotYetStarted ==
  ASSUME IInv, [Next]_vars, NEW c \in Conns, writer[c] = "none", ~HubRegister(c)
  PROVE  writer'[c] = "none" /\ joined'[c] = joined[c]
  <1>1. PumpOK /\ DataOK
    BY DEF IInv, TypeOK
  <1>2. \/ joined' = joined /\ writer' = writer
        \/ \E d \in Conns : HubRegister(d)
        \/ joined' = joined /\ \E d \in Conns : writer[d] = "running" /\ writer' = [writer EXCEPT ![d] = "done"]
    BY ZenonT(40) DEF Next, HubStep, HubTake, HubUnregister, RelayPresence, RelayToUser,
           RelayToGroup, DropFrame, RefuseMessage, BeginPersist, Take, PersistOk,
           PersistError, Resume,
           HubQuit, Stop, Connect, PumpStep, Read, ReadError, ReaderClose, Write, WriteError,
           WriteClose, PingError, WriterGone, WriterStep, vars, connVars, dataVars
  <1> QED
    BY ZenonT(40), <1>1, <1>2 DEF HubRegister, PumpOK, DataOK

LEMMA OrderedStep == TInv /\ Ordered /\ [Next]_vars => Ordered'
  <1>1. SUFFICES ASSUME TInv, Ordered, [Next]_vars, NEW c \in Conns
                 PROVE  /\ joined'[c] <= Len(stored')
                        /\ writer'[c] # "none" => OrderedAt(c)'
    BY DEF Ordered, OrderedAt
  <1>2. IInv /\ Started /\ Framed /\ RowsOnce
    BY <1>1 DEF TInv
  <1>3. CASE HubRegister(c)
    BY <1>1, <1>3, OrderedNew
  <1>4. CASE writer[c] = "none" /\ ~HubRegister(c)
    <2>1. writer'[c] = "none" /\ joined'[c] = joined[c] /\ joined[c] <= Len(stored)
      BY <1>1, <1>2, <1>4, NotYetStarted DEF Ordered
    <2>2. Len(stored) \in Nat /\ joined[c] \in Nat
      BY <1>2 DEF IInv, TypeOK, DataOK
    <2>3. stored' = stored \/ Len(stored') = Len(stored) + 1
      BY <1>1, <1>2, PendingStep, RowAdded
    <2>4. joined[c] <= Len(stored')
      BY <2>1, <2>2, <2>3
    <2> QED
      BY <2>1, <2>4
  <1>5. CASE writer[c] # "none"
    <2>1. joined[c] <= Len(stored) /\ OrderedAt(c)
      BY <1>1, <1>5 DEF Ordered, OrderedAt
    <2>2. joined'[c] <= Len(stored')
      BY <1>1, <1>2, <1>5, <2>1, DueStep
    <2> QED
      BY <1>1, <1>5, <2>1, <2>2, OrderedQuiet, OrderedStore
  <1> QED
    BY <1>3, <1>4, <1>5

(* Feed says what FeedOf says of the rows a connection is due.               *)
LEMMA FeedIsFeedOf ==
  ASSUME DataOK, NEW c \in Conns, NEW s \in Seq(Event)
  PROVE  /\ FeedOf(s, Due(c), Ids(stored)) => Feed(s, c)
         /\ CompleteOf(s, Due(c), Ids(stored))
              => \A j \in Due(c) : \E i \in DOMAIN s : Carries(s[i], j)
  <1>1. /\ DOMAIN s = 1 .. Len(s)
        /\ \A j \in Due(c) : Ids(stored)[j] = stored[j].id
    <2>1. Len(stored) \in Nat /\ joined[c] \in Nat /\ DOMAIN stored = 1 .. Len(stored)
      BY DEF DataOK
    <2>2. \A j \in Due(c) : j \in DOMAIN stored
      BY <2>1 DEF Due
    <2> QED
      BY <2>2 DEF Ids
  <1> QED
    BY <1>1 DEF Feed, FeedOf, CompleteOf, Carries

(* Every session of the receiver gets the stored messages in the order of   *)
(* their insertion, none twice and none left out while it is registered and *)
(* its writer runs; one that was evicted, unregistered or lost its socket   *)
(* got the first of them.                                                   *)
THEOREM FeedsInOrder == Spec => []FeedInOrder
  <1>1. Init => Ordered
    <2>1. Init => Len(stored) = 0
      BY DEF Init
    <2> QED
      BY <2>1 DEF Init, Ordered
  <1>2. TInv /\ Ordered => FeedInOrder
    <2>1. SUFFICES ASSUME TInv, Ordered, NEW c \in Conns, writer[c] # "none"
                   PROVE  /\ Feed(wire[c], c)
                          /\ writer[c] = "running" /\ c \in registered =>
                               /\ Feed(Seen(c), c)
                               /\ \A j \in Due(c) : \E i \in DOMAIN Seen(c) : Carries(Seen(c)[i], j)
      BY DEF FeedInOrder
    <2>2. DataOK /\ wire[c] \in Seq(Event) /\ Seen(c) \in Seq(Event)
      BY <2>1, SeenTyped DEF TInv, IInv, TypeOK, PumpOK
    <2> QED
      BY <2>1, <2>2, FeedIsFeedOf DEF Ordered
  <1> QED
    BY InitTInv, NextTInv, OrderedStep, <1>1, <1>2, PTL DEF Spec

-----------------------------------------------------------------------------
(* The sixth layer: presence, when no client sends presence events, as no    *)
(* client of web/src/api/websocket.ts does.                                  *)

NoPresenceFrames == \A f \in Frames : f.event \notin Presence

(* What an event says of its user is right.                                  *)
RightOf(e, table, keys) ==
  IF e.event = "user_offline" THEN \A d \in table : UserOf[d] # e.from ELSE e.from \in keys

PresenceRight ==
  \A c \in registered : writer[c] = "running" =>
    \A i \in 1 .. Len(Seen(c)) :
      LatestPresence(Seen(c), i) => RightOf(Seen(c)[i], registered, entries)

(* An event more: it is the latest of its user, and the others stay.         *)
LEMMA LatestAppend ==
  ASSUME NEW s \in Seq(Event), NEW e \in Event, NEW i \in 1 .. Len(Append(s, e)),
         LatestPresence(Append(s, e), i)
  PROVE  \/ Append(s, e)[i] = e /\ e.event \in Presence
         \/ /\ i \in 1 .. Len(s) /\ LatestPresence(s, i) /\ Append(s, e)[i] = s[i]
            /\ e.event \notin Presence \/ s[i].from # e.from
  <1> DEFINE t == Append(s, e)
  <1>1. /\ Len(s) \in Nat /\ Len(t) = Len(s) + 1
        /\ \A k \in 1 .. Len(s) : t[k] = s[k]
        /\ t[Len(s) + 1] = e
    BY AppendProperties
  <1> HIDE DEF t
  <1>2. i \in 1 .. Len(t) /\ LatestPresence(t, i)
    BY DEF t
  <1>3. CASE i = Len(s) + 1
    BY <1>1, <1>2, <1>3 DEF t, LatestPresence
  <1>4. CASE i \in 1 .. Len(s)
    <2>1. /\ t[i] = s[i] /\ Len(s) + 1 \in i + 1 .. Len(t)
          /\ \A k \in i + 1 .. Len(s) : k \in i + 1 .. Len(t) /\ t[k] = s[k]
      BY <1>1, <1>4
    <2>2. LatestPresence(s, i)
      BY <1>2, <2>1 DEF LatestPresence
    <2>3. e.event \notin Presence \/ s[i].from # e.from
      BY <1>1, <1>2, <2>1 DEF LatestPresence
    <2> QED
      BY <1>4, <2>1, <2>2, <2>3 DEF t
  <1> QED
    BY <1>1, <1>2, <1>3, <1>4

(* No step but a registration, an unregistration and the quit case changes   *)
(* the entries or tells of presence.                                         *)
LEMMA NoNews ==
  ASSUME NoPresenceFrames, IInv, Started, [Next]_vars,
         \A x \in Conns : ~HubRegister(x) /\ ~HubUnregister(x), ~HubQuit,
         NEW c \in Conns, writer'[c] = "running"
  PROVE  /\ entries' = entries /\ registered' \subseteq registered
         /\ \/ Seen(c)' = Seen(c)
            \/ \E e \in Event : Seen(c)' = Append(Seen(c), e) /\ e.event \notin Presence
  <1>1. entries' = entries /\ registered' \subseteq registered
    BY DEF Next, HubStep, HubTake, RelayPresence, RelayToUser,
           RelayToGroup, DropFrame, RefuseMessage, BeginPersist, Take, Route, Fed, PersistOk,
           PersistError,
           Resume, Stop, Connect, PumpStep, Read, ReadError, ReaderClose, Write, WriteError,
           WriteClose, PingError, vars
  <1>2. ASSUME NEW x \in Conns PROVE ~RelayPresence(x)
    <2>1. SUFFICES ASSUME RelayPresence(x) PROVE FALSE
      OBVIOUS
    <2>2. inbox[x] \in 1 .. Len(offered) /\ offered \in Seq([by : Conns, frame : Frames])
      BY <2>1 DEF RelayPresence, Take, IInv, InHand, TypeOK, DataOK
    <2>3. offered[inbox[x]] \in [by : Conns, frame : Frames]
      BY <2>2, ElementOfSeq
    <2> QED
      BY <2>1, <2>3 DEF RelayPresence, FrameOf, NoPresenceFrames
  <1>3. ASSUME NEW x \in Conns, HubTake(x)
        PROVE  \/ Seen(c)' = Seen(c)
               \/ \E e \in Event : Seen(c)' = Append(Seen(c), e) /\ e.event \notin Presence
    <2>1. CASE BeginPersist(x)
      BY <2>1 DEF BeginPersist, Take, Seen
    <2>2. CASE RefuseMessage(x)
      BY <2>2, RefuseTold DEF Presence
    <2> QED
      BY <1>2, <1>3, <2>1, <2>2, RelayTold DEF HubTake
  <1>4. CASE PersistOk
    BY <1>1, <1>4, PersistOkTold DEF Presence
  <1>5. CASE PersistError
    BY <1>1, <1>5, PersistErrorTold DEF Presence
  <1>6. ASSUME NEW x \in Conns, Connect(x) \/ PumpStep(x)
        PROVE  Seen(c)' = Seen(c)
    BY <1>6, PumpsTold DEF Lost
  <1>7. ASSUME Stop \/ UNCHANGED vars
        PROVE  Seen(c)' = Seen(c)
    BY <1>7 DEF Stop, vars, connVars, Seen
  <1> QED
    BY <1>1, <1>3, <1>4, <1>5, <1>6, <1>7 DEF Next, HubStep

LEMMA PresenceStep ==
  ASSUME NoPresenceFrames, IInv, Started, PresenceRight, [Next]_vars
  PROVE  PresenceRight'
  <1>1. SUFFICES ASSUME NEW c \in registered', writer'[c] = "running",
                        NEW i \in 1 .. Len(Seen(c)'), LatestPresence(Seen(c)', i)
                 PROVE  RightOf(Seen(c)'[i], registered', entries')
    BY DEF PresenceRight, LatestPresence, RightOf
  <1>2. TableOK /\ QueueOK /\ PumpOK /\ TableOK'
    BY NextIInv DEF IInv, TypeOK
  <1>3. c \in Conns /\ Seen(c) \in Seq(Event) /\ registered \subseteq Conns
    BY <1>1, <1>2, SeenTyped DEF TableOK
  <1>4. ASSUME NEW x \in Conns, HubRegister(x)
        PROVE  RightOf(Seen(c)'[i], registered', entries')
    <2> DEFINE e == PresenceEvent(UserOf[x], "user_online")
    <2>1. /\ e \in Event /\ e.event = "user_online" /\ e.from = UserOf[x]
          /\ Seen(c)' = Append(Seen(c), e)
          /\ registered' \subseteq registered \cup {x}
          /\ entries' = entries \cup {UserOf[x]}
      BY <1>1, <1>3, <1>4, RegisterTold DEF PresenceEvent, HubRegister
    <2> HIDE DEF e
    <2>2. CASE Append(Seen(c), e)[i] = e
      BY <2>1, <2>2 DEF RightOf
    <2>3. CASE /\ i \in 1 .. Len(Seen(c)) /\ LatestPresence(Seen(c), i)
               /\ Append(Seen(c), e)[i] = Seen(c)[i]
               /\ Seen(c)[i].from # e.from
      <3>1. c # x
        <4>1. ASSUME c = x PROVE FALSE
          <5>1. wire[c] = <<>> /\ send[c] = <<>>
            BY <1>3, <1>4, <4>1 DEF HubRegister, Started
          <5>2. Len(Seen(c)) = 0
            BY <5>1 DEF Seen
          <5> QED
            BY <2>3, <5>2
        <4> QED
          BY <4>1
      <3>2. c \in registered /\ writer[c] = "running"
        BY <1>1, <1>2, <1>3, <1>4, <2>1, <3>1 DEF HubRegister, PumpOK
      <3>3. RightOf(Seen(c)[i], registered, entries)
        BY <2>3, <3>2 DEF PresenceRight
      <3> QED
        BY <2>1, <2>3, <3>3 DEF RightOf
    <2>4. e.event \in Presence
      BY <2>1 DEF Presence
    <2> QED
      BY <1>1, <1>3, <2>1, <2>2, <2>3, <2>4, LatestAppend
  <1>5. ASSUME c \in registered, writer[c] = "running"
        PROVE  \A k \in 1 .. Len(Seen(c)) :
                 LatestPresence(Seen(c), k) => RightOf(Seen(c)[k], registered, entries)
    BY <1>5 DEF PresenceRight
  <1>6. ASSUME NEW x \in Conns, HubUnregister(x)
        PROVE  RightOf(Seen(c)'[i], registered', entries')
    <2> DEFINE e == PresenceEvent(UserOf[x], "user_offline")
    <2>1. /\ e \in Event /\ e.event = "user_offline" /\ e.from = UserOf[x]
          /\ \/ Seen(c)' = Append(Seen(c), e) /\ IsLast(x)
             \/ Seen(c)' = Seen(c) /\ ~IsLast(x)
          /\ registered' \subseteq registered \ {x}
          /\ entries' = IF IsLast(x) THEN entries \ {UserOf[x]} ELSE entries
          /\ writer' = writer
      BY <1>1, <1>3, <1>6, UnregisterTold DEF PresenceEvent, HubUnregister
    <2> HIDE DEF e
    <2>2. c \in registered /\ writer[c] = "running"
      BY <1>1, <2>1
    <2>3. CASE Seen(c)' = Seen(c) /\ ~IsLast(x)
      <3>1. RightOf(Seen(c)[i], registered, entries)
        BY <1>1, <1>5, <2>2, <2>3
      <3> QED
        BY <2>1, <2>3, <3>1 DEF RightOf
    <2>4. CASE Seen(c)' = Append(Seen(c), e) /\ IsLast(x)
      <3>1. \A d \in registered' : UserOf[d] # UserOf[x]
        BY <2>1, <2>4 DEF IsLast
      <3>2. CASE Append(Seen(c), e)[i] = e
        BY <2>1, <2>4, <3>1, <3>2 DEF RightOf
      <3>3. CASE /\ i \in 1 .. Len(Seen(c)) /\ LatestPresence(Seen(c), i)
                 /\ Append(Seen(c), e)[i] = Seen(c)[i]
                 /\ Seen(c)[i].from # e.from
        <4>1. RightOf(Seen(c)[i], registered, entries)
          BY <1>5, <2>2, <3>3
        <4> QED
          BY <2>1, <2>4, <3>3, <4>1 DEF RightOf
      <3>4. e.event \in Presence
        BY <2>1 DEF Presence
      <3> QED
        BY <1>1, <1>3, <2>1, <2>4, <3>2, <3>3, <3>4, LatestAppend
    <2> QED
      BY <2>1, <2>3, <2>4
  <1>7. CASE HubQuit
    BY <1>1, <1>7 DEF HubQuit
  <1>8. CASE (\A x \in Conns : ~HubRegister(x) /\ ~HubUnregister(x)) /\ ~HubQuit
    <2>1. /\ entries' = entries /\ registered' \subseteq registered
          /\ \/ Seen(c)' = Seen(c)
             \/ \E e \in Event : Seen(c)' = Append(Seen(c), e) /\ e.event \notin Presence
      BY <1>1, <1>3, <1>8, NoNews
    <2>2. c \in registered /\ writer[c] = "running"
      <3>1. c \in registered
        BY <1>1, <2>1
      <3>2. writer[c] # "none"
        BY <1>3, <3>1 DEF IInv, RegisteredOpen, Started
      <3> QED
        BY <1>1, <1>3, <3>1, <3>2, OnceRegistered
    <2>3. \E k \in 1 .. Len(Seen(c)) : LatestPresence(Seen(c), k) /\ Seen(c)'[i] = Seen(c)[k]
      <3>1. CASE Seen(c)' = Seen(c)
        BY <1>1, <3>1
      <3>2. CASE \E e \in Event : Seen(c)' = Append(Seen(c), e) /\ e.event \notin Presence
        BY <1>1, <1>3, <3>2, LatestAppend
      <3> QED
        BY <2>1, <3>1, <3>2
    <2>4. PICK k \in 1 .. Len(Seen(c)) : LatestPresence(Seen(c), k) /\ Seen(c)'[i] = Seen(c)[k]
      BY <2>3
    <2>5. RightOf(Seen(c)[k], registered, entries)
      BY <1>5, <2>2, <2>4
    <2> QED
      BY <2>1, <2>4, <2>5 DEF RightOf
  <1> QED
    BY <1>4, <1>6, <1>7, <1>8

(* When no client sends presence events, the last one that a session was    *)
(* sent about a user is right, however many connections come, go or are     *)
(* evicted: offline, and the user has no connection in the table; online,   *)
(* and the user has an entry there.                                         *)
THEOREM PresenceIsRight ==
  ASSUME NoPresenceFrames
  PROVE  Spec => []PresenceAccurate
  <1>1. Init => PresenceRight
    BY DEF Init, PresenceRight
  <1>2. IInv /\ Started /\ PresenceRight => PresenceAccurate
    <2>1. SUFFICES ASSUME IInv, PresenceRight, NEW c \in registered, writer[c] = "running",
                          NEW i \in DOMAIN Seen(c), LatestPresence(Seen(c), i)
                   PROVE  IF Seen(c)[i].event = "user_offline"
                          THEN ConnsOf(Seen(c)[i].from) = {} ELSE Seen(c)[i].from \in entries
      BY DEF PresenceAccurate
    <2>2. DOMAIN Seen(c) = 1 .. Len(Seen(c))
      BY <2>1, SeenTyped DEF IInv, TypeOK, TableOK
    <2>3. RightOf(Seen(c)[i], registered, entries)
      BY <2>1, <2>2 DEF PresenceRight
    <2> QED
      BY <2>3 DEF RightOf, ConnsOf
  <1>3. Init => Started
    BY DEF Init, Started
  <1>4. IInv /\ Started /\ PresenceRight /\ [Next]_vars => PresenceRight'
    BY PresenceStep
  <1> QED
    BY InitIInv, NextIInv, StartedStep, <1>1, <1>2, <1>3, <1>4, PTL DEF Spec
=============================================================================
