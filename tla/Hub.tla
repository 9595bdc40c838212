--------------------------------- MODULE Hub ---------------------------------
(***************************************************************************)
(* The WebSocket hub of internal/transport/websocket: one hub goroutine    *)
(* (Hub.Run) that owns the connection table, and for every connection an   *)
(* upgrade handler, a reader goroutine (ReadPump) and a writer goroutine   *)
(* (WritePump).  They meet at three unbuffered channels (register,         *)
(* unregister, incoming) and at one bounded send channel per connection.   *)
(*                                                                         *)
(* A rendezvous on an unbuffered channel is one step, joined with the hub's *)
(* handler that it starts: a handler sends at most one event to any one    *)
(* connection, and its sends go to different channels, so the steps of the *)
(* pumps in between commute with it.  The one handler that waits for       *)
(* another party (CreateMessage, a call to the database) is two steps.     *)
(***************************************************************************)
EXTENDS Naturals, Sequences, FiniteSets

CONSTANTS
  Conns,       \* the WebSocket connections that may be opened, each once
  Users,       \* user ids
  UserOf,      \* the authenticated user of a connection (Client.userID)
  Cap,         \* capacity of Client.send (256 in NewClient)
  Frames,      \* the frames clients send that the rate limiter lets through
  MaxFrames,   \* bound: frames read in a whole behaviour
  MaxFaults    \* bound: sockets that break, or that the peer closes

System   == "system"                               \* SenderID of ack and error
Presence == {"user_online", "user_offline"}
Events   == Presence \cup {"message", "typing", "read", "ack", "error", "other"}

(* What a client puts in a frame: any event and any receiver type, the      *)
(* server's own "ack" and "error" and unknown strings ("other") too; "text" *)
(* says whether the payload holds a text the hub can extract.  SenderID is  *)
(* not part of it: ReadPump overwrites it with the connection's user.       *)
Frame == [event : Events, rtype : {"user", "group", "other"}, to : Users, text : BOOLEAN]

(* An event on a send channel; id is the frame it stems from, 0 if none.   *)
Event == [event : Events, from : Users \cup {System}, id : 0 .. MaxFrames]

ASSUME HubAssumption ==
  /\ UserOf \in [Conns -> Users] /\ System \notin Users     \* user ids are UUIDs
  /\ Cap \in Nat \ {0}
  /\ MaxFrames \in Nat /\ MaxFaults \in Nat
  /\ Frames \subseteq Frame

VARIABLES
  hub,         \* where Hub.Run is: "select", "persisting", "returned", "panicked"
  current,     \* the frame handleUserMessage is working on, 0 if none
  entries,     \* the keys of h.clients
  registered,  \* the connections in the inner maps of h.clients
  send,        \* the buffer of c.send
  closed,      \* the connections whose send channel is closed
  reader,      \* the upgrade handler until it has registered, then ReadPump
  writer,      \* WritePump
  inbox,       \* the frame ReadPump offers on h.incoming, 0 if none
  sock,        \* the server's end of the connection
  wire,        \* the events written to the socket, in order
  offered,     \* the frames read so far; frame n is offered[n]
  stored,      \* the rows inserted into messages, in order, and whether
               \* CreateMessage reported each as stored
  joined,      \* Len(stored) when the connection registered
  quit,        \* whether h.quit is closed
  faults       \* how many sockets have failed under a pump

connVars == <<reader, writer, inbox, sock, wire>>
dataVars == <<offered, stored, joined>>
vars == <<hub, current, entries, registered, send, closed, connVars, dataVars, quit, faults>>

TableOK ==
  /\ hub \in {"select", "persisting", "returned", "panicked"}
  /\ current \in 0 .. MaxFrames
  /\ entries \subseteq Users
  /\ registered \subseteq Conns
  /\ closed \subseteq Conns

QueueOK ==
  /\ send \in [Conns -> Seq(Event)]
  /\ \A c \in Conns : Len(send[c]) <= Cap

PumpOK ==
  /\ reader \in [Conns -> {"absent", "registering", "reading", "offering",
                           "leaving", "closing", "done"}]
  /\ writer \in [Conns -> {"none", "running", "done"}]
  /\ inbox \in [Conns -> 0 .. MaxFrames]
  /\ sock \in [Conns -> {"none", "open", "closed"}]
  /\ wire \in [Conns -> Seq(Event)]

DataOK ==
  /\ offered \in Seq([by : Conns, frame : Frames])
  /\ Len(offered) <= MaxFrames
  /\ stored \in Seq([id : 1 .. MaxFrames, ok : BOOLEAN])
  /\ joined \in [Conns -> Nat]
  /\ faults \in 0 .. MaxFaults

TypeOK == TableOK /\ QueueOK /\ PumpOK /\ DataOK /\ quit \in BOOLEAN

Init ==
  /\ hub = "select" /\ current = 0
  /\ entries = {} /\ registered = {}
  /\ send = [c \in Conns |-> <<>>] /\ closed = {}
  /\ reader = [c \in Conns |-> "absent"]
  /\ writer = [c \in Conns |-> "none"]
  /\ inbox = [c \in Conns |-> 0]
  /\ sock = [c \in Conns |-> "none"]
  /\ wire = [c \in Conns |-> <<>>]
  /\ offered = <<>> /\ stored = <<>>
  /\ joined = [c \in Conns |-> 0]
  /\ quit = FALSE /\ faults = 0

(* A panic in the hub goroutine ends the process: nothing steps after it.   *)
Alive == hub # "panicked"

-----------------------------------------------------------------------------
(* Sending.  A handler builds a function "out" from the connections it      *)
(* addresses to the event for each of them.  A full channel loses its       *)
(* connection: the hub closes the channel and deletes the connection from   *)
(* the inner map, and leaves the key of h.clients.                          *)

ConnsOf(u) == {c \in registered : UserOf[c] = u}

Nobody == [c \in {} |-> 0]
ToAll(cs, event) == [c \in cs |-> event]

FullByOne(out) == {c \in DOMAIN out : Len(send[c]) > Cap}      \* mutant
Full(out) == {c \in DOMAIN out : Len(send[c]) >= Cap}

Enqueue(out) ==
  send' = [c \in Conns |->
             IF c \in DOMAIN out /\ c \notin Full(out)
             THEN Append(send[c], out[c]) ELSE send[c]]

(* The handler addressed "out" with the table holding cs.                   *)
FedWithoutDelete(cs, out) == Enqueue(out) /\ registered' = cs  \* mutant
Fed(cs, out) ==
  /\ Enqueue(out)
  /\ registered' = cs \ Full(out)

PresenceEvent(u, event) == [event |-> event, from |-> u, id |-> 0]

(* The rooms of the hub: nothing calls CreateRoom, so there are none.       *)
rooms == [r \in {} |-> {}]
RoomConns(r) == IF r \in DOMAIN rooms
                THEN {c \in registered : UserOf[c] \in rooms[r]} ELSE {}

-----------------------------------------------------------------------------
(* Connections coming and going.                                            *)

(* The upgrade handler has upgraded the connection and waits in Register.   *)
Connect(c) ==
  /\ Alive /\ reader[c] = "absent"
  /\ reader' = [reader EXCEPT ![c] = "registering"]
  /\ sock' = [sock EXCEPT ![c] = "open"]
  /\ UNCHANGED <<hub, current, entries, registered, send, closed, writer,
                 inbox, wire, dataVars, quit, faults>>

(* The hub takes a connection off h.register, adds it to the table and      *)
(* tells every connection, the new one too; the handler starts the pumps.   *)
HubRegister(c) ==
  /\ hub = "select" /\ reader[c] = "registering"
  /\ LET out == ToAll(registered \cup {c}, PresenceEvent(UserOf[c], "user_online"))
     IN /\ Fed(registered \cup {c}, out)
        /\ closed' = closed \cup Full(out)
  /\ entries' = entries \cup {UserOf[c]}
  /\ reader' = [reader EXCEPT ![c] = "reading"]
  /\ writer' = [writer EXCEPT ![c] = "running"]
  /\ joined' = [joined EXCEPT ![c] = Len(stored)]
  /\ UNCHANGED <<hub, current, inbox, sock, wire, offered, stored, quit, faults>>

(* Whether c's unregistration leaves the user's entry empty.                *)
IsLastOfAny(c) == UserOf[c] \in entries                        \* mutant
IsLast(c) == UserOf[c] \in entries
               /\ \A d \in registered \ {c} : UserOf[d] # UserOf[c]

(* The hub takes a connection off h.unregister.  The user's entry goes when *)
(* it is empty, with a user_offline to everyone left; the channel is closed *)
(* in any case, and closing a closed channel is a panic nothing recovers.   *)
HubUnregister(c) ==
  /\ hub = "select" /\ reader[c] = "leaving"
  /\ LET u    == UserOf[c]
         left == registered \ {c}
         out  == IF IsLast(c) THEN ToAll(left, PresenceEvent(u, "user_offline"))
                 ELSE Nobody
     IN /\ Fed(left, out)
        /\ entries' = IF IsLast(c) THEN entries \ {u} ELSE entries
        /\ closed' = closed \cup Full(out) \cup {c}
  /\ hub' = IF c \in closed THEN "panicked" ELSE "select"
  /\ reader' = [reader EXCEPT ![c] = "closing"]
  /\ UNCHANGED <<current, writer, inbox, sock, wire, dataVars, quit, faults>>

(* main calls Hub.Stop once, on SIGINT or SIGTERM.                          *)
Stop ==
  /\ Alive /\ ~quit /\ quit' = TRUE
  /\ UNCHANGED <<hub, current, entries, registered, send, closed, connVars, dataVars, faults>>

(* The quit case of the select: every registered connection's channel is    *)
(* closed, the table is emptied and the hub goroutine returns.              *)
HubQuitNoClose ==                                             \* mutant
  /\ hub = "select" /\ quit
  /\ hub' = "returned"
  /\ registered' = {} /\ entries' = {}
  /\ UNCHANGED <<current, send, closed, connVars, dataVars, quit, faults>>

HubQuit ==
  /\ hub = "select" /\ quit
  /\ hub' = "returned"
  /\ closed' = closed \cup registered
  /\ registered' = {} /\ entries' = {}
  /\ UNCHANGED <<current, send, connVars, dataVars, quit, faults>>

-----------------------------------------------------------------------------
(* A pump finds its socket broken: closed already, by the other pump, or    *)
(* lost just now, one more fault.                                           *)
Fault(c) == IF sock[c] = "closed" THEN UNCHANGED faults
            ELSE faults < MaxFaults /\ faults' = faults + 1

(* ReadPump.                                                                *)

(* A frame arrives and the limiter lets it through; the reader then waits   *)
(* until the hub takes it.                                                  *)
Read(c) ==
  /\ Alive /\ reader[c] = "reading" /\ sock[c] = "open" /\ Len(offered) < MaxFrames
  /\ \E f \in Frames : offered' = Append(offered, [by |-> c, frame |-> f])
  /\ inbox' = [inbox EXCEPT ![c] = Len(offered) + 1]
  /\ reader' = [reader EXCEPT ![c] = "offering"]
  /\ UNCHANGED <<hub, current, entries, registered, send, closed, writer, sock,
                 wire, stored, joined, quit, faults>>

(* ReadJSON fails: the peer closed or vanished, the read deadline passed,   *)
(* the frame was malformed or too long, or the writer closed the socket.    *)
ReadErrorNoUnregister(c) ==                                   \* mutant
  /\ Alive /\ reader[c] = "reading" /\ Fault(c)
  /\ reader' = [reader EXCEPT ![c] = "closing"]
  /\ UNCHANGED <<hub, current, entries, registered, send, closed, writer,
                 inbox, sock, wire, dataVars, quit>>

ReadError(c) ==
  /\ Alive /\ reader[c] = "reading" /\ Fault(c)
  /\ reader' = [reader EXCEPT ![c] = "leaving"]
  /\ UNCHANGED <<hub, current, entries, registered, send, closed, writer,
                 inbox, sock, wire, dataVars, quit>>

(* The deferred conn.Close, after the hub has taken the unregistration.     *)
ReaderClose(c) ==
  /\ Alive /\ reader[c] = "closing"
  /\ reader' = [reader EXCEPT ![c] = "done"]
  /\ sock' = [sock EXCEPT ![c] = "closed"]
  /\ UNCHANGED <<hub, current, entries, registered, send, closed, writer,
                 inbox, wire, dataVars, quit, faults>>

-----------------------------------------------------------------------------
(* WritePump.                                                               *)

WriterGone(c) ==
  /\ writer' = [writer EXCEPT ![c] = "done"]
  /\ sock' = [sock EXCEPT ![c] = "closed"]

WriterStep(c) == Alive /\ writer[c] = "running"

(* The writer takes an event off the channel and writes it.                 *)
Write(c) ==
  /\ WriterStep(c) /\ send[c] # <<>> /\ sock[c] = "open"
  /\ wire' = [wire EXCEPT ![c] = Append(@, Head(send[c]))]
  /\ send' = [send EXCEPT ![c] = Tail(@)]
  /\ UNCHANGED <<hub, current, entries, registered, closed, reader, writer,
                 inbox, sock, dataVars, quit, faults>>

(* It takes an event and the write fails: the event is lost.                *)
WriteError(c) ==
  /\ WriterStep(c) /\ send[c] # <<>> /\ Fault(c)
  /\ send' = [send EXCEPT ![c] = Tail(@)]
  /\ WriterGone(c)
  /\ UNCHANGED <<hub, current, entries, registered, closed, reader, inbox,
                 wire, dataVars, quit>>

(* The channel is closed and drained: a close frame, and the writer ends.   *)
WriteClose(c) ==
  /\ WriterStep(c) /\ send[c] = <<>> /\ c \in closed
  /\ WriterGone(c)
  /\ UNCHANGED <<hub, current, entries, registered, send, closed, reader,
                 inbox, wire, dataVars, quit, faults>>

(* A ping fails.                                                            *)
PingError(c) ==
  /\ WriterStep(c) /\ Fault(c)
  /\ WriterGone(c)
  /\ UNCHANGED <<hub, current, entries, registered, send, closed, reader,
                 inbox, wire, dataVars, quit>>

-----------------------------------------------------------------------------
(* routeMessage: the hub takes the frame that c's reader offers.            *)

Take(c) ==
  /\ hub = "select" /\ reader[c] = "offering"
  /\ reader' = [reader EXCEPT ![c] = "reading"]
  /\ inbox' = [inbox EXCEPT ![c] = 0]
  /\ UNCHANGED <<entries, writer, sock, wire, dataVars, quit, faults>>

FrameOf(c) == offered[inbox[c]].frame

IsUserMessage(f) == f.event = "message" /\ f.rtype = "user"

Route(cs, event) ==
  /\ Fed(registered, ToAll(cs, event))
  /\ closed' = closed \cup Full(ToAll(cs, event))

(* A presence event sent by a client is broadcast like the hub's own.       *)
RelayPresence(c) ==
  /\ Take(c) /\ FrameOf(c).event \in Presence
  /\ Route(registered, PresenceEvent(UserOf[c], FrameOf(c).event))
  /\ UNCHANGED <<hub, current>>

(* Any other event to a user goes as it is to the user's connections, even  *)
(* an "ack" or "error" that a client made up.  Mutant: the sender id of the *)
(* frame is kept too.                                                       *)
RelayUnstamped(c) ==
  /\ Take(c) /\ FrameOf(c).event \notin Presence
  /\ FrameOf(c).rtype = "user" /\ ~IsUserMessage(FrameOf(c))
  /\ Route(ConnsOf(FrameOf(c).to),
           [event |-> FrameOf(c).event, from |-> System, id |-> inbox[c]])
  /\ UNCHANGED <<hub, current>>

RelayToUser(c) ==
  /\ Take(c) /\ FrameOf(c).event \notin Presence
  /\ FrameOf(c).rtype = "user" /\ ~IsUserMessage(FrameOf(c))
  /\ Route(ConnsOf(FrameOf(c).to),
           [event |-> FrameOf(c).event, from |-> UserOf[c], id |-> inbox[c]])
  /\ UNCHANGED <<hub, current>>

(* An event to a group goes to the members of the room, if there is one.    *)
RelayToGroup(c) ==
  /\ Take(c) /\ FrameOf(c).event \notin Presence /\ FrameOf(c).rtype = "group"
  /\ Route(RoomConns(FrameOf(c).to),
           [event |-> FrameOf(c).event, from |-> UserOf[c], id |-> inbox[c]])
  /\ UNCHANGED <<hub, current>>

(* An event to neither a user nor a group is dropped.                       *)
DropFrame(c) ==
  /\ Take(c) /\ FrameOf(c).event \notin Presence /\ FrameOf(c).rtype = "other"
  /\ UNCHANGED <<hub, current, registered, send, closed>>

(* A message without a text is answered with an error.                      *)
RefuseMessage(c) ==
  /\ Take(c) /\ IsUserMessage(FrameOf(c)) /\ ~FrameOf(c).text
  /\ Route(ConnsOf(UserOf[c]), [event |-> "error", from |-> System, id |-> inbox[c]])
  /\ UNCHANGED <<hub, current>>

(* A message with a text: the hub goroutine calls CreateMessage and waits.  *)
BeginPersist(c) ==
  /\ Take(c) /\ IsUserMessage(FrameOf(c)) /\ FrameOf(c).text
  /\ hub' = "persisting" /\ current' = inbox[c]
  /\ UNCHANGED <<registered, send, closed>>

Sender == UserOf[offered[current].by]
Receiver == offered[current].frame.to

Resume ==
  /\ hub = "persisting"
  /\ hub' = "select" /\ current' = 0
  /\ UNCHANGED <<entries, connVars, offered, joined, quit, faults>>

(* The row is inserted: the message goes to the receiver's connections and  *)
(* an ack to the sender's.  Nobody is a friend of themselves, so            *)
(* CreateMessage succeeds only between two users.                           *)
DeliveryToOneSession ==                                       \* mutant
  LET one == CHOOSE cs \in SUBSET ConnsOf(Receiver) :
               Cardinality(cs) = 1 \/ ConnsOf(Receiver) = {}
  IN [c \in one \cup ConnsOf(Sender) |->
       IF UserOf[c] = Receiver
       THEN [event |-> "message", from |-> Sender, id |-> current]
       ELSE [event |-> "ack", from |-> System, id |-> current]]

Delivery ==
  [c \in ConnsOf(Receiver) \cup ConnsOf(Sender) |->
     IF UserOf[c] = Receiver
     THEN [event |-> "message", from |-> Sender, id |-> current]
     ELSE [event |-> "ack", from |-> System, id |-> current]]

PersistOk ==
  /\ Resume /\ Sender # Receiver
  /\ stored' = Append(stored, [id |-> current, ok |-> TRUE])
  /\ Fed(registered, Delivery)
  /\ closed' = closed \cup Full(Delivery)

(* The error that goes to the sender when it fails.                          *)
FailureIgnored == Delivery                                    \* mutant
FailureUntold == Nobody                                       \* mutant
Failure == ToAll(ConnsOf(Sender), [event |-> "error", from |-> System, id |-> current])

PersistErrorRetried ==                                        \* mutant
  /\ hub = "persisting"
  /\ stored' \in {stored, Append(stored, [id |-> current, ok |-> FALSE])}
  /\ Len(stored) < MaxFrames
  /\ UNCHANGED <<hub, current, registered, send, closed>>
  /\ UNCHANGED <<entries, connVars, offered, joined, quit, faults>>

(* CreateMessage reports an error: nothing was inserted, or the five-second *)
(* context ended after the row was committed and before the answer came.    *)
PersistError ==
  /\ Resume
  /\ \/ UNCHANGED stored
     \/ /\ Sender # Receiver
        /\ stored' = Append(stored, [id |-> current, ok |-> FALSE])
  /\ Fed(registered, Failure)
  /\ closed' = closed \cup Full(Failure)

-----------------------------------------------------------------------------
HubTake(c) == RelayPresence(c) \/ RelayToUser(c) \/ RelayToGroup(c)
                \/ DropFrame(c) \/ RefuseMessage(c) \/ BeginPersist(c)

HubStep == \/ \E c \in Conns : HubRegister(c) \/ HubUnregister(c) \/ HubTake(c)
           \/ PersistOk \/ PersistError \/ HubQuit

PumpStep(c) == Read(c) \/ ReadError(c) \/ ReaderClose(c)
                 \/ Write(c) \/ WriteError(c) \/ WriteClose(c) \/ PingError(c)

Next == \/ HubStep \/ Stop
        \/ \E c \in Conns : Connect(c) \/ PumpStep(c)

Spec == Init /\ [][Next]_vars

(* Fairness.  The Go scheduler runs every goroutine that can run; a write   *)
(* ends within the write deadline, a read on a closed socket fails, and     *)
(* CreateMessage ends within its five-second context.  The select of        *)
(* Hub.Run chooses at random among the cases that are ready and takes the   *)
(* waiting senders of one channel in order, so a case that stays ready is   *)
(* not passed over for ever: strong fairness, since the hub leaves and      *)
(* re-enters the select in between.                                         *)
Fairness ==
  /\ \A c \in Conns :
       /\ SF_vars(HubRegister(c)) /\ SF_vars(HubUnregister(c)) /\ SF_vars(HubTake(c))
       /\ WF_vars(Write(c) \/ WriteError(c) \/ WriteClose(c))
       /\ WF_vars(sock[c] = "closed" /\ ReadError(c))
       /\ WF_vars(ReaderClose(c))
  /\ SF_vars(HubQuit)
  /\ WF_vars(PersistOk \/ PersistError)

FairSpec == Spec /\ Fairness

-----------------------------------------------------------------------------
(* Safety.                                                                  *)

(* A connection in the table has an open channel, running pumps and an      *)
(* entry, and has not been unregistered: what makes every send of the hub   *)
(* a send on an open channel (broadcastToAll, sendToUser, sendToGroup) and  *)
(* every close on a full channel the first one.                             *)
RegisteredOpen ==
  \A c \in registered :
    /\ c \notin closed
    /\ UserOf[c] \in entries
    /\ reader[c] \in {"reading", "offering", "leaving"}

(* Nothing is ever put on a send channel after it was closed: no handler    *)
(* reaches the panic of a send on a closed channel.                         *)
ClosedNeverFed ==
  [][\A c \in closed : Len(send'[c]) <= Len(send[c]) /\ c \in closed']_vars

Seen(c) == wire[c] \o send[c]
(* The rows a connection is due: those addressed to its user that           *)
(* CreateMessage reported as stored since the connection registered.        *)
Due(c) == {j \in joined[c] + 1 .. Len(stored) :
             stored[j].ok /\ offered[stored[j].id].frame.to = UserOf[c]}

Carries(e, j) == e.event = "message" /\ e.id = stored[j].id

(* The messages in s are rows that c is due, in the order in which they     *)
(* were inserted, none twice and none left out in between.                  *)
Feed(s, c) ==
  /\ \A i \in DOMAIN s : s[i].event = "message" => \E j \in Due(c) : Carries(s[i], j)
  /\ \A i \in DOMAIN s : \A j, l \in Due(c) :
       Carries(s[i], j) /\ l < j => \E k \in 1 .. i - 1 : Carries(s[k], l)
  /\ \A i, k \in DOMAIN s :
       i # k /\ s[i].event = "message" /\ s[k].event = "message" => s[i].id # s[k].id

(* Every session of the receiver gets the stored messages in the order of   *)
(* their insertion, none twice and none left out while it is registered and *)
(* its writer runs; one that was evicted for its full queue, unregistered   *)
(* or lost its socket got the first of them (handleUserMessage, sendToUser).*)
FeedInOrder ==
  \A c \in Conns : writer[c] # "none" =>
    /\ Feed(wire[c], c)
    /\ writer[c] = "running" /\ c \in registered =>
         /\ Feed(Seen(c), c)
         /\ \A j \in Due(c) : \E i \in DOMAIN Seen(c) : Carries(Seen(c)[i], j)

(* The hub's own answer to frame n.  It has the sender id "system"; an "ack" *)
(* or "error" that a client sent is relayed under that client's user id.     *)
Answer(e, n) == e.event \in {"ack", "error"} /\ e.from = System /\ e.id = n

(* A message, or an ack of the hub's, goes out only for a row that is in    *)
(* the database, and a sender whom the hub tells "error" never had the      *)
(* message delivered: persist first, then deliver, then acknowledge.  No    *)
(* client can make another session see either: a "message" to a user is     *)
(* always persisted, and ReadPump stamps an "ack" with the client's user.   *)
PersistFirst ==
  \A c \in Conns : \A i \in DOMAIN Seen(c) :
    LET e  == Seen(c)[i]
        ok == \E j \in DOMAIN stored : stored[j].ok /\ stored[j].id = e.id
    IN /\ e.event = "message" => ok
       /\ Answer(e, e.id) => (e.event = "ack" <=> ok)

(* The connection that sent a user message is answered exactly once, by an  *)
(* ack or an error of the hub, when the hub is done with it; the hub owes   *)
(* no second answer later, whatever was interleaved while CreateMessage was *)
(* running.                                                                 *)
AnsweredOnce ==
  \A n \in DOMAIN offered :
    LET c == offered[n].by
    IN  IsUserMessage(offered[n].frame) /\ writer[c] = "running" /\ c \in registered
          /\ inbox[c] # n /\ current # n
        => Cardinality({i \in DOMAIN Seen(c) : Answer(Seen(c)[i], n)}) = 1

(* Event i of s is the last one that tells of its user's presence.          *)
LatestPresence(s, i) ==
  /\ s[i].event \in Presence
  /\ \A k \in i + 1 .. Len(s) : ~(s[k].event \in Presence /\ s[k].from = s[i].from)

(* As long as clients send no presence events, the last one a session was   *)
(* sent about a user is right: after user_offline the user has no           *)
(* connection in the table, and after user_online the user has an entry     *)
(* there, however many connections come, go or are evicted.                 *)
PresenceAccurate ==
  \A c \in registered : writer[c] = "running" =>
    \A i \in DOMAIN Seen(c) : LatestPresence(Seen(c), i) =>
      IF Seen(c)[i].event = "user_offline" THEN ConnsOf(Seen(c)[i].from) = {}
                                           ELSE Seen(c)[i].from \in entries

(* When the hub has returned, the table is empty and every channel that a   *)
(* writer drains is closed: no writer waits for a hub that is gone.         *)
ReturnedClosesAll ==
  hub = "returned" => registered = {} /\ \A c \in Conns : writer[c] # "none" => c \in closed

Ids(s) == [i \in DOMAIN s |-> s[i].id]

(* The hub asks no more of CreateMessage than Persist promises and Chat      *)
(* implements: it calls it for one message at a time, and takes a message   *)
(* for stored only when the call that stored it returned without an error.  *)
Persisted == INSTANCE Persist WITH
  Messages  <- 1 .. MaxFrames,
  pending   <- IF hub = "persisting" THEN <<current>> ELSE <<>>,
  rows      <- Ids(stored),
  confirmed <- {n \in DOMAIN stored : stored[n].ok}

PersistSpec == Persisted!Spec

-----------------------------------------------------------------------------
(* Liveness, under FairSpec.                                                *)

Down == hub \in {"returned", "panicked"}

(* A message that a reader offers is answered by the hub on the connection  *)
(* it came from, unless that connection's channel is closed or the hub is down.     *)
MessageAnswered ==
  \A c \in Conns : \A n \in 1 .. MaxFrames :
    (inbox[c] = n /\ IsUserMessage(offered[n].frame))
      ~> \/ \E i \in DOMAIN Seen(c) : Answer(Seen(c)[i], n)
         \/ c \in closed \/ writer[c] = "done" \/ Down

(* A socket that closed is unregistered and its reader ends, unless the     *)
(* hub is down: no session of a user who left stays in the table.           *)
DeadSocketForgotten ==
  \A c \in Conns : sock[c] = "closed" ~> (reader[c] = "done" /\ c \notin registered) \/ Down

(* After Stop every writer ends and closes its socket, unless the process   *)
(* panics first.                                                            *)
StopEndsWriters ==
  \A c \in Conns : quit ~> writer[c] # "running" \/ hub = "panicked"

-----------------------------------------------------------------------------
(* What the documentation says and the code does not do.                    *)

(* "Unknown/malformed events and slow clients are handled safely."          *)
(* (docs/PHASE1_COMPLETION_PLAN.md:389): the hub never panics.              *)
NoPanic == hub # "panicked"

=============================================================================
