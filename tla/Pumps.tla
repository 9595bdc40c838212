-------------------------------- MODULE Pumps --------------------------------
(***************************************************************************)
(* One WebSocket connection in time: the frame limiter of ReadPump, the     *)
(* deadlines, the pings and the writes.  Hub has the pumps as goroutines    *)
(* among many connections, and their sends and receives; it leaves out      *)
(* time and the frames that the limiter refuses.                            *)
(*                                                                         *)
(* A write takes two steps, since both pumps write: the writer its events   *)
(* and pings, the reader the error of a frame it refuses.  gorilla's Conn   *)
(* allows one writer at a time: a second one panics, ends the first one's   *)
(* message or mixes with it.  A failed write makes every later one fail.    *)
(***************************************************************************)
EXTENDS Integers, Sequences, FiniteSets

CONSTANTS
  RateLimitCount, RateLimitWindow,           \* client.go has 10 in 1 s,
  WriteDeadline, PingPeriod, ReadDeadline,   \* and 10 s, 30 s and 60 s
  PingDelay, WriteDelay, PongDelay,  \* what a connection that is well takes at most:
                \* WritePump for a due ping, a write, and a ping until ReadPump
                \* reads its pong, with what the hub makes ReadPump wait
  MaxFrames,    \* bound: frames read
  MaxEvents,    \* bound: events the hub sends
  MaxTime       \* bound: the clock

ASSUME PumpsAssumption ==
  /\ {RateLimitCount, RateLimitWindow, WriteDeadline, PingPeriod, ReadDeadline} \subseteq Nat \ {0}
  /\ {PingDelay, WriteDelay, PongDelay, MaxFrames, MaxEvents, MaxTime} \subseteq Nat
  /\ RateLimitWindow <= ReadDeadline /\ WriteDeadline <= ReadDeadline
  /\ WriteDelay < WriteDeadline /\ PingPeriod + PingDelay + PongDelay < ReadDeadline

VARIABLES
  now,        \* the clock
  limiter,    \* RateLimiter: count and resetTime
  reader,     \* ReadPump, "offering" a frame to the hub or "writing" the error
              \* of a refused one
  writer,     \* WritePump
  began,      \* history: when the writer's last write began, None before it
  deadline,   \* of writes, set by the writer, None before its first one
  readBy,     \* of reads, set at the start and by a pong
  pingAt,     \* when the ticker fires next
  pinged,     \* when the ping was written whose pong was not read yet, or None
  sock,       \* "open", "broken" (writes fail from now on), "closed"
  passed,     \* history: the times of the frames that the limiter let through
  frames,     \* history: how many frames were read
  events,     \* history: how many events the writer took
  healthy,    \* history: the peer is there, and nothing took more than its delay
  panicked    \* a pump panicked, and with it the process

vars == <<now, limiter, reader, writer, began, deadline, readBy, pingAt, pinged, sock,
          passed, frames, events, healthy, panicked>>

None == -1
Times == 0 .. MaxTime + ReadDeadline

TypeOK ==
  /\ now \in 0 .. MaxTime
  /\ limiter \in [count : 0 .. RateLimitCount, reset : Times]
  /\ reader \in {"reading", "offering", "writing", "done"}
  /\ writer \in {"idle", "event", "ping", "done"}
  /\ {began, deadline, pinged} \subseteq Times \cup {None} /\ {readBy, pingAt} \subseteq Times
  /\ sock \in {"open", "broken", "closed"}
  /\ passed \in Seq(0 .. MaxTime) /\ Len(passed) <= frames
  /\ frames \in 0 .. MaxFrames /\ events \in 0 .. MaxEvents
  /\ healthy \in BOOLEAN /\ panicked \in BOOLEAN

Init ==
  /\ now = 0 /\ limiter = [count |-> 0, reset |-> RateLimitWindow]
  /\ reader = "reading" /\ writer = "idle" /\ began = None
  /\ deadline = None /\ readBy = ReadDeadline /\ pingAt = PingPeriod /\ pinged = None
  /\ sock = "open" /\ passed = <<>> /\ frames = 0 /\ events = 0
  /\ healthy = TRUE /\ panicked = FALSE

Alive == ~panicked
Writing == writer \in {"event", "ping"}

(* Nothing takes longer than a connection that is well needs.               *)
InTime ==
  /\ writer # "done" => now < pingAt + PingDelay
  /\ Writing => now < began + WriteDelay
  /\ pinged # None => now < pinged + PongDelay

(* Time passes while the pumps wait: WritePump for an event or the ticker,  *)
(* ReadPump for a frame until its deadline, or for the hub without one, and *)
(* a write for the peer, until the deadline that was set last.              *)
Tick ==
  /\ Alive /\ now < MaxTime
  /\ writer = "idle" => now < pingAt
  /\ reader = "reading" => now < readBy
  /\ Writing \/ (reader = "writing" /\ deadline # None) => now < deadline
  /\ now' = now + 1 /\ healthy' = (healthy /\ InTime)
  /\ UNCHANGED <<limiter, reader, writer, began, deadline, readBy, pingAt, pinged, sock,
                 passed, frames, events, panicked>>

(* The peer leaves, or the network fails.                                   *)
GoAway ==
  /\ Alive /\ healthy /\ healthy' = FALSE
  /\ UNCHANGED <<now, limiter, reader, writer, began, deadline, readBy, pingAt, pinged, sock,
                 passed, frames, events, panicked>>

-----------------------------------------------------------------------------
(* ReadPump.                                                                *)

(* The limiter's window after the first look at the clock.  Mutant: the     *)
(* next window does not start at this frame but has started before.         *)
WindowKept == IF now > limiter.reset THEN [count |-> 0, reset |-> now] ELSE limiter
CurrentWindow ==
  IF now > limiter.reset THEN [count |-> 0, reset |-> now + RateLimitWindow] ELSE limiter

(* Mutants of Allowed: one frame more; one fewer.                           *)
AllowedMore == CurrentWindow.count <= RateLimitCount
AllowedFewer == CurrentWindow.count + 1 < RateLimitCount
Allowed == CurrentWindow.count < RateLimitCount

Reading == Alive /\ reader = "reading" /\ sock # "closed" /\ frames < MaxFrames

Read ==
  /\ Reading /\ Allowed
  /\ limiter' = [CurrentWindow EXCEPT !.count = @ + 1]
  /\ reader' = "offering" /\ passed' = Append(passed, now) /\ frames' = frames + 1
  /\ UNCHANGED <<now, writer, began, deadline, readBy, pingAt, pinged, sock,
                 events, healthy, panicked>>

(* Until the hub takes the frame no other one is read, and no pong.         *)
HubTakes ==
  /\ Alive /\ reader = "offering" /\ reader' = "reading"
  /\ UNCHANGED <<now, limiter, writer, began, deadline, readBy, pingAt, pinged, sock,
                 passed, frames, events, healthy, panicked>>

Refuse ==
  /\ Reading /\ ~Allowed
  /\ limiter' = CurrentWindow
  /\ reader' = "writing" /\ frames' = frames + 1
  /\ UNCHANGED <<now, writer, began, deadline, readBy, pingAt, pinged, sock, passed,
                 events, healthy, panicked>>

(* Mutant: a pong does not move the read deadline.                          *)
PongIgnored ==
  /\ Alive /\ reader = "reading" /\ pinged # None /\ sock # "closed"
  /\ pinged' = None
  /\ UNCHANGED <<now, limiter, reader, writer, began, deadline, readBy, pingAt, sock,
                 passed, frames, events, healthy, panicked>>

Pong ==
  /\ Alive /\ reader = "reading" /\ pinged # None /\ sock # "closed"
  /\ pinged' = None /\ readBy' = now + ReadDeadline
  /\ UNCHANGED <<now, limiter, reader, writer, began, deadline, pingAt, sock,
                 passed, frames, events, healthy, panicked>>

(* The read deadline is over, the socket was closed, or the connection is   *)
(* not well and may be lost: the deferred calls.                            *)
ReadEnd ==
  /\ Alive /\ reader = "reading" /\ (now >= readBy \/ sock = "closed" \/ ~healthy)
  /\ reader' = "done" /\ sock' = "closed"
  /\ UNCHANGED <<now, limiter, writer, began, deadline, readBy, pingAt, pinged,
                 passed, frames, events, healthy, panicked>>

-----------------------------------------------------------------------------
(* Writes.                                                                  *)

(* Writes fail from the deadline on that was set last, by the writer, and   *)
(* may fail when the connection is not well.                                *)
Succeeds == sock = "open" /\ (deadline = None \/ now <= deadline)
MayFail == sock # "open" \/ (deadline # None /\ now >= deadline) \/ ~healthy

(* Mutant: the deadline of the first write stays.                           *)
DeadlineKept == IF deadline = None THEN now + WriteDeadline ELSE deadline
NextDeadline == now + WriteDeadline

(* What ticks next when this tick is taken: it waited in the ticker's       *)
(* channel, and those it kept from it were dropped.                         *)
NextTicks == {t \in now .. now + PingPeriod : t > pingAt /\ (t - pingAt) % PingPeriod = 0}

BeginWrite ==
  /\ Alive /\ writer = "idle" /\ deadline' = NextDeadline /\ began' = now
  /\ \/ /\ events < MaxEvents /\ events' = events + 1
        /\ writer' = "event" /\ UNCHANGED <<pingAt, pinged>>
     \/ /\ now >= pingAt /\ pingAt' \in NextTicks
        /\ pinged' = IF pinged = None THEN now ELSE pinged
        /\ writer' = "ping" /\ UNCHANGED events
  /\ UNCHANGED <<now, limiter, reader, readBy, sock, passed, frames, healthy, panicked>>

(* WritePump returns at the first write that fails, and closes the socket.  *)
EndWrite ==
  /\ Alive /\ Writing
  /\ \/ Succeeds /\ writer' = "idle" /\ UNCHANGED sock
     \/ MayFail /\ writer' = "done" /\ sock' = "closed"
  /\ UNCHANGED <<now, limiter, reader, began, deadline, readBy, pingAt, pinged,
                 passed, frames, events, healthy, panicked>>

(* ReadPump does not look at the error.                                     *)
EndRefuse ==
  /\ Alive /\ reader = "writing"
  /\ reader' = "reading"
  /\ \/ Succeeds /\ UNCHANGED sock
     \/ MayFail /\ sock' = IF sock = "open" THEN "broken" ELSE sock
  /\ UNCHANGED <<now, limiter, writer, began, deadline, readBy, pingAt, pinged, passed,
                 frames, events, healthy, panicked>>

(* Both write: gorilla panics, or one finds its message ended by the other. *)
Collide ==
  /\ Alive /\ reader = "writing" /\ Writing
  /\ \/ panicked' = TRUE /\ UNCHANGED sock
     \/ sock = "open" /\ sock' = "broken" /\ UNCHANGED panicked
  /\ UNCHANGED <<now, limiter, reader, writer, began, deadline, readBy, pingAt, pinged,
                 passed, frames, events, healthy>>

Next == \/ Tick \/ GoAway \/ Read \/ HubTakes \/ Refuse \/ Pong \/ ReadEnd
        \/ BeginWrite \/ EndWrite \/ EndRefuse \/ Collide

Spec == Init /\ [][Next]_vars

-----------------------------------------------------------------------------
(* The window is fixed, not sliding: as many as twice RateLimitCount frames *)
(* pass in the length of a window, and never more.                          *)
TwoWindows ==
  \A t \in 0 .. MaxTime :
    Cardinality({i \in DOMAIN passed : passed[i] \in t - RateLimitWindow .. t}) <= 2 * RateLimitCount

(* A frame is refused only if RateLimitCount frames passed in the length of *)
(* a window before it: a client that keeps to the rate is never refused.    *)
RefusedForCause ==
  [][reader' = "writing" /\ reader = "reading" =>
       Cardinality({i \in DOMAIN passed : passed[i] >= now - RateLimitWindow}) >= RateLimitCount]_vars

(* A connection of which no frame was refused, that has its peer and where  *)
(* every due ping, every write and every pong's way to ReadPump keep within *)
(* their delays, stays open: the read deadline has room for the next ping   *)
(* and its pong, and no write meets the deadline of an earlier one.  A hub  *)
(* that lets ReadPump wait too long with a frame makes a pong late.         *)
HealthyStays ==
  healthy /\ Len(passed) = frames =>
    sock = "open" /\ reader \in {"reading", "offering"} /\ writer # "done"

(* "This is the only place that writes to WebSocket." (client.go:106, of    *)
(* WritePump): the two pumps never write at the same time.                  *)
OneWriter == ~(reader = "writing" /\ Writing)
=============================================================================
