# A verification project for go-chat-system

TLA+ models of the chat server of this repository, model-checked with TLC on
small instances. The safety properties that hold are also proved with TLAPS, for every
value of the constants; liveness is model-checked only. Source paths are relative to the repository's root.

## 1. The system

| Part | Where | State it keeps | Operations |
| --- | --- | --- | --- |
| WebSocket hub | `internal/transport/websocket/hub.go` | `clients`: user id to set of connections; `rooms`; the channels `register`, `unregister`, `incoming` (unbuffered) and `quit` | `Run` (the select loop), `Register`, `Stop`, routing, persisting, answering |
| Client pumps | `.../websocket/client.go` | per connection a socket, a `send` channel of 256 events, a rate limiter | `ReadPump`, `WritePump`, `Allow` |
| Upgrade handler | `internal/transport/wrapper/ws_handler.go` | none | upgrade, register, start the pumps |
| Friend requests | `internal/service/friend_request_service.go`, `internal/repository/friend_request_repo.go` | table `friend_requests` | create, accept, reject, cancel, two listings |
| Friendships | `internal/repository/friends_repo.go` | table `friends`, a row for each direction | `AreFriends`, list |
| Blocks | `internal/service/block_service.go`, `internal/repository/blocks_repo.go` | table `blocks` | block, unblock, `IsBlocked` |
| Messages | `internal/service/message_service.go`, `internal/repository/message_repo.go` | table `messages` | `CreateMessage`, history pages |
| Users, tokens | `internal/service/users_service.go`, `internal/shared/jwt` | table `users`; signed tokens with an expiry | register, login, refresh, search |
| HTTP middleware | `internal/transport/middleware`, `.../wrapper/wrapper.go` | a Redis sorted set per rate-limit key; the status latch of a response | rate limit, authentication, recovery, request ids, CORS |
| Start and stop | `cmd/server/main.go` | the process | load, serve, `Hub.Stop`, HTTP shutdown |
| Web API client | `web/src/api/client.ts`, `auth.ts` | tokens in storage, `isRefreshing`, `failedQueue` | requests, the 401 interceptor |
| Web socket client | `web/src/api/websocket.ts`, `context/SocketContext.tsx` | the socket, attempt counter, `shouldReconnect`, a timer | connect, reconnect, disconnect, send |
| Chat page | `web/src/pages/ChatPage.tsx`, `api/messages.ts` | the list of messages shown | load, merge, optimistic send |

How they meet. A browser's frame is read by a `ReadPump`, which offers it to the
hub on `incoming`; the hub goroutine routes it and, for a message to a user,
itself calls `MessageService.CreateMessage` and waits for the database; what it
sends goes on the `send` channels, from which each `WritePump` writes its socket.
HTTP handlers run in goroutines of their own and share only the database with
the hub. Nothing tells the hub of a block or a friendship.

What is hard here, and what should hold:

- *Hub and pumps.* Three goroutines per connection and one hub meet over
  unbuffered channels; queues fill up; sockets break under either pump; the
  process shuts down at any point. Every send must be on an open channel, every
  session must get the stored messages in order, every message must be answered
  once, a dead socket must be forgotten, presence must match the table.
- *Friendships, requests, blocks.* Handlers interleave statement by statement
  at PostgreSQL's default isolation, wait for each other's rows, deadlock and are
  aborted. Friendship must stay mutual and by consent, a pair must have one
  pending request, a request one answer.
- *Messages.* `CreateMessage` is three statements without a transaction, between
  which friendships and blocks change.
- *HTTP.* A response is written by whoever comes first of middleware, handler,
  upgrader and panic recovery, and must go out once and be logged as it went. The
  rate limiter's clock readings are old when its script runs, and overlap.
- *Web client.* Calls that are refused together share one refresh, whose answer may
  be late or lost; reloads, logouts, reconnects and page loads race with it.

`PROJECT.json` lists all components, and every such hazard at its line with the
properties that cover it or the reason there is none yet.

## 2. Modules

    Persist        what the hub needs of CreateMessage (abstract)
    Hub            hub goroutine, upgrade handlers, readers, writers, sockets;
                   uses Persist as a promise
      HubMC        small instances for TLC
      HubProofs    theorems about Hub: the table, the channels, Persist
        HubFeedProofs  what the sessions are told
    Relationships  friend requests, friendships and blocks over PostgreSQL
      RelationshipsMC
      RelationshipsProofs
      Chat         CreateMessage among the handlers of Relationships;
                   implements Persist
        ChatMC
        ChatProofs theorems about Chat; extends RelationshipsProofs
    Pumps          one connection in time: limiter, deadlines, pings, writes
      PumpsProofs
    RateLimit      the Redis limiter
      Http         a request through middleware, wrapper and upgrade, over RateLimit
        HttpMC
        HttpProofs theorems about Http and RateLimit
    Session        accounts, tokens and the web client's 401 interceptor
      SessionMC
      SessionProofs

### Hub

`registered` is the set of connections in the inner maps of `h.clients`, `entries`
its keys: they differ, because an eviction deletes a connection from the inner map
and leaves the key (hub.go:99-100), and presence depends on the keys. `send[c]` is
the buffer of a channel, `closed` the channels that were closed. `reader[c]` walks
through the upgrade handler and then `ReadPump`: absent, registering, reading,
offering (blocked on `incoming`), leaving (blocked on `unregister`), closing, done.
`offered` numbers the frames, `stored` the rows of `messages` by the number of their
frame, and `wire[c]` what was written to the socket: the last two are what the
properties compare.

A rendezvous on an unbuffered channel is one step together with the handler it
starts in the hub (`HubRegister`, `HubUnregister`, the six actions of `HubTake`). This
loses nothing: a handler puts at most one event on any one channel, so the pumps'
steps in between commute with it. The one handler that waits for somebody else,
`handleUserMessage`, is two steps, `BeginPersist` and `PersistOk` or `PersistError`,
between which everything else may happen. `PersistError` also covers an INSERT
that committed while its five-second context ended. A step in which a handler
addresses connections (`Fed`, `Full`) appends to the queues with room and evicts
the others. A second close of a channel is a panic that nothing recovers: the
hub's state becomes "panicked" and no action of any goroutine is enabled. `Fault`
is the environment: a socket breaks under one of its pumps, at most `MaxFaults`
times; a socket the other pump has closed fails for free.

A client may send any event to any receiver. What is not presence and not a message to
a user goes to the user it names as it is (`RelayToUser`, hub.go:122), or nowhere
(`DropFrame`), so a client can send somebody an "ack" or "error" of its own making. ReadPump
stamps the client's user id on it (client.go:101), and that is all that tells it from the
hub's answers, which come from `System`: `PersistFirst` and `AnsweredOnce` speak of
answers from `System`, so they say what the hub answered.

Left out: time and the frame the limiter refuses (both in Pumps), contents of payloads
(whether a text can be extracted is a field of the frame), logging.

### Relationships

A handler is a process of `Procs` with a program counter; a step is one SQL
statement. A statement that changes several rows and may have to wait for each of
them (the DELETE and the UPDATE of BlockUser, the two-row INSERT of AcceptRequest)
is a step for taking its snapshot and one per row. `tx[p]` holds what an open
transaction has written: invisible to everybody until `Commit`, and in the way of
every other writer of the same row (`RowHolders`, `FriendHolders`, `BlockHolders`).
After waiting, a writer looks at the row again, as read committed prescribes
(`UpdateRequest`); a DELETE skips a row that another transaction has deleted and committed
meanwhile (`AnswerCommitted`). `CheckIndex` is the unique partial index on pending requests.
The lock of SELECT ... FOR UPDATE and the UPDATE of the same row behind it are one step.
PostgreSQL itself (locks, waits, deadlock detection) is
marked external in the map; `Abort` is a cancelled context or a lost database
connection at any statement, `BreakDeadlock` the database choosing a victim.

A statement that commits while its caller is already cancelled is not told apart from
one that commits and is answered: the tables are the same, and only an "ok" answer is
what a property looks at.

Requests carry the number of the call that created them. A cancelled request is
kept with status "deleted", which stands for the absence of its row.

### Chat and Persist

Chat extends Relationships with the one caller of `CreateMessage`, the hub goroutine:
one call at a time, three statements, each of which may fail. `seen` is a history
variable: whether the running call has had a moment without a block and, after one,
a moment of friendship. `confirmed` numbers the rows whose call reported success.

Persist joins the two sides of that call. It has one call at a time, which ends in
success with its row stored, or in an error with or without it. Chat *implements* it:
`pending` is the pair of the running call, `rows` the pairs of `messages`. Hub *relies*
on it: its `BeginPersist` and `PersistOk` or `PersistError` are the steps of Persist
seen from the caller, with `pending` the frame in hand. Both are instances
(`INSTANCE Persist WITH`), checked as the property `PersistSpec` and proved. Since each
shows that it stays within Persist, with messages named by frames in one and by pairs
in the other, neither model needs the other's detail.

### Pumps

One connection with a clock, which Hub has not. `limiter` is `RateLimiter`, `deadline`
and `readBy` the socket's two deadlines, `pingAt` the ticker. A write is two steps,
because both pumps write and because it takes time: `BeginWrite`/`EndWrite` of WritePump and
`Refuse`/`EndRefuse` of ReadPump, whose error frame goes out under whatever deadline the
writer set last (client.go:93 sets none). `Collide` is what gorilla/websocket does with
two concurrent writers: a panic, or a message ended by the other's. A frame that the limiter
lets through is offered to the hub, and until the hub takes it (`HubTakes`), however
long that is, ReadPump reads no further frame and no pong, while the read deadline runs on
(client.go:102). What the hub does with it is in Hub.

`Tick` lets time pass wherever a goroutine waits: for an event or the ticker, for a frame
until the read deadline, for the hub without one, for a peer that does not take what is written
until the write deadline. `healthy` is history: the peer has not gone, and no due ping
waited longer than `PingDelay` for the writer, no write took longer than `WriteDelay`, no
pong was read later than `PongDelay` after its ping. The assumption on the three is
what the code's constants leave room for: a write may take less than 10 s, and the two delays of a ping
together less than the 30 s between ping period and read deadline. `HealthyStays`
says that within these the pumps do not end the connection. It promises nothing to a client
whose hub is slower: a hub that waits for the database (up to five seconds for each
message in front of it) can keep a frame, and the pong behind it, waiting for longer
than that, and then a peer that answered every ping is dropped.

### RateLimit and Http

RateLimit has a sorted set and a limit for each key, as Redis has: an address on the auth
routes (10 in a minute), a user on the protected ones (120). A request reads the clock in one
step and its script runs in another, at most `Delay` later: scripts of requests that overlap run in
any order. `Expire` is Redis dropping a key; `FailOpen` is an error of the call, with
or without the script's effect.

Http sends each request through `Chain(route)`: authentication and limit, only limit,
or neither, then the handler; `KeysOf` says under which key a request is counted. RequestID, CORS, Logger and Recover stand in front of all;
CORS answers preflights before Logger. A response is a record of the writer
(`statusResponseWriter`: status, latch) with what reached net/http behind it. `Handled`
has the responses of a handler that returns, `Begun` what a handler that panics may
have written, on which `Recovered` acts. A response is written by one goroutine, so
everything from the handler to Logger's line is one step, `Finish`, and only the steps
of the limiter, which requests share, are separate.

### Session

Server and one page of the web client. A call is sent, served and received in three
steps (`StartCall`, `Serve`, `Receive`), so answers come late and in any order, and may
be lost in either direction (`Lose`). `calls[r].at` says where it is: sent, answered,
queued (in `failedQueue`), refreshing, refreshed. What a continuation does after an
awaited answer is one step, since JavaScript runs it to its end: the retries behind
`processQueue` are microtasks of the same turn. `store` is local storage, which
survives a `Reload`; `shown` is the user of AuthContext. An account is known by its
e-mail, and tokens by their owner and expiry. `how` and `crossed` are history: how the
user shown came in, and whether a logout or a second form crossed an open call.

## 3. Runs

All bounds are in the `.cfg` files. `CHECK_DEADLOCK FALSE` is set everywhere: each
behaviour is finite by its bounds (frames, calls) and the process may stop.

| Run | Shows |
| --- | --- |
| `HubSessions` | One session of alice, two of bob that come and go and fill queues of three while two messages to bob are routed, so that order and repetition can be seen. `RegisteredOpen`, `FeedInOrder`, `PresenceAccurate`. The two sessions of bob are symmetric; sockets break in `HubFull`. |
| `HubFull` | One session each, queues of two, two frames out of every branch of `routeMessage` (a message with and without text, one to a group, a presence event, an "ack" to a user, an "error" to no receiver), one fault, Stop anywhere. `TypeOK`, `FeedInOrder`, `PersistFirst`, `AnsweredOnce`, `ReturnedClosesAll`, `ClosedNeverFed`, `PersistSpec`. |
| `HubLive` | The liveness properties under `FairSpec`. |
| `Chat` | Two handlers, all six operations, four calls, and one call of `CreateMessage`. Safety of Relationships and of Chat, and that CreateMessage implements Persist. Users and handlers are symmetric. |
| `RelLive` | `CallsAnswered` for two handlers and four calls of create, accept, block. Four calls are what the shortest deadlock takes: a friendship, then two blocks that delete its rows in opposite order. |
| `RelSerial` | One handler, five calls: `BlockClosesRequests`, `CreatedHasRow` hold when nothing overlaps. |
| `Session` | Two accounts, two calls open at a time and three in all, an access token that lives one tick, a refresh token two, three ticks. `TypeOK`, `OneRefresh`, `LoginHasTokens`, `TokensOfUser`, `RetriedFresh`, `CallsSettle`. |
| `Http` | A request for any route, two for the auth routes, a window of three seconds with a limit of one request from the address and of two by the user, clock readings up to one second old, four seconds. The two auth requests are symmetric. `HttpTypeOK`, `OneAnswer`, `ServedIfLimited`, `WindowBound`, `RefusedForCause`. |
| `Pumps` | Four frames, two events, eleven ticks; the limiter's window is two ticks, its count one; write deadline 2, ping period 3, read deadline 6, and delays of one tick each, the largest that fit. `TypeOK`, `TwoWindows`, `HealthyStays`, `RefusedForCause`. |
| `HubPanic`, `RelBlocked`, `PumpsWriters` | Disagreements between documentation and code, below. |

Why these bounds are enough to be interesting: eviction needs a queue that fills
with what one or two frames and the presence events produce (two or three events);
a session of the same user that outlives another needs two sessions; every
operation on a pair touches the rows of that pair only, so two users suffice, and
four calls make a friendship and race two more operations over it. A refresh with a
call queued behind it takes two open calls, and after the login there are two left to be
refused; the access token expires before the refresh token does and both expire before
the clock stops. A limit of one with three requests has refusals, and the clock runs
for more than a window, so that entries and the key go. In Pumps two windows, three
pings and a missed read deadline fit in eleven ticks, and with a count of one a second
frame in a window is refused.

What each property would catch is shown by the mutants in `PROJECT.json`: for every
property of a passing run a changed definition (they stand in the modules next to the
definition they change) under which TLC finds the property violated.

### Fairness

Hub: the scheduler runs every goroutine that can run (weak fairness of the pumps'
own steps); a write ends by its deadline, a read on a closed socket fails, and
`CreateMessage` ends by its context. The select of `Run` chooses among the ready cases
at random and serves the senders waiting on one channel in order, so a case that is
ready again and again is taken: strong fairness of each connection's rendezvous and
of `quit`. Reading a frame, connecting, pinging and stopping are not fair: nobody
has to do them. Relationships: a handler's statements are executed, and a deadlock
is broken, by `deadlock_timeout`; calls and aborts are not fair. Session: a call that was sent is
served or reported lost (five-second contexts on the server, ten seconds in the client),
an answer that has come is handled, and a redirect that was set is carried out; users do
nothing they do not want to. With that, `CallsSettle` says that a call in the refresh
queue is never forgotten.

### Disagreements found

- `HubPanic`: an evicted client's channel is closed a second time when its reader
  unregisters (hub.go:67, after hub.go:99 or 212), a panic that ends the server;
  `docs/PHASE1_COMPLETION_PLAN.md:389` says slow clients are handled safely.
- `RelBlocked`: a block and an acceptance that overlap can leave a pair both friends
  and blocked; `docs/CODEBASE.md:180` says a block removes the friendship rows.
- `PumpsWriters`: ReadPump writes the error frame of a frame over the limit itself
  (client.go:93), possibly while WritePump writes; the comment at
  `internal/transport/websocket/client.go:106` says WritePump is the only place that
  writes.

More, without a run of their own:

- `user_online` is broadcast for every connection (hub.go:56), where `docs/CODEBASE.md:213`
  says on a user's first.
- A message can be stored after a block of the pair has committed (message_service.go:73),
  where `docs/CODEBASE.md:209` says direct messages require friendship and no block;
  `StoredWasAllowed` is what holds instead.
- Up to twenty messages of a connection pass within one second, across the boundary of two
  windows (client.go:46), where `docs/CODEBASE.md:217-219` says ten per second; `TwoWindows`
  is what holds instead.
- The answer of a refresh that was under way when the user logged out puts tokens back into local
  storage (client.ts:159), where `docs/PHASE1_COMPLETION_PLAN.md:397` says that logout removes
  local credentials. `TokensOfUser` and `RetriedFresh` are stated for behaviours
  in which no logout or second form crosses an open call (`crossed`), and `TokensOfUser` fails
  without that.
- Of two creates that race the second inserts no row and is still answered 201
  (friend_request_repo.go:33), where `docs/CODEBASE.md:176` says that it creates a pending
  request: `CreatedHasRow` fails with two handlers.
- A create that passed its block check before a block commits leaves a request pending between
  a blocked pair (friend_request_service.go:90), where `docs/CODEBASE.md:180` says that a block
  marks related requests blocked: `BlockClosesRequests` fails with two handlers.

The last two need handlers that overlap. `RelSerial` has one handler and cannot show them: it shows, as
`SerialBlocks` and `SerialCreates` prove, that nothing but an overlap causes them.

Three things the code does that no document denies are left out of a property by its
proviso: a user who registered has no refresh token and is left shown without tokens when the
access token has expired (`LoginHasTokens`); an error frame written under an old deadline loses the
connection, and so does a hub that is too slow for the pongs (both `HealthyStays`). And the body
of a refused upgrade has two error texts (ws_handler.go:61), behind one header.

## 4. Proofs

Every invariant and every safety property over steps that a passing run checks is a theorem,
and so are the two refinements. A theorem holds for all sets of users, connections, handlers,
requests and calls, and all bounds, queue sizes, limits and times that the assumptions of its
module allow (`HubAssumption`, `RelationshipsAssumption`, ...). These say what the
constants are (a user for each connection, positive counts, `System` no user's id) and, in Pumps,
that the delays of a connection that is well fit between the deadlines, as the code's constants
leave room for; in RateLimit, that a script runs less than a window after its clock reading. The
frames of Hub are any set of frames, with any event and receiver. Five theorems assume more:

- `PresenceIsRight` assumes `NoPresenceFrames`: no client sends `user_online` or
  `user_offline` itself. The hub would broadcast such a frame as its own (hub.go:113); the web
  client sends messages, typing and read marks only (`web/src/api/websocket.ts:149-169`).
- `SerialBlocks`, `SerialSeparates` and `SerialCreates` assume `Serial`, one handler. They say
  that the overlap of two handlers is the only reason why these properties fail.
- `RetriedLater` assumes that an access token lives at all (`Expiry # 0`; `config/config.yaml:25` has 24 hours):
otherwise the token of a refresh may be as old as the one it replaces.

An invariant is built in layers, each a conjunction of named parts that rests on the layers
before it, with a lemma for each kind of step. All layers were model-checked on
the runs' instances before they were proved.

### HubProofs and HubFeedProofs

| Theorem | Property |
| --- | --- |
| `TypeCorrect` | `TypeOK`, with the bound on every send queue |
| `TableIsOpen` | `RegisteredOpen` |
| `NoSendOnClosed` | `ClosedNeverFed` |
| `HubPersists` | `PersistSpec`: Hub relies on no more than Persist promises |
| `ReturnedClosed` | `ReturnedClosesAll` |
| `PersistedFirst` | `PersistFirst` |
| `OneAnswerEach` | `AnsweredOnce` |
| `FeedsInOrder` | `FeedInOrder` |
| `PresenceIsRight` | `PresenceAccurate` |

`IInv == TypeOK /\ InHand /\ NotYetClosed /\ RegisteredOpen`. `RegisteredOpen` is not
inductive by itself: that a connection about to register has an open channel is
`NotYetClosed`, and that the frame the hub works on, or a reader offers, is one of
`offered` is `InHand`, without which the types of the events the handlers build cannot be
established. The lemmas about `Fed` are shared by all handlers; `PersistSimulation`
takes the actions of Hub one by one.

What the sessions are told needs `TInv`, four layers more. `Started`: pumps start with the
registration, and a connection with pumps is in the table or has a closed channel;
this is `ReturnedClosesAll` when the hub has returned. `Framed`: a frame is in one hand
at a time. `RowsOnce`: rows are of messages the hub is done with. `Told`: whatever
has been said of a message is said after its row was decided, and agrees with it.
Over these, `Answered` is inductive, because the frame in hand has no answer yet and each of
its endings gives one. `Ordered` follows the feed of a session both as queued
and as written, complete while the session is registered: what an eviction or a
broken socket leaves is the first part of it. `PresenceRight` ties the latest
presence event of each user to the keys of the table; the evictions, which leave keys without
connections, are why "online" promises an entry and not a connection.

### RelationshipsProofs

| Theorem | Property |
| --- | --- |
| `TypeCorrect` | `TypeOK`, which the run checks as part of `ChatTypeOK` |
| `AnswersStand` | `AnsweredForGood` |
| `Consent` | `FriendshipByConsent` |
| `OneRequestPending` | `OnePending` |
| `MutualFriends` | `FriendsMutual` |
| `AcceptedStand` | `AcceptedAreFriends` |
| `SerialBlocks`, `SerialSeparates`, `SerialCreates` | `BlockClosesRequests`, `BlockSeparates`, `CreatedHasRow`, of one handler |

`Typed` says what the statement a handler is at tells of its operation, and that
requests are between two users. `Locked` says what `tx` and `todo` hold at each
statement and that row locks exclude each other: an acceptance holds its request,
pending, until it commits, which is why an answer stands. `Paired` is why friendship stays mutual
although a block deletes the two rows one after the other and may wait in between:

- a block deletes both rows or none (`DeletesBoth`), since its snapshot had both;
- a row that an acceptance need not write is there (`AcceptSeesBoth`), until the acceptance ends;
- a block that has deleted a row which a running acceptance counts on has still to lock the request
  of that acceptance, and so cannot commit before it (`BlockFollows`);
- and it moves on every accepted request of the pair (`BlockTakesAccepted`).

The last two rest on the order of the statements in `BlockUser`: the requests are updated after the
friendship rows are deleted, by a snapshot of their own. `Separated` is the further layer for one handler:
what a create has read still holds when it inserts, and a block has seen all of the pair.

### ChatProofs

| Theorem | Property |
| --- | --- |
| `StoredAllowed` | `StoredWasAllowed` |
| `CallPersists` | `PersistSpec`: CreateMessage implements Persist |
| `ChatImplements` | Chat, its calls hidden, is a behaviour of Relationships |
| `ChatTypeCorrect` | `ChatTypeOK` |
| `ChatFriendships` | the properties of Relationships, in Chat |
| `StoredRequest` | `StoredHasRequest` |

`SendInv == SendTyped /\ Witnessed /\ StoredWasAllowed`. `Witnessed` says that the
history of the running call holds what the tables show now, and that each check it
has passed left its mark: that is why a row is only inserted with "friends" in its history.
The proof takes a step of a handler as any change of the tables at all, so the first
two theorems do not depend on how friend requests and blocks are handled. The others
do, through `ChatImplements`: a stored message had a friendship, and a
friendship has a request behind it (`FriendsHaveRequest` of `Paired`), which is never removed.

### SessionProofs

| Theorem | Property |
| --- | --- |
| `TypeCorrect` | `TypeOK` |
| `RefreshIsOne` | `OneRefresh` |
| `LoginTokens` | `LoginHasTokens` |
| `TokensAreOurs` | `TokensOfUser` |
| `RetriedLater` | `RetriedFresh` |

`OneRunning` is `OneRefresh` with the call that refreshes named. `InPairs`: a refresh token never
stays without an access token. `Ours`: as long as no logout or second form has crossed an
open call, an empty storage has at most one form under way, and otherwise every token in storage,
in calls and in answers is of the user shown. `Aged` bounds the expiry of all
tokens by the time of issue, and says that a refresh under way brings a later token
than the call that asked for it was refused with. It needs `Ours`: the answer of somebody
else's refresh could replace a token by an earlier one.

### HttpProofs

| Theorem | Property |
| --- | --- |
| `TypeCorrect` | `HttpTypeOK` |
| `AnsweredByOne` | `OneAnswer` |
| `LimitedFirst` | `ServedIfLimited` |
| `LimitHolds` | `WindowBound`, for each key |
| `RefusalsEarned` | `RefusedForCause` of RateLimit |

`Staged` says where a request can be in the middleware of its route and what that says of its
user and verdict, and lists the responses Logger can see. `Remembered` ties the sorted set to history:
the requests whose script ran have one entry at most, under their key, with a score at most `Delay` before
it, and one that was allowed less than `Window - Delay` ago still has its entry, also
across the expiry of the key. The bound is then a count: those allowed in such
a span all had their entries when the last of them was let in.

### PumpsProofs

| Theorem | Property |
| --- | --- |
| `TypeCorrect` | `TypeOK` |
| `TwoWindowsAtMost` | `TwoWindows` |
| `RefusalsEarned` | `RefusedForCause` of Pumps |
| `HealthyConnections` | `HealthyStays` |

`Windowed` describes the frames that passed by the limiter's windows: the last `count` of them are in the
current one, those before it are older, and of any 2 * RateLimitCount + 1 in a row
the last is more than a window after the first (`Apart`), from which `TwoWindows`
is a count. `Healthy` adds to the property that a write in progress has a deadline of its own, later
than it can take (`WriteInTime`), and that the read deadline has room for the next ping, as late as
it may be, and for its pong (`ReadInTime`): a pong moves that deadline to at least
`ReadDeadline` after the tick before the next one, since ticks that are dropped only make the
next one come sooner.

### What the proofs changed in the models

- A DELETE of a friendship row that another block has deleted and committed meanwhile skips that row
  for good (`AnswerCommitted`). Before, it looked at the row again, and would have taken one that was
  inserted later for the one it saw; `DeletesBoth` and `BlockFollows` were not inductive.
- The requests that `RefusedForCause` and `WindowBound` of RateLimit count (`Between`) are those whose
  script ran. With small clock values the spans counted go below zero, to the value
  that stands for "never".
- `FeedInOrder` and `PresenceAccurate` of Hub are stated with quantifiers over positions
  instead of folds and filters of sequences, which the provers cannot unfold.

### What is only model-checked

Liveness (`MessageAnswered`, `DeadSocketForgotten`, `StopEndsWriters` of Hub,
`CallsAnswered` of Relationships, `CallsSettle` of Session): the prover reasons
neither about fairness, which is ENABLED, nor about leads-to by induction. The three runs that
expect a violation are counterexamples and have nothing to prove.

## 5. Plan

Done: Hub, Relationships, Chat, Persist, Pumps, RateLimit, Http, Session, and the proofs
above. The runs are kept to a dozen, so that all of them finish within minutes; a new
one takes the place of an old one.

Then, proving more: that the hub does not panic while no queue fills and no socket
breaks under its writer, which would show that the disagreement of `HubPanic` needs an eviction;
that two writes never collide on a connection of which no frame was refused
(`PumpsWriters`).

Modelling what is left, in this order: `Shutdown` (main's order of stopping with
handlers in `Register`), `Sockets` (connect, reconnect timer, disconnect of the web
socket client), `Conversation` (the page's list under loads, live messages and optimistic
ones), `Paging`.

## 6. Not modelled

Wiring (`injector.go`), configuration, connections and logging are pure I/O at
start. Signing of tokens and hashing of passwords are cryptography: tokens are not forged, and
a wrong password is one of the reasons for a 401. Texts of responses and log lines,
request ids and CORS headers are wording. Reads that change nothing (user search,
friend and request lists, message history) are an answered call. Rooms exist in
the hub but nothing creates one, so `RelayToGroup` reaches nobody. Deleting users has
no operation, so foreign keys always hold. Several server processes do not share
a hub; each is one instance of Hub. Pages and styling are layout. The parts that the
plan above still lists are marked not modelled in `PROJECT.json` with their reason.
