------------------------------ MODULE RateLimit ------------------------------
(***************************************************************************)
(* RateLimitRedis: one sorted set in Redis for every key, that is, address  *)
(* or user, with an entry for every request of the last window.  A handler  *)
(* reads the clock, and later Redis runs a script with that reading; the    *)
(* scripts of handlers that overlap run in any order.                       *)
(*                                                                         *)
(* Time is whole seconds, as scores are, and a script runs at most Delay    *)
(* seconds after its clock was read.                                        *)
(***************************************************************************)
EXTENDS Integers, FiniteSets

CONSTANTS
  Requests,   \* each with a uuid of its own
  Keys,       \* the keys that requests are counted under
  Limit,      \* of a key, requests in a window: 10 (auth routes), 120 (protected ones)
  Window,     \* its length: a minute
  Delay,      \* how old a clock reading is at most when its script runs
  MaxTime     \* bound: the clock

NoKey == ""

ASSUME RateLimitAssumption ==
  /\ Limit \in [Keys -> Nat \ {0}] /\ NoKey \notin Keys
  /\ Window \in Nat \ {0}
  /\ Delay \in 0 .. Window - 1 /\ MaxTime \in Nat

VARIABLES
  now,        \* the clock
  key,        \* the key of a request whose clock was read
  reading,    \* time.Now().Unix() of a request that was not answered yet
  entries,    \* the sorted set of a key: members with their scores
  expires,    \* when Redis drops the key, or Never
  verdict,    \* history: what the limiter said of a request
  ran         \* history: when its script ran

limitVars == <<now, key, reading, entries, expires, verdict, ran>>

None  == -1
Never == MaxTime + Window + 1
Times == 0 .. MaxTime

LimitTypeOK ==
  /\ now \in Times
  /\ reading \in [Requests -> Times \cup {None}]
  /\ key \in [Requests -> Keys \cup {NoKey}]
  /\ entries \in [Keys -> SUBSET [by : Requests, score : Times]]
  /\ expires \in [Keys -> Window .. Never]
  /\ verdict \in [Requests -> {"none", "allowed", "refused", "failedOpen"}]
  /\ ran \in [Requests -> Times \cup {None}]

LimitInit ==
  /\ now = 0
  /\ entries = [k \in Keys |-> {}] /\ expires = [k \in Keys |-> Never]
  /\ key = [r \in Requests |-> NoKey]
  /\ reading = [r \in Requests |-> None]
  /\ verdict = [r \in Requests |-> "none"]
  /\ ran = [r \in Requests |-> None]

Awaiting == {r \in Requests : reading[r] # None}

(* A second passes; no script is left behind for longer than Delay, and no  *)
(* key outlives the second in which it expires.                             *)
Tick ==
  /\ now < MaxTime /\ \A k \in Keys : now # expires[k]
  /\ \A r \in Awaiting : now - reading[r] < Delay
  /\ now' = now + 1
  /\ UNCHANGED <<key, reading, entries, expires, verdict, ran>>

(* Redis drops a key, and with it every entry.                              *)
Expire(k) ==
  /\ now = expires[k]
  /\ entries' = [entries EXCEPT ![k] = {}] /\ expires' = [expires EXCEPT ![k] = Never]
  /\ UNCHANGED <<now, key, reading, verdict, ran>>

(* Mutant: milliseconds, where the window is in seconds.                    *)
ReadClockMillis(r, k) ==
  /\ reading' = [reading EXCEPT ![r] = 1000 * now] /\ key' = [key EXCEPT ![r] = k]
  /\ UNCHANGED <<now, entries, expires, verdict, ran>>

ReadClock(r, k) ==
  /\ reading' = [reading EXCEPT ![r] = now] /\ key' = [key EXCEPT ![r] = k]
  /\ UNCHANGED <<now, entries, expires, verdict, ran>>

(* ZADD, ZREMRANGEBYSCORE: the set of its key after the script of r.         *)
Counted(r) ==
  {e \in entries[key[r]] \cup {[by |-> r, score |-> reading[r]]} : e.score > reading[r] - Window}

(* Mutants of Exceeded: one request more; one fewer.                        *)
ExceededLate(r)  == Cardinality(Counted(r)) > Limit[key[r]] + 1
ExceededEarly(r) == Cardinality(Counted(r)) >= Limit[key[r]]
Exceeded(r) == Cardinality(Counted(r)) > Limit[key[r]]

Answered(r, v) ==
  /\ verdict' = [verdict EXCEPT ![r] = v]
  /\ reading' = [reading EXCEPT ![r] = None]

(* The script; a request over the limit is in the set too, but does not     *)
(* move the expiry of the key.                                              *)
Script(r) ==
  /\ entries' = [entries EXCEPT ![key[r]] = Counted(r)]
  /\ expires' = [expires EXCEPT ![key[r]] = IF Exceeded(r) THEN @ ELSE now + Window]
  /\ ran' = [ran EXCEPT ![r] = now]

Allow(r)  == ~Exceeded(r) /\ Script(r) /\ Answered(r, "allowed") /\ UNCHANGED <<now, key>>
Refuse(r) == Exceeded(r) /\ Script(r) /\ Answered(r, "refused") /\ UNCHANGED <<now, key>>

(* The call fails, before or after the script ran: the request passes.      *)
FailOpen(r) ==
  /\ Script(r) \/ UNCHANGED <<entries, expires, ran>>
  /\ Answered(r, "failedOpen") /\ UNCHANGED <<now, key>>

-----------------------------------------------------------------------------
Between(k, a, b) == {r \in Requests : key[r] = k /\ ran[r] # None /\ ran[r] \in a .. b}

(* Of no key are more than Limit requests allowed in Window - Delay seconds *)
(* in a row: neither scripts that run out of order with old readings, nor   *)
(* the expiry of the key, which drops requests that were refused after the  *)
(* last one allowed, let the limiter forget a request that still counts.    *)
WindowBound ==
  \A k \in Keys, t \in Times :
    Cardinality({r \in Between(k, t - (Window - Delay) + 1, t) : verdict[r] = "allowed"}) <= Limit[k]

(* A request is refused only if Limit others of its key ran in the seconds  *)
(* before it: the others may have been refused themselves, so a client that *)
(* keeps trying stays out, but one that stays away for a window gets in.    *)
RefusedForCause ==
  \A r \in Requests : verdict[r] = "refused" =>
    Cardinality(Between(key[r], ran[r] - Delay - Window + 1, ran[r]) \ {r}) >= Limit[key[r]]
=============================================================================
