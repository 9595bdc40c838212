-------------------------------- MODULE Http ---------------------------------
(***************************************************************************)
(* A request on its way through the middleware of routes.go: request id,    *)
(* CORS, the logger with its statusResponseWriter, recovery, and for the    *)
(* routes of /api/v1 authentication and rate limit (RateLimit) in front of  *)
(* the handler, which the wrapper answers for.  Requests run concurrently;  *)
(* what they share are the sorted sets of the limiters.                     *)
(***************************************************************************)
EXTENDS RateLimit, Sequences

CONSTANTS
  Users,    \* user ids, and the keys that stand for them; the other keys are addresses
  Codes,    \* the statuses that services return, 0 for none
  Asks      \* the routes a request may be for

Routes == {"preflight", "auth", "protected", "socket", "health", "unknown"}

ASSUME HttpAssumption ==
  Users \subseteq Keys /\ Codes \subseteq Nat /\ Asks \in [Requests -> SUBSET Routes]

VARIABLES
  route,    \* what a request asks for
  left,     \* the middleware and handler still in front of it
  user,     \* UserIDKey in its context
  last      \* history: the writer of the response that was finished last

httpVars == <<route, left, user, last>>

(* statusResponseWriter, and of the net/http response behind it the headers *)
(* and the parts of the body that reached it, in order.  Nothing is written *)
(* for a request before the step that finishes it.                          *)
Writer == [status |-> 200, wrote |-> FALSE, heads |-> <<>>, body |-> <<>>, hijacked |-> FALSE]

HttpTypeOK ==
  /\ LimitTypeOK
  /\ route \in [Requests -> Routes \cup {"none"}]
  /\ left \in [Requests -> Seq({"authenticate", "limit", "script", "handle"})]
  /\ user \in [Requests -> Users \cup {NoKey}]
  /\ last \in [status : Nat, wrote : BOOLEAN, heads : Seq(Nat),
               body : Seq({"result", "error"}), hijacked : BOOLEAN]

-----------------------------------------------------------------------------
(* The response writer.  After Hijack net/http ignores what is written.     *)
WriteHeader(v, code) ==
  IF v.wrote THEN v
  ELSE [v EXCEPT !.status = code, !.wrote = TRUE,
                 !.heads = IF v.hijacked THEN @ ELSE Append(@, code)]

Write(v, part) ==
  LET head == WriteHeader(v, 200)
  IN  [head EXCEPT !.body = IF v.hijacked THEN @ ELSE Append(@, part)]

Respond(v, code, part) == Write(WriteHeader(v, code), part)
Error(v, code) == Respond(v, code, "error")

(* Mutant: Recover in front of Logger, where w is no statusResponseWriter.  *)
RecoveredInFront(v) == Error(v, 500)
Recovered(v) == IF v.wrote THEN v ELSE Error(v, 500)

(* HTTPResponseWrapper: the status a service returns, or the default.       *)
StatusCode(code, failed) ==
  IF code # 0 THEN code ELSE IF failed THEN 500 ELSE 200

Wrapped(v) ==
  {Respond(v, StatusCode(code, TRUE), "error") : code \in Codes}
  \cup {Respond(v, StatusCode(code, FALSE), "result") : code \in Codes}

(* Upgrade answers for itself when it refuses, and Handler answers again;   *)
(* once the connection is hijacked net/http has no part in it any more.     *)
Upgraded(v) ==
  {Error(Error(v, code), 400) : code \in {400, 403, 500}}
  \cup {[v EXCEPT !.hijacked = TRUE], Error([v EXCEPT !.hijacked = TRUE], 400)}

Health(v) == {Write(v, "result"), Error(v, 503)}
NotFound(v) == {Error(v, 404), WriteHeader(v, 405)}

Handled(rt) ==
  CASE rt \in {"auth", "protected"} -> Wrapped(Writer)
    [] rt = "socket"               -> Upgraded(Writer)
    [] rt = "health"               -> Health(Writer)
    [] rt = "unknown"              -> NotFound(Writer)

(* A handler that panics has written nothing, the header, or all of it.     *)
Begun(rt) ==
  {Writer} \cup {v \in Handled(rt) : ~v.hijacked}
  \cup {WriteHeader(Writer, StatusCode(code, FALSE)) : code \in Codes}

-----------------------------------------------------------------------------
HttpInit ==
  /\ LimitInit
  /\ route = [r \in Requests |-> "none"] /\ left = [r \in Requests |-> <<>>]
  /\ user = [r \in Requests |-> NoKey]
  /\ last = WriteHeader(Writer, 204)

(* Mutant: the limiter is used in front of the authentication.              *)
ChainLimitFirst(rt) ==
  CASE rt \in {"protected", "socket"} -> <<"limit", "authenticate", "handle">>
    [] rt = "auth"                    -> <<"limit", "handle">>
    [] rt \in {"health", "unknown"}   -> <<"handle">>

Chain(rt) ==
  CASE rt \in {"protected", "socket"} -> <<"authenticate", "limit", "handle">>
    [] rt = "auth"                    -> <<"limit", "handle">>
    [] rt \in {"health", "unknown"}   -> <<"handle">>

At(r, stage) == left[r] # <<>> /\ Head(left[r]) = stage

(* CORS answers a preflight itself, in front of Logger.                     *)
Arrive(r) ==
  /\ route[r] = "none"
  /\ \E rt \in Asks[r] :
       /\ route' = [route EXCEPT ![r] = rt]
       /\ IF rt = "preflight"
          THEN last' = WriteHeader(Writer, 204) /\ UNCHANGED left
          ELSE left' = [left EXCEPT ![r] = Chain(rt)] /\ UNCHANGED last
  /\ UNCHANGED <<limitVars, user>>

Proceed(r) == left' = [left EXCEPT ![r] = Tail(@)]

(* The response is v; the deferred and remaining parts of the middleware    *)
(* run, Logger last.                                                        *)
Finish(r, v) == left' = [left EXCEPT ![r] = <<>>] /\ last' = v

Authenticate(r) ==
  /\ At(r, "authenticate")
  /\ \/ /\ \E u \in Users : user' = [user EXCEPT ![r] = u]
        /\ Proceed(r) /\ UNCHANGED last
     \/ \E code \in {400, 401} : Finish(r, Error(Writer, code)) /\ UNCHANGED user
  /\ UNCHANGED <<limitVars, route>>

(* IPKey: an address that the request names itself (X-Forwarded-For) or     *)
(* comes from, or none if none can be told; UserKey.                        *)
KeysOf(r) == IF route[r] = "auth" THEN (Keys \ Users) \cup {NoKey} ELSE {user[r]}

BeginLimit(r) ==
  /\ At(r, "limit")
  /\ \E k \in KeysOf(r) :
       IF k = NoKey
       THEN Proceed(r) /\ UNCHANGED limitVars
       ELSE /\ left' = [left EXCEPT ![r] = <<"script">> \o Tail(@)]
            /\ ReadClock(r, k)
  /\ UNCHANGED <<route, user, last>>

EndLimit(r) ==
  /\ At(r, "script")
  /\ \/ (Allow(r) \/ FailOpen(r)) /\ Proceed(r) /\ UNCHANGED last
     \/ Refuse(r) /\ Finish(r, Error(Writer, 429))
  /\ UNCHANGED <<route, user>>

Handle(r) ==
  /\ At(r, "handle")
  /\ \/ \E v \in Handled(route[r]) : Finish(r, v)
     \/ \E v \in Begun(route[r]) : Finish(r, Recovered(v))
  /\ UNCHANGED <<limitVars, route, user>>

Serve(r) == Arrive(r) \/ Authenticate(r) \/ BeginLimit(r) \/ EndLimit(r) \/ Handle(r)

HttpNext ==
  \/ (Tick \/ \E k \in Keys : Expire(k)) /\ UNCHANGED httpVars
  \/ \E r \in Requests : Serve(r)

HttpSpec == HttpInit /\ [][HttpNext]_<<limitVars, httpVars>>

-----------------------------------------------------------------------------
(* Every request is answered once, whoever of middleware, handler, upgrader *)
(* and recovery wrote: by one header, the one that Logger logs, also after  *)
(* a panic or a second attempt to set it; and no error text is appended to  *)
(* a result.  An upgraded connection gets no header at all.                 *)
OneAnswer ==
  /\ last.heads = IF last.hijacked THEN <<>> ELSE <<last.status>>
  /\ "result" \in {last.body[i] : i \in DOMAIN last.body} => Len(last.body) = 1

(* A handler behind authentication and limit runs only for a user, and only *)
(* after the limiter counted the request of that user or Redis failed.      *)
ServedIfLimited ==
  \A r \in Requests : At(r, "handle") /\ route[r] \in {"protected", "socket"} =>
    user[r] # NoKey /\ key[r] = user[r] /\ verdict[r] \in {"allowed", "failedOpen"}
=============================================================================
