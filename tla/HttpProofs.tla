------------------------------ MODULE HttpProofs ------------------------------
(***************************************************************************)
(* Theorems of Http and RateLimit, for every set of requests, keys and      *)
(* routes, every limit, window and delay of scripts.  Three layers: where a *)
(* request is in the middleware of its route and what was answered last     *)
(* (Staged), what the sorted sets still hold of the requests whose script   *)
(* ran (Remembered), and the two bounds of the limiter.                     *)
(***************************************************************************)
EXTENDS Http, FiniteSetTheorems, FunctionTheorems, SequenceTheorems, TLAPS

(* What Logger can see of an answer: one header that names the status, with *)
(* one of these bodies, or a hijacked connection.                           *)
Bodies == {<<>>, <<"result">>, <<"error">>, <<"error", "error">>}

Answer(code, parts) ==
  [status |-> code, wrote |-> TRUE, heads |-> <<code>>, body |-> parts, hijacked |-> FALSE]

Taken == [status |-> 200, wrote |-> FALSE, heads |-> <<>>, body |-> <<>>, hijacked |-> TRUE]

TakenError == [status |-> 400, wrote |-> TRUE, heads |-> <<>>, body |-> <<>>, hijacked |-> TRUE]

Answers == {Answer(code, parts) : code \in Nat, parts \in Bodies} \cup {Taken, TakenError}

(* What may be in front of a request.                                       *)
Served     == <<>>
Handling   == <<"handle">>
Scripting  == <<"script", "handle">>
Limiting   == <<"limit", "handle">>
Unverified == <<"authenticate", "limit", "handle">>

Stages == {Served, Handling, Scripting, Limiting, Unverified}

(* A request in the middleware of its route; the limiter has looked at it   *)
(* once at most.                                                            *)
OnRoute(r) ==
  /\ left[r] \in Stages
  /\ route[r] \in {"none", "preflight"} => left[r] = Served
  /\ route[r] \in {"health", "unknown"} => left[r] \in {Served, Handling}
  /\ route[r] = "auth" => left[r] # Unverified
  /\ route[r] \in {"protected", "socket"} /\ left[r] \notin {Served, Unverified}
       => user[r] # NoKey
  /\ route[r] \in {"protected", "socket"} /\ left[r] \in {Scripting, Handling}
       => key[r] = user[r]
  /\ route[r] \in {"protected", "socket"} /\ left[r] = Handling
       => verdict[r] \in {"allowed", "failedOpen"}
  /\ route[r] = "none" \/ left[r] \in {Unverified, Limiting, Scripting}
       => verdict[r] = "none" /\ ran[r] = None
  /\ reading[r] # None <=> left[r] = Scripting
  /\ reading[r] # None \/ ran[r] # None \/ verdict[r] # "none" => key[r] \in Keys

Staged == HttpTypeOK /\ (\A r \in Requests : OnRoute(r)) /\ last \in Answers

(* The requests whose script ran have one entry each, in the set of their   *)
(* key, while it is young enough: with the score of their reading, Delay seconds before it at most.*)
Ran == {r \in Requests : ran[r] # None}

EntriesOfRan ==
  /\ IsFiniteSet(Ran) /\ \A k \in Keys : IsFiniteSet(entries[k])
  /\ \A k \in Keys : \A e \in entries[k] :
       e.by \in Ran /\ key[e.by] = k /\ e.score \in ran[e.by] - Delay .. ran[e.by]
  /\ \A k \in Keys : \A d, e \in entries[k] : d.by = e.by => d = e

InTime ==
  /\ \A r \in Requests : ran[r] <= now
  /\ \A r \in Requests : reading[r] # None => reading[r] \in now - Delay .. now

Kept ==
  \A r \in Requests : verdict[r] = "allowed" =>
    /\ ran[r] # None /\ key[r] \in Keys /\ ran[r] + Window <= expires[key[r]]
    /\ ran[r] > now - (Window - Delay) => \E e \in entries[key[r]] : e.by = r

Remembered == EntriesOfRan /\ InTime /\ Kept

-----------------------------------------------------------------------------
(* The response writer.                                                     *)
Parts == {"result", "error"}

Writers == [status : Nat, wrote : BOOLEAN, heads : Seq(Nat), body : Seq(Parts), hijacked : BOOLEAN]

LEMMA SameWriter ==
  ASSUME NEW u \in Writers, NEW v \in Writers,
         u.status = v.status, u.wrote = v.wrote, u.heads = v.heads,
         u.body = v.body, u.hijacked = v.hijacked
  PROVE  u = v
BY DEF Writers

LEMMA TwoInARow ==
  ASSUME NEW S, NEW c \in S, NEW d \in S
  PROVE  /\ Append(<<>>, c) = <<c>> /\ <<c>> \in Seq(S) /\ <<>> \in Seq(S)
         /\ Append(<<c>>, d) = <<c, d>> /\ <<c, d>> \in Seq(S)
<1>1. <<>> \in Seq(S) /\ <<c>> \in Seq(S) /\ <<c, d>> \in Seq(S) /\ Append(<<c>>, d) \in Seq(S)
  OBVIOUS
<1>2. Append(<<>>, c) = <<c>>
  OBVIOUS
<1>3. Len(Append(<<c>>, d)) = 2 /\ Len(<<c, d>>) = 2
  OBVIOUS
<1>4. Append(<<c>>, d)[1] = c /\ Append(<<c>>, d)[2] = d
  OBVIOUS
<1>5. \A i \in 1 .. 2 : Append(<<c>>, d)[i] = <<c, d>>[i]
  BY <1>4
<1> QED
  BY <1>1, <1>2, <1>3, <1>5, SeqEqual

LEMMA BodiesTyped == Bodies \subseteq Seq(Parts)
<1>1. {"error", "result"} \subseteq Parts
  BY DEF Parts
<1> QED
  BY <1>1, TwoInARow DEF Bodies

LEMMA AnswerIsWriter ==
  ASSUME NEW c \in Nat, NEW b \in Seq(Parts)
  PROVE  Answer(c, b) \in Writers
BY TwoInARow DEF Answer, Writers

LEMMA FreshIsWriter == Writer \in Writers
BY TwoInARow DEF Writer, Writers

LEMMA TakenIsWriter == Taken \in Writers /\ TakenError \in Writers
BY TwoInARow DEF Taken, TakenError, Writers

LEMMA StaysWriter ==
  ASSUME NEW v \in Writers, NEW c \in Nat, NEW p \in Parts
  PROVE  WriteHeader(v, c) \in Writers /\ Write(v, p) \in Writers
<1>1. ASSUME NEW u \in Writers, NEW d \in Nat
      PROVE  WriteHeader(u, d) \in Writers
  <2> DEFINE hs == IF u.hijacked THEN u.heads ELSE Append(u.heads, d)
  <2>1. hs \in Seq(Nat)
    <3>1. u.heads \in Seq(Nat)
      BY DEF Writers
    <3> QED
      BY <3>1
  <2>2. WriteHeader(u, d) = IF u.wrote THEN u ELSE [u EXCEPT !.status = d, !.wrote = TRUE, !.heads = hs]
    BY DEF WriteHeader
  <2> HIDE DEF hs
  <2>3. [u EXCEPT !.status = d, !.wrote = TRUE, !.heads = hs] \in Writers
    BY <2>1 DEF Writers
  <2> QED
    BY <2>2, <2>3
<1>2. WriteHeader(v, c) \in Writers
  BY <1>1
<1>3. WriteHeader(v, 200) \in Writers
  BY <1>1
<1> DEFINE head == WriteHeader(v, 200)
           bs == IF v.hijacked THEN head.body ELSE Append(head.body, p)
<1>4. bs \in Seq(Parts)
  <2>1. head.body \in Seq(Parts)
    BY <1>3 DEF Writers
  <2> QED
    BY <2>1
<1>5. Write(v, p) = [head EXCEPT !.body = bs]
  BY DEF Write
<1> HIDE DEF head, bs
<1>6. [head EXCEPT !.body = bs] \in Writers
  <2>1. head \in Writers
    BY <1>3 DEF head
  <2> QED
    BY <1>4, <2>1 DEF Writers
<1> QED
  BY <1>2, <1>5, <1>6

(* The first header is the one that stays, and parts follow it.             *)
LEMMA Headed ==
  ASSUME NEW c \in Nat
  PROVE  WriteHeader(Writer, c) = Answer(c, <<>>)
<1> DEFINE u == WriteHeader(Writer, c)
<1>1. u \in Writers /\ Answer(c, <<>>) \in Writers
  BY FreshIsWriter, StaysWriter, AnswerIsWriter, TwoInARow, "error" \in Parts DEF Parts
<1>2. Append(<<>>, c) = <<c>>
  OBVIOUS
<1>3. /\ u.status = c /\ u.wrote = TRUE /\ u.heads = <<c>>
      /\ u.body = <<>> /\ u.hijacked = FALSE
  BY <1>2 DEF WriteHeader, Writer
<1> QED
  BY <1>1, <1>3, SameWriter DEF Answer

LEMMA HeadStays ==
  ASSUME NEW c \in Nat, NEW d \in Nat, NEW b
  PROVE  WriteHeader(Answer(c, b), d) = Answer(c, b)
BY DEF WriteHeader, Answer

LEMMA PartFollows ==
  ASSUME NEW c \in Nat, NEW b \in Seq(Parts), NEW p \in Parts
  PROVE  Write(Answer(c, b), p) = Answer(c, Append(b, p))
<1> DEFINE u == Answer(c, b)
           v == Answer(c, Append(b, p))
<1>1. WriteHeader(u, 200) = u
  BY HeadStays
<1>2. Append(b, p) \in Seq(Parts)
  OBVIOUS
<1>3. u \in Writers /\ v \in Writers
  BY <1>2, AnswerIsWriter
<1>4. ~u.hijacked /\ u.body = b
  BY DEF Answer
<1>5. Write(u, p) = [u EXCEPT !.body = Append(b, p)]
  BY <1>1, <1>4 DEF Write
<1>6. Write(u, p) \in Writers
  BY <1>3, StaysWriter
<1>7. /\ Write(u, p).status = v.status /\ Write(u, p).wrote = v.wrote
      /\ Write(u, p).heads = v.heads /\ Write(u, p).body = v.body
      /\ Write(u, p).hijacked = v.hijacked
  BY <1>5 DEF Answer
<1> QED
  BY <1>3, <1>6, <1>7, SameWriter

(* A response is written once: a second one adds its part, not its status.  *)
LEMMA Responded ==
  ASSUME NEW c \in Nat, NEW p \in Parts
  PROVE  /\ Respond(Writer, c, p) = Answer(c, <<p>>)
         /\ \A d \in Nat, q \in Parts : Respond(Answer(c, <<p>>), d, q) = Answer(c, <<p, q>>)
<1>1. <<>> \in Seq(Parts) /\ <<p>> \in Seq(Parts) /\ Append(<<>>, p) = <<p>>
  BY TwoInARow
<1>2. \A q \in Parts : Append(<<p>>, q) = <<p, q>>
  BY TwoInARow
<1>3. Respond(Writer, c, p) = Answer(c, <<p>>)
  BY <1>1, Headed, PartFollows DEF Respond
<1>4. \A d \in Nat, q \in Parts : Respond(Answer(c, <<p>>), d, q) = Answer(c, <<p, q>>)
  <2> TAKE d \in Nat, q \in Parts
  <2>1. WriteHeader(Answer(c, <<p>>), d) = Answer(c, <<p>>)
    BY HeadStays
  <2>2. Write(Answer(c, <<p>>), q) = Answer(c, <<p, q>>)
    BY <1>1, <1>2, PartFollows
  <2> QED
    BY <2>1, <2>2 DEF Respond
<1> QED
  BY <1>3, <1>4

LEMMA OneResponse ==
  ASSUME NEW c \in Nat
  PROVE  /\ Error(Writer, c) = Answer(c, <<"error">>)
         /\ Respond(Writer, c, "result") = Answer(c, <<"result">>)
         /\ \A d \in Nat : Error(Error(Writer, c), d) = Answer(c, <<"error", "error">>)
<1>1. "error" \in Parts /\ "result" \in Parts
  BY DEF Parts
<1>2. Error(Writer, c) = Answer(c, <<"error">>)
  BY <1>1, Responded DEF Error
<1>3. Respond(Writer, c, "result") = Answer(c, <<"result">>)
  BY <1>1, Responded
<1>4. \A d \in Nat : Error(Answer(c, <<"error">>), d) = Answer(c, <<"error", "error">>)
  BY <1>1, Responded DEF Error
<1> QED
  BY <1>2, <1>3, <1>4

(* Nothing reaches a hijacked connection.                                   *)
LEMMA NothingAfterHijack ==
  /\ [Writer EXCEPT !.hijacked = TRUE] = Taken
  /\ Error(Taken, 400) = TakenError
<1> DEFINE t == [Writer EXCEPT !.hijacked = TRUE]
           h == WriteHeader(Taken, 400)
           w == Write(TakenError, "error")
<1>1. "error" \in Parts /\ 200 \in Nat /\ 400 \in Nat
  BY DEF Parts
<1>2. t = Taken
  <2>1. t \in Writers
    BY FreshIsWriter DEF Writers
  <2>2. /\ t.status = 200 /\ t.wrote = FALSE /\ t.heads = <<>>
        /\ t.body = <<>> /\ t.hijacked = TRUE
    BY DEF Writer
  <2>3. t.status = Taken.status /\ t.wrote = Taken.wrote /\ t.heads = Taken.heads
        /\ t.body = Taken.body /\ t.hijacked = Taken.hijacked
    BY ZenonT(40), <2>2 DEF Taken
  <2> QED
    BY <2>1, <2>3, TakenIsWriter, SameWriter
<1>3. h = TakenError
  <2>1. h \in Writers
    BY <1>1, TakenIsWriter, StaysWriter
  <2>2. h.status = TakenError.status /\ h.wrote = TakenError.wrote /\ h.heads = TakenError.heads
        /\ h.body = TakenError.body /\ h.hijacked = TakenError.hijacked
    BY DEF WriteHeader, Taken, TakenError
  <2> QED
    BY <2>1, <2>2, TakenIsWriter, SameWriter
<1>4. w = TakenError
  <2>1. WriteHeader(TakenError, 200) = TakenError
    BY DEF WriteHeader, TakenError
  <2>2. w = [TakenError EXCEPT !.body = TakenError.body]
    <3>1. TakenError.hijacked
      BY DEF TakenError
    <3> QED
      BY <2>1, <3>1 DEF Write
  <2>3. \A u \in Writers : [u EXCEPT !.body = u.body] = u
    BY DEF Writers
  <2> QED
    BY <2>2, <2>3, TakenIsWriter
<1> QED
  BY <1>2, <1>3, <1>4 DEF Error, Respond

LEMMA Statuses ==
  ASSUME NEW code \in Codes, NEW failed
  PROVE  StatusCode(code, failed) \in Nat
BY HttpAssumption DEF StatusCode

(* One answer, whoever gives it.                                            *)
LEMMA AnswersOf ==
  ASSUME NEW c \in Nat, NEW b \in Bodies
  PROVE  Answer(c, b) \in Answers
BY DEF Answers

LEMMA ResultAlone ==
  ASSUME NEW c \in Nat
  PROVE  Write(Answer(c, <<>>), "result") = Answer(c, <<"result">>)
<1>1. "result" \in Parts
  BY DEF Parts
<1>2. <<>> \in Seq(Parts) /\ Append(<<>>, "result") = <<"result">>
  BY <1>1, TwoInARow
<1>3. Write(Answer(c, <<>>), "result") = Answer(c, Append(<<>>, "result"))
  BY <1>1, <1>2, PartFollows
<1> QED
  BY <1>2, <1>3

LEMMA HandledAnswers ==
  ASSUME NEW rt \in Routes \ {"preflight"}, NEW v \in Handled(rt)
  PROVE  v \in Answers
<1> USE DEF Bodies
<1>1. CASE rt \in {"auth", "protected"}
  <2>1. v \in Wrapped(Writer)
    BY <1>1 DEF Handled
  <2>2. PICK code \in Codes : \/ v = Error(Writer, StatusCode(code, TRUE))
                              \/ v = Respond(Writer, StatusCode(code, FALSE), "result")
    BY <2>1 DEF Wrapped, Error
  <2> QED
    BY <2>2, Statuses, OneResponse, AnswersOf
<1>2. CASE rt = "socket"
  <2>1. v \in Upgraded(Writer)
    BY <1>2 DEF Handled
  <2> DEFINE hijacked == [Writer EXCEPT !.hijacked = TRUE]
             refused(code) == Error(Error(Writer, code), 400)
  <2>2. v \in {refused(code) : code \in {400, 403, 500}} \cup {hijacked, Error(hijacked, 400)}
    BY <2>1 DEF Upgraded
  <2>3. hijacked = Taken /\ Error(Taken, 400) = TakenError
    BY NothingAfterHijack
  <2> HIDE DEF hijacked, refused
  <2>4. (\E code \in {400, 403, 500} : v = refused(code)) \/ v \in {Taken, TakenError}
    BY <2>2, <2>3
  <2>5. \A code \in {400, 403, 500} : refused(code) \in Answers
    BY OneResponse, AnswersOf DEF refused
  <2> QED
    BY <2>4, <2>5 DEF Answers
<1>3. CASE rt = "health"
  <2>1. v \in {Write(Writer, "result"), Error(Writer, 503)}
    BY <1>3 DEF Handled, Health
  <2>2. Write(Writer, "result") = Write(Answer(200, <<>>), "result")
    <3>1. WriteHeader(Writer, 200) = Answer(200, <<>>)
      BY Headed
    <3>2. WriteHeader(Answer(200, <<>>), 200) = Answer(200, <<>>)
      BY HeadStays
    <3> QED
      BY <3>1, <3>2 DEF Write, Answer, Writer
  <2>3. Write(Answer(200, <<>>), "result") = Answer(200, <<"result">>)
    BY ResultAlone
  <2> QED
    BY <2>1, <2>2, <2>3, OneResponse, AnswersOf
<1>4. CASE rt = "unknown"
  <2>1. v \in {Error(Writer, 404), WriteHeader(Writer, 405)}
    BY <1>4 DEF Handled, NotFound
  <2> QED
    BY <2>1, OneResponse, Headed, AnswersOf
<1> QED
  BY <1>1, <1>2, <1>3, <1>4 DEF Routes

LEMMA RecoveredAnswers ==
  ASSUME NEW rt \in Routes \ {"preflight"}, NEW v \in Begun(rt)
  PROVE  Recovered(v) \in Answers
<1>1. CASE v = Writer
  <2>1. Recovered(v) = Error(Writer, 500)
    BY <1>1 DEF Recovered, Writer
  <2> QED
    BY <2>1, OneResponse, AnswersOf DEF Bodies
<1>2. CASE v \in Handled(rt) /\ ~v.hijacked
  <2>1. v \in Answers
    BY <1>2, HandledAnswers
  <2>2. v.wrote
    BY <1>2, <2>1 DEF Answers, Answer, Taken, TakenError
  <2> QED
    BY <2>1, <2>2 DEF Recovered
<1>3. ASSUME NEW code \in Codes, v = WriteHeader(Writer, StatusCode(code, FALSE))
      PROVE  Recovered(v) \in Answers
  <2>1. v = Answer(StatusCode(code, FALSE), <<>>) /\ StatusCode(code, FALSE) \in Nat
    BY <1>3, Statuses, Headed
  <2>2. v.wrote
    BY <2>1 DEF Answer
  <2> QED
    BY <2>1, <2>2, AnswersOf DEF Recovered, Bodies
<1> QED
  BY <1>1, <1>2, <1>3 DEF Begun

(* The answers are of the writer's type, and each is one answer.            *)
LEMMA AnswerTyped == Answers \subseteq Writers
BY BodiesTyped, AnswerIsWriter, TakenIsWriter DEF Answers

-----------------------------------------------------------------------------
(* The middleware.                                                          *)
LEMMA StageFacts ==
  /\ Head(Handling) = "handle" /\ Head(Scripting) = "script"
  /\ Head(Limiting) = "limit" /\ Head(Unverified) = "authenticate"
  /\ Tail(Scripting) = Handling /\ Tail(Limiting) = Handling /\ Tail(Unverified) = Limiting
  /\ <<"script">> \o Tail(Limiting) = Scripting
  /\ \A s \in Stages \ {Served} : s # <<>>
<1>1. Head(Handling) = "handle" /\ Head(Scripting) = "script"
      /\ Head(Limiting) = "limit" /\ Head(Unverified) = "authenticate"
  BY DEF Handling, Scripting, Limiting, Unverified
<1>2. Tail(Scripting) = Handling /\ Tail(Limiting) = Handling /\ Tail(Unverified) = Limiting
  BY DEF Handling, Scripting, Limiting, Unverified
<1>3. <<"script">> \o Handling = Scripting
  <2> DEFINE S == {"script", "handle"}
             t == <<"script">> \o <<"handle">>
  <2>1. <<"script">> \in Seq(S) /\ <<"handle">> \in Seq(S) /\ <<"script", "handle">> \in Seq(S)
    OBVIOUS
  <2>2. t \in Seq(S) /\ Len(t) = 2 /\ Len(<<"script", "handle">>) = 2
    BY <2>1
  <2>3. t[1] = "script" /\ t[2] = "handle"
    BY <2>1
  <2>4. \A i \in 1 .. 2 : t[i] = <<"script", "handle">>[i]
    BY <2>3
  <2> HIDE DEF t, S
  <2>5. t = <<"script", "handle">>
    BY <2>1, <2>2, <2>4, SeqEqual
  <2> QED
    BY <2>5 DEF t, Handling, Scripting
<1> QED
  BY <1>1, <1>2, <1>3 DEF Stages, Served

LEMMA StagesDiffer ==
  /\ Served # Handling /\ Served # Scripting /\ Served # Limiting /\ Served # Unverified
  /\ Handling # Scripting /\ Handling # Limiting /\ Handling # Unverified
  /\ Scripting # Limiting /\ Scripting # Unverified /\ Limiting # Unverified
<1>1. Served \notin {Handling, Scripting, Limiting, Unverified}
  BY DEF Served, Handling, Scripting, Limiting, Unverified
<1>2. "handle" # "script" /\ "handle" # "limit" /\ "handle" # "authenticate"
      /\ "script" # "limit" /\ "script" # "authenticate" /\ "limit" # "authenticate"
  OBVIOUS
<1> QED
  BY <1>1, <1>2, StageFacts, Zenon

LEMMA StagesTyped == Stages \subseteq Seq({"authenticate", "limit", "script", "handle"})
BY DEF Stages, Served, Handling, Scripting, Limiting, Unverified

(* What a request is at is told by what is in front of it.                  *)
LEMMA AtStage ==
  ASSUME NEW r \in Requests, left[r] \in Stages
  PROVE  /\ At(r, "handle") <=> left[r] = Handling
         /\ At(r, "script") <=> left[r] = Scripting
         /\ At(r, "limit") <=> left[r] = Limiting
         /\ At(r, "authenticate") <=> left[r] = Unverified
BY StageFacts, StagesDiffer DEF At, Stages, Served

LEMMA Chains ==
  ASSUME NEW rt \in Routes \ {"preflight"}
  PROVE  /\ rt \in {"protected", "socket"} => Chain(rt) = Unverified
         /\ rt = "auth" => Chain(rt) = Limiting
         /\ rt \in {"health", "unknown"} => Chain(rt) = Handling
BY DEF Chain, Routes, Handling, Limiting, Unverified

(* What an answer of the limiter changes, pointwise.                        *)
LEMMA AnsweredOnly ==
  ASSUME LimitTypeOK, NEW r \in Requests,
         NEW v \in {"allowed", "refused", "failedOpen"}, Answered(r, v)
  PROVE  /\ verdict' \in [Requests -> {"none", "allowed", "refused", "failedOpen"}]
         /\ reading' \in [Requests -> Times \cup {None}]
         /\ verdict'[r] = v /\ reading'[r] = None
         /\ \A q \in Requests \ {r} : verdict'[q] = verdict[q] /\ reading'[q] = reading[q]
BY DEF LimitTypeOK, Answered

LEMMA ScriptOnly ==
  ASSUME LimitTypeOK, NEW r \in Requests, Script(r), reading[r] # None, key[r] \in Keys
  PROVE  /\ entries' \in [Keys -> SUBSET [by : Requests, score : Times]]
         /\ entries'[key[r]] = Counted(r)
         /\ \A k \in Keys \ {key[r]} : entries'[k] = entries[k] /\ expires'[k] = expires[k]
         /\ expires' \in [Keys -> Window .. Never]
         /\ expires'[key[r]] = IF Exceeded(r) THEN expires[key[r]] ELSE now + Window
         /\ ran' \in [Requests -> Times \cup {None}] /\ ran'[r] = now
         /\ \A q \in Requests \ {r} : ran'[q] = ran[q]
<1>1. Counted(r) \in SUBSET [by : Requests, score : Times]
  <2>1. reading[r] \in Times
    BY DEF LimitTypeOK
  <2>2. [by |-> r, score |-> reading[r]] \in [by : Requests, score : Times]
    BY <2>1
  <2> QED
    BY <2>2 DEF LimitTypeOK, Counted
<1>2. now + Window \in Window .. Never
  BY RateLimitAssumption DEF LimitTypeOK, Times, Never
<1> QED
  BY <1>1, <1>2 DEF LimitTypeOK, Script

(* The call to Redis, by its verdict.                                       *)
Scripted(r, v) ==
  /\ Answered(r, v) /\ now' = now /\ key' = key
  /\ Script(r) \/ (v = "failedOpen" /\ UNCHANGED <<entries, expires, ran>>)
  /\ v = "allowed" => ~Exceeded(r)
  /\ v = "refused" => Exceeded(r)
  /\ IF v = "refused" THEN Finish(r, Error(Writer, 429)) ELSE Proceed(r) /\ UNCHANGED last

LEMMA LimitEnds ==
  ASSUME NEW r \in Requests, EndLimit(r)
  PROVE  \E v \in {"allowed", "refused", "failedOpen"} : Scripted(r, v)
<1>1. CASE Allow(r) /\ Proceed(r) /\ UNCHANGED last
  <2>1. Scripted(r, "allowed")
    BY <1>1 DEF Allow, Scripted
  <2> QED
    BY <2>1
<1>2. CASE FailOpen(r) /\ Proceed(r) /\ UNCHANGED last
  <2>1. Scripted(r, "failedOpen")
    BY <1>2 DEF FailOpen, Scripted
  <2> QED
    BY <2>1
<1>3. CASE Refuse(r) /\ Finish(r, Error(Writer, 429))
  <2>1. Scripted(r, "refused")
    BY <1>3 DEF Refuse, Scripted
  <2> QED
    BY <2>1
<1> QED
  BY <1>1, <1>2, <1>3 DEF EndLimit

LEMMA StagedFromStart == HttpInit => Staged
<1> SUFFICES ASSUME HttpInit PROVE Staged
  OBVIOUS
<1>1. LimitTypeOK
  BY RateLimitAssumption DEF HttpInit, LimitInit, LimitTypeOK, Times, Never
<1>2. last = Answer(204, <<>>) /\ last \in Answers
  <2>1. 204 \in Nat /\ <<>> \in Bodies
    BY DEF Bodies
  <2> QED
    BY <2>1, Headed, AnswersOf DEF HttpInit
<1>3. last \in Writers
  BY <1>2, AnswerTyped
<1>4. left \in [Requests -> Stages]
  BY DEF HttpInit, Stages, Served
<1>5. HttpTypeOK
  BY <1>1, <1>3, <1>4, StagesTyped DEF HttpInit, HttpTypeOK, Writers, Parts
<1>6. \A r \in Requests : OnRoute(r)
  BY <1>4, StagesDiffer DEF HttpInit, LimitInit, OnRoute, Served
<1> QED
  BY <1>2, <1>5, <1>6 DEF Staged

(* The rest of the type follows from the stages and the answer.             *)
LEMMA TypedByStages ==
  ASSUME NEW stages \in [Requests -> Stages], NEW answer \in Answers
  PROVE  /\ stages \in [Requests -> Seq({"authenticate", "limit", "script", "handle"})]
         /\ answer \in [status : Nat, wrote : BOOLEAN, heads : Seq(Nat),
                        body : Seq({"result", "error"}), hijacked : BOOLEAN]
<1>1. answer \in Writers
  BY AnswerTyped
<1>2. stages \in [Requests -> Seq({"authenticate", "limit", "script", "handle"})]
  BY StagesTyped
<1> QED
  BY <1>1, <1>2 DEF Writers, Parts

LEMMA StagesOfAll ==
  ASSUME Staged
  PROVE  left \in [Requests -> Stages]
BY DEF Staged, HttpTypeOK, OnRoute

LEMMA LimitsUnchanged ==
  ASSUME LimitTypeOK, UNCHANGED limitVars
  PROVE  LimitTypeOK'
BY DEF LimitTypeOK, limitVars

LEMMA ArriveStaged ==
  ASSUME Staged, NEW r \in Requests, Arrive(r)
  PROVE  Staged'
<1> USE StagesDiffer
<1>1. PICK rt \in Asks[r] :
        /\ route' = [route EXCEPT ![r] = rt]
        /\ IF rt = "preflight"
           THEN last' = WriteHeader(Writer, 204) /\ UNCHANGED left
           ELSE left' = [left EXCEPT ![r] = Chain(rt)] /\ UNCHANGED last
  BY DEF Arrive
<1>2. rt \in Routes /\ rt # "none"
  BY HttpAssumption DEF Routes
<1>3. /\ LimitTypeOK /\ route \in [Requests -> Routes \cup {"none"}]
      /\ left \in [Requests -> Stages] /\ user \in [Requests -> Users \cup {NoKey}] /\ last \in Answers
      /\ \A q \in Requests : OnRoute(q)
  BY StagesOfAll DEF Staged, HttpTypeOK
<1>4. UNCHANGED <<limitVars, user>> /\ route[r] = "none"
  BY DEF Arrive
<1>5. last' \in Answers
  <2>1. 204 \in Nat /\ <<>> \in Bodies
    BY DEF Bodies
  <2> QED
    BY <1>1, <1>3, <2>1, Headed, AnswersOf
<1>6. IF rt = "preflight" THEN left' = left ELSE left' = [left EXCEPT ![r] = Chain(rt)]
  BY <1>1
<1>7. rt # "preflight" => Chain(rt) \in {Unverified, Limiting, Handling}
  BY <1>2, Chains DEF Routes
<1>8. left' \in [Requests -> Stages]
  BY <1>3, <1>6, <1>7 DEF Stages
<1>9. route' \in [Requests -> Routes \cup {"none"}] /\ route'[r] = rt
  BY <1>1, <1>2, <1>3
<1>10. HttpTypeOK'
  BY <1>3, <1>4, <1>5, <1>8, <1>9, TypedByStages, LimitsUnchanged DEF HttpTypeOK
<1>11. ASSUME NEW q \in Requests, q # r PROVE OnRoute(q)'
  <2>1. OnRoute(q) /\ route'[q] = route[q] /\ left'[q] = left[q]
    BY <1>1, <1>3, <1>6, <1>11
  <2> QED
    BY <1>4, <2>1 DEF OnRoute, limitVars
<1>12. OnRoute(r)'
  <2>1. left[r] = Served /\ verdict[r] = "none" /\ ran[r] = None /\ reading[r] = None
    BY <1>3, <1>4 DEF OnRoute
  <2>2. /\ rt = "preflight" => left'[r] = Served
        /\ rt # "preflight" => left'[r] = Chain(rt)
    BY <1>3, <1>6, <2>1
  <2>3. verdict' = verdict /\ ran' = ran /\ reading' = reading /\ key' = key /\ user' = user
    BY <1>4 DEF limitVars
  <2> QED
    BY <1>2, <1>7, <1>8, <1>9, <2>1, <2>2, <2>3, Chains DEF OnRoute, Routes, Stages
<1> QED
  BY <1>5, <1>10, <1>11, <1>12 DEF Staged

LEMMA AuthenticateStaged ==
  ASSUME Staged, NEW r \in Requests, Authenticate(r)
  PROVE  Staged'
<1> USE StagesDiffer
<1>1. /\ LimitTypeOK /\ route \in [Requests -> Routes \cup {"none"}]
      /\ left \in [Requests -> Stages] /\ user \in [Requests -> Users \cup {NoKey}] /\ last \in Answers
      /\ \A q \in Requests : OnRoute(q)
  BY StagesOfAll DEF Staged, HttpTypeOK
<1>2. left[r] = Unverified
  BY <1>1, AtStage DEF Authenticate
<1>3. \/ /\ \E u \in Users : user' = [user EXCEPT ![r] = u]
         /\ left' = [left EXCEPT ![r] = Limiting] /\ last' = last
      \/ /\ user' = user /\ left' = [left EXCEPT ![r] = Served] /\ last' \in Answers
  <2>1. 400 \in Nat /\ 401 \in Nat /\ <<"error">> \in Bodies
    BY DEF Bodies
  <2>2. \A code \in {400, 401} : Error(Writer, code) \in Answers
    BY <2>1, OneResponse, AnswersOf
  <2> QED
    <3>1. CASE /\ \E u \in Users : user' = [user EXCEPT ![r] = u]
               /\ Proceed(r) /\ UNCHANGED last
      <4>1. Tail(left[r]) = Limiting
        BY <1>2, StageFacts
      <4>2. left' = [left EXCEPT ![r] = Tail(left[r])]
        BY <3>1, Zenon DEF Proceed
      <4> QED
        BY <1>1, <3>1, <4>1, <4>2, Zenon
    <3>2. CASE \E code \in {400, 401} : Finish(r, Error(Writer, code)) /\ UNCHANGED user
      <4>1. PICK code \in {400, 401} : Finish(r, Error(Writer, code)) /\ UNCHANGED user
        BY <3>2
      <4>2. Error(Writer, code) \in Answers
        BY <2>2
      <4> QED
        BY <4>1, <4>2, Zenon DEF Finish, Served
    <3> QED
      BY <3>1, <3>2 DEF Authenticate
<1>4. UNCHANGED <<limitVars, route>>
  BY DEF Authenticate
<1>5. left' \in [Requests -> Stages] /\ user' \in [Requests -> Users \cup {NoKey}] /\ last' \in Answers
  BY <1>1, <1>3 DEF Stages
<1>6. HttpTypeOK'
  BY <1>1, <1>4, <1>5, TypedByStages, LimitsUnchanged DEF HttpTypeOK
<1>7. ASSUME NEW q \in Requests, q # r PROVE OnRoute(q)'
  <2>1. OnRoute(q) /\ user'[q] = user[q] /\ left'[q] = left[q]
    BY <1>1, <1>3, <1>7
  <2> QED
    BY <1>4, <2>1 DEF OnRoute, limitVars
<1>8. OnRoute(r)'
  <2>1. /\ route[r] \in {"protected", "socket"} /\ verdict[r] = "none" /\ ran[r] = None
        /\ reading[r] = None
    BY <1>1, <1>2 DEF OnRoute, Routes
  <2>2. (left'[r] = Limiting /\ user'[r] # NoKey) \/ left'[r] = Served
    BY <1>1, <1>3, RateLimitAssumption, HttpAssumption
  <2>3. verdict' = verdict /\ ran' = ran /\ reading' = reading /\ key' = key /\ route' = route
    BY <1>4 DEF limitVars
  <2> QED
    BY <1>5, <2>1, <2>2, <2>3 DEF OnRoute, Stages
<1> QED
  BY <1>5, <1>6, <1>7, <1>8 DEF Staged

LEMMA BeginLimitStaged ==
  ASSUME Staged, NEW r \in Requests, BeginLimit(r)
  PROVE  Staged'
<1> USE StagesDiffer
<1>1. /\ LimitTypeOK /\ route \in [Requests -> Routes \cup {"none"}]
      /\ left \in [Requests -> Stages] /\ user \in [Requests -> Users \cup {NoKey}] /\ last \in Answers
      /\ \A q \in Requests : OnRoute(q)
  BY StagesOfAll DEF Staged, HttpTypeOK
<1>2. left[r] = Limiting
  BY <1>1, AtStage DEF BeginLimit
<1>3. route[r] \in {"auth", "protected", "socket"} /\ verdict[r] = "none" /\ ran[r] = None
      /\ (route[r] # "auth" => user[r] # NoKey)
  BY <1>1, <1>2 DEF OnRoute, Routes
<1> DEFINE Skips    == /\ left' = [left EXCEPT ![r] = Handling] /\ route[r] = "auth"
                       /\ UNCHANGED limitVars
           Counts(k) == /\ left' = [left EXCEPT ![r] = Scripting] /\ ReadClock(r, k)
                        /\ route[r] # "auth" => k = user[r]
<1>4. Skips \/ \E k \in Keys : Counts(k)
  <2>1. PICK k \in KeysOf(r) :
          IF k = NoKey THEN Proceed(r) /\ UNCHANGED limitVars
          ELSE left' = [left EXCEPT ![r] = <<"script">> \o Tail(@)] /\ ReadClock(r, k)
    BY DEF BeginLimit
  <2>2. /\ k = NoKey => route[r] = "auth"
        /\ k # NoKey => k \in Keys
        /\ route[r] # "auth" => k = user[r]
    BY <1>1, <1>3, HttpAssumption DEF KeysOf
  <2>3. Tail(left[r]) = Handling /\ <<"script">> \o Tail(left[r]) = Scripting
    BY <1>2, StageFacts
  <2> QED
    BY <1>1, <2>1, <2>2, <2>3 DEF Proceed
<1>5. /\ UNCHANGED <<route, user, last>>
      /\ \/ left' = [left EXCEPT ![r] = Handling]
         \/ left' = [left EXCEPT ![r] = Scripting]
      /\ UNCHANGED limitVars \/ \E k \in Keys : ReadClock(r, k)
  <2>1. UNCHANGED <<route, user, last>>
    BY DEF BeginLimit
  <2>2. CASE Skips
    BY <2>1, <2>2
  <2>3. ASSUME NEW k \in Keys, Counts(k)
        PROVE  left' = [left EXCEPT ![r] = Scripting] /\ ReadClock(r, k)
    BY <2>3
  <2> HIDE DEF Skips, Counts
  <2> QED
    BY <1>4, <2>1, <2>2, <2>3, Zenon
<1>6. left' \in [Requests -> Stages] /\ last' \in Answers
  <2>1. Handling \in Stages /\ Scripting \in Stages
    BY DEF Stages
  <2> QED
    BY <1>1, <1>5, <2>1
<1>7. LimitTypeOK'
  <2>1. CASE UNCHANGED limitVars
    BY <1>1, <2>1, LimitsUnchanged
  <2>2. CASE \E k \in Keys : ReadClock(r, k)
    <3>1. PICK k \in Keys : ReadClock(r, k)
      BY <2>2
    <3>2. now \in Times
      BY <1>1 DEF LimitTypeOK
    <3> QED
      BY <1>1, <3>1, <3>2 DEF LimitTypeOK, ReadClock
  <2> QED
    BY <1>5, <2>1, <2>2
<1>8. HttpTypeOK'
  BY <1>1, <1>5, <1>6, <1>7, TypedByStages DEF HttpTypeOK
<1>9. /\ verdict' = verdict /\ ran' = ran
      /\ \A q \in Requests \ {r} : reading'[q] = reading[q] /\ key'[q] = key[q]
  BY <1>1, <1>5 DEF ReadClock, limitVars, LimitTypeOK
<1>10. ASSUME NEW q \in Requests, q # r PROVE OnRoute(q)'
  <2>1. OnRoute(q) /\ reading'[q] = reading[q] /\ key'[q] = key[q] /\ left'[q] = left[q]
    <3>1. left'[q] = left[q]
      BY <1>1, <1>5, <1>10
    <3>2. reading'[q] = reading[q] /\ key'[q] = key[q]
      BY <1>9, <1>10
    <3> QED
      BY <1>1, <3>1, <3>2
  <2> QED
    BY <1>5, <1>9, <2>1 DEF OnRoute
<1>11. OnRoute(r)'
  <2>1. CASE Skips
    <3>1. /\ left'[r] = Handling /\ reading'[r] = None /\ route'[r] = "auth"
          /\ verdict'[r] = "none" /\ ran'[r] = None
      BY <1>1, <1>2, <1>3, <1>5, <2>1 DEF OnRoute, limitVars
    <3>2. Handling \in Stages /\ Handling # Scripting /\ Handling # Served /\ Handling # Unverified
      BY StagesDiffer DEF Stages
    <3> HIDE DEF Skips
    <3> QED
      BY <3>1, <3>2 DEF OnRoute
  <2>2. ASSUME NEW k \in Keys, Counts(k)
        PROVE  OnRoute(r)'
    <3>1. left'[r] = Scripting /\ reading'[r] # None /\ key'[r] = k
      BY <1>1, <2>2, RateLimitAssumption DEF ReadClock, LimitTypeOK, None, Times
    <3> QED
      BY <1>3, <1>5, <1>6, <1>9, <2>2, <3>1 DEF OnRoute, Stages
  <2> HIDE DEF Skips, Counts
  <2> QED
    BY Zenon, <1>4, <2>1, <2>2
<1> QED
  BY <1>6, <1>8, <1>10, <1>11 DEF Staged

LEMMA EndLimitStaged ==
  ASSUME Staged, NEW r \in Requests, EndLimit(r)
  PROVE  Staged'
<1> USE StagesDiffer
<1>1. /\ LimitTypeOK /\ route \in [Requests -> Routes \cup {"none"}]
      /\ left \in [Requests -> Stages] /\ user \in [Requests -> Users \cup {NoKey}] /\ last \in Answers
      /\ \A q \in Requests : OnRoute(q)
  BY StagesOfAll DEF Staged, HttpTypeOK
<1>2. left[r] = Scripting
  BY <1>1, AtStage DEF EndLimit
<1>3. /\ route[r] \in {"auth", "protected", "socket"} /\ reading[r] # None /\ key[r] \in Keys
      /\ route[r] # "auth" => user[r] # NoKey /\ key[r] = user[r]
  BY <1>1, <1>2 DEF OnRoute, Routes
<1>4. PICK v \in {"allowed", "refused", "failedOpen"} : Scripted(r, v)
  BY LimitEnds
<1>5. /\ verdict' \in [Requests -> {"none", "allowed", "refused", "failedOpen"}]
      /\ reading' \in [Requests -> Times \cup {None}]
      /\ verdict'[r] = v /\ reading'[r] = None
      /\ \A q \in Requests \ {r} : verdict'[q] = verdict[q] /\ reading'[q] = reading[q]
  BY <1>1, <1>4, AnsweredOnly DEF Scripted
<1>6. /\ entries' \in [Keys -> SUBSET [by : Requests, score : Times]]
      /\ expires' \in [Keys -> Window .. Never] /\ key' = key
      /\ ran' \in [Requests -> Times \cup {None}]
      /\ \A q \in Requests \ {r} : ran'[q] = ran[q]
  <2>1. CASE Script(r)
    BY <1>1, <1>3, <1>4, <2>1, ScriptOnly DEF Scripted
  <2>2. CASE UNCHANGED <<entries, expires, ran>>
    BY <1>1, <1>4, <2>2 DEF LimitTypeOK, Scripted
  <2> QED
    BY <1>4, <2>1, <2>2 DEF Scripted
<1>7. LimitTypeOK'
  BY <1>1, <1>4, <1>5, <1>6 DEF LimitTypeOK, Scripted
<1>8. UNCHANGED <<route, user>>
  BY DEF EndLimit
<1>9. /\ left' = [left EXCEPT ![r] = IF v = "refused" THEN Served ELSE Handling]
      /\ last' \in Answers
  <2>1. 429 \in Nat /\ <<"error">> \in Bodies
    BY DEF Bodies
  <2>2. Error(Writer, 429) \in Answers
    BY <2>1, OneResponse, AnswersOf
  <2>3. Tail(left[r]) = Handling
    BY <1>2, StageFacts
  <2> QED
    BY <1>1, <1>4, <2>2, <2>3 DEF Scripted, Finish, Proceed, Served
<1>10. left' \in [Requests -> Stages]
  BY <1>1, <1>9 DEF Stages
<1>11. HttpTypeOK'
  BY <1>1, <1>7, <1>8, <1>9, <1>10, TypedByStages DEF HttpTypeOK
<1>12. ASSUME NEW q \in Requests, q # r PROVE OnRoute(q)'
  <2>1. /\ OnRoute(q) /\ reading'[q] = reading[q] /\ left'[q] = left[q]
        /\ verdict'[q] = verdict[q] /\ ran'[q] = ran[q] /\ key'[q] = key[q]
    BY <1>1, <1>5, <1>6, <1>9, <1>12
  <2> QED
    BY <1>8, <2>1 DEF OnRoute
<1>13. OnRoute(r)'
  <2>1. left'[r] = IF v = "refused" THEN Served ELSE Handling
    BY <1>1, <1>9
  <2> QED
    BY <1>3, <1>4, <1>5, <1>6, <1>8, <1>10, <2>1 DEF OnRoute, Stages
<1> QED
  BY <1>9, <1>11, <1>12, <1>13 DEF Staged

LEMMA HandleStaged ==
  ASSUME Staged, NEW r \in Requests, Handle(r)
  PROVE  Staged'
<1> USE StagesDiffer
<1>1. /\ LimitTypeOK /\ route \in [Requests -> Routes \cup {"none"}]
      /\ left \in [Requests -> Stages] /\ user \in [Requests -> Users \cup {NoKey}] /\ last \in Answers
      /\ \A q \in Requests : OnRoute(q)
  BY StagesOfAll DEF Staged, HttpTypeOK
<1>2. left[r] = Handling
  BY <1>1, AtStage DEF Handle
<1>3. route[r] \in Routes \ {"preflight"} /\ reading[r] = None
  BY <1>1, <1>2 DEF OnRoute
<1>4. left' = [left EXCEPT ![r] = Served] /\ last' \in Answers
  BY <1>3, HandledAnswers, RecoveredAnswers DEF Handle, Finish, Served
<1>5. UNCHANGED <<limitVars, route, user>>
  BY DEF Handle
<1>6. left' \in [Requests -> Stages]
  BY <1>1, <1>4 DEF Stages
<1>7. HttpTypeOK'
  BY <1>1, <1>4, <1>5, <1>6, TypedByStages, LimitsUnchanged DEF HttpTypeOK
<1>8. ASSUME NEW q \in Requests PROVE OnRoute(q)'
  <2>1. OnRoute(q) /\ (q # r => left'[q] = left[q]) /\ (q = r => left'[q] = Served)
    BY <1>1, <1>4
  <2>2. verdict' = verdict /\ ran' = ran /\ reading' = reading /\ key' = key /\ route' = route /\ user' = user
    BY <1>5 DEF limitVars
  <2> QED
    BY <1>2, <1>3, <2>1, <2>2 DEF OnRoute, Stages
<1> QED
  BY <1>4, <1>7, <1>8 DEF Staged

LEMMA Spans ==
  /\ \A k \in Keys : Limit[k] \in Nat
  /\ Window \in Nat /\ Delay \in Nat /\ MaxTime \in Nat
  /\ Delay < Window /\ None = -1 /\ Never = MaxTime + Window + 1
  /\ \A t \in Times : t \in Nat /\ t <= MaxTime /\ t # None
BY RateLimitAssumption DEF None, Never, Times

LEMMA TimeStaged ==
  ASSUME Staged, Tick \/ (\E k \in Keys : Expire(k)), UNCHANGED httpVars
  PROVE  Staged'
<1>1. verdict' = verdict /\ ran' = ran /\ reading' = reading /\ key' = key
  BY DEF Tick, Expire
<1>2. route' = route /\ left' = left /\ user' = user /\ last' = last
  BY DEF httpVars
<1>3. LimitTypeOK'
  <2>1. LimitTypeOK
    BY DEF Staged, HttpTypeOK
  <2>2. CASE Tick
    BY <2>1, <2>2, RateLimitAssumption DEF Tick, LimitTypeOK, Times
  <2>3. CASE \E k \in Keys : Expire(k)
    <3>1. Never \in Window .. Never
      BY Spans
    <3> QED
      BY <2>1, <2>3, <3>1 DEF Expire, LimitTypeOK
  <2> QED
    BY <2>2, <2>3
<1> QED
  BY <1>1, <1>2, <1>3 DEF Staged, HttpTypeOK, OnRoute

LEMMA StagedStays == Staged /\ [HttpNext]_<<limitVars, httpVars>> => Staged'
<1> SUFFICES ASSUME Staged, [HttpNext]_<<limitVars, httpVars>> PROVE Staged'
  OBVIOUS
<1>1. CASE UNCHANGED <<limitVars, httpVars>>
  BY <1>1 DEF limitVars, httpVars, Staged, HttpTypeOK, LimitTypeOK, OnRoute
<1>2. CASE (Tick \/ \E k \in Keys : Expire(k)) /\ UNCHANGED httpVars
  BY <1>2, TimeStaged
<1>3. ASSUME NEW r \in Requests, Serve(r) PROVE Staged'
  BY <1>3, ArriveStaged, AuthenticateStaged, BeginLimitStaged, EndLimitStaged, HandleStaged DEF Serve
<1> QED
  BY <1>1, <1>2, <1>3 DEF HttpNext

LEMMA AlwaysStaged == HttpSpec => []Staged
BY StagedFromStart, StagedStays, PTL DEF HttpSpec

-----------------------------------------------------------------------------
(* The sorted set.                                                          *)
LEMMA RememberedFromStart == HttpInit => Remembered
<1> SUFFICES ASSUME HttpInit PROVE Remembered
  OBVIOUS
<1>1. Ran = {} /\ \A k \in Keys : entries[k] = {}
  BY DEF HttpInit, LimitInit, Ran
<1>2. EntriesOfRan
  BY <1>1, FS_EmptySet DEF EntriesOfRan
<1>3. InTime /\ Kept
  BY Spans DEF HttpInit, LimitInit, InTime, Kept
<1> QED
  BY <1>2, <1>3 DEF Remembered

LEMMA SetUntouched ==
  ASSUME Remembered, UNCHANGED limitVars
  PROVE  Remembered'
BY DEF Remembered, EntriesOfRan, InTime, Kept, Ran, limitVars

LEMMA TimeRemembers ==
  ASSUME LimitTypeOK, Remembered, Tick \/ \E k \in Keys : Expire(k)
  PROVE  Remembered'
<1>1. /\ now \in Nat /\ \A k \in Keys : expires[k] \in Nat
      /\ \A r \in Requests : ran[r] \in Times \cup {None} /\ reading[r] \in Times \cup {None}
  BY Spans DEF LimitTypeOK, Times
<1>2. CASE Tick
  <2>1. now' = now + 1 /\ UNCHANGED <<key, reading, entries, expires, verdict, ran>>
    BY <1>2 DEF Tick
  <2>2. EntriesOfRan'
    BY <2>1 DEF Remembered, EntriesOfRan, Ran
  <2>3. InTime'
    <3>1. ASSUME NEW r \in Requests PROVE ran'[r] <= now'
      BY <1>1, <2>1, Spans DEF Remembered, InTime
    <3>2. ASSUME NEW r \in Requests, reading'[r] # None PROVE reading'[r] \in now' - Delay .. now'
      <4>1. reading[r] \in now - Delay .. now /\ now - reading[r] < Delay
        BY <1>2, <2>1, <3>2 DEF Remembered, InTime, Tick, Awaiting
      <4> QED
        BY <1>1, <2>1, <3>2, <4>1, Spans
    <3> QED
      BY <3>1, <3>2 DEF InTime
  <2>4. Kept'
    <3> SUFFICES ASSUME NEW r \in Requests, verdict'[r] = "allowed"
                 PROVE  /\ ran'[r] # None /\ key'[r] \in Keys
                        /\ ran'[r] + Window <= expires'[key'[r]]
                        /\ ran'[r] > now' - (Window - Delay) => \E e \in entries'[key'[r]] : e.by = r
      BY DEF Kept
    <3>1. /\ ran[r] # None /\ key[r] \in Keys /\ ran[r] + Window <= expires[key[r]]
          /\ ran[r] > now - (Window - Delay) => \E e \in entries[key[r]] : e.by = r
      BY <2>1 DEF Remembered, Kept
    <3>2. ran[r] \in Int /\ (ran'[r] > now' - (Window - Delay) => ran[r] > now - (Window - Delay))
      BY <1>1, <2>1, Spans
    <3> QED
      BY <2>1, <3>1, <3>2
  <2> QED
    BY <2>2, <2>3, <2>4 DEF Remembered
<1>3. ASSUME NEW k \in Keys, Expire(k)
      PROVE  Remembered'
  <2>1. /\ now = expires[k] /\ UNCHANGED <<now, key, reading, verdict, ran>>
        /\ entries'[k] = {} /\ expires'[k] = Never
        /\ \A l \in Keys \ {k} : entries'[l] = entries[l] /\ expires'[l] = expires[l]
    BY <1>3 DEF Expire, LimitTypeOK
  <2>2. EntriesOfRan'
    <3>1. Ran' = Ran
      BY <2>1 DEF Ran
    <3>2. \A l \in Keys : entries'[l] = entries[l] \/ entries'[l] = {}
      BY <2>1
    <3> QED
      BY <2>1, <3>1, <3>2, FS_EmptySet DEF Remembered, EntriesOfRan
  <2>3. InTime'
    BY <2>1 DEF Remembered, InTime
  <2>4. Kept'
    <3> SUFFICES ASSUME NEW r \in Requests, verdict[r] = "allowed"
                 PROVE  /\ ran[r] # None /\ key[r] \in Keys
                        /\ ran[r] + Window <= expires'[key[r]]
                        /\ ran[r] > now - (Window - Delay) => \E e \in entries'[key[r]] : e.by = r
      BY <2>1 DEF Kept
    <3>1. /\ ran[r] # None /\ key[r] \in Keys /\ ran[r] + Window <= expires[key[r]]
          /\ ran[r] > now - (Window - Delay) => \E e \in entries[key[r]] : e.by = r
      BY DEF Remembered, Kept
    <3>2. ran[r] \in Nat /\ ran[r] <= MaxTime
      BY <1>1, <3>1, Spans
    <3>3. CASE key[r] = k
      <4>1. ran[r] + Window <= Never /\ ~(ran[r] > now - (Window - Delay))
        BY <1>1, <2>1, <3>1, <3>2, <3>3, Spans
      <4> QED
        BY <2>1, <3>1, <3>3, <4>1
    <3>4. CASE key[r] # k
      BY <2>1, <3>1, <3>4
    <3> QED
      BY <3>3, <3>4
  <2> QED
    BY <2>2, <2>3, <2>4 DEF Remembered
<1> QED
  BY <1>2, <1>3

LEMMA ReadClockRemembers ==
  ASSUME LimitTypeOK, Remembered, NEW r \in Requests, NEW k \in Keys, ReadClock(r, k),
         ran[r] = None, verdict[r] = "none"
  PROVE  Remembered'
<1>1. /\ UNCHANGED <<now, entries, expires, verdict, ran>>
      /\ \A q \in Requests \ {r} : key'[q] = key[q]
  BY DEF ReadClock, LimitTypeOK
<1>2. EntriesOfRan'
  <2>1. Ran' = Ran /\ r \notin Ran /\ \A q \in Ran : key'[q] = key[q]
    BY <1>1 DEF Ran
  <2> QED
    BY <1>1, <2>1 DEF Remembered, EntriesOfRan
<1>3. Kept'
  <2>1. \A q \in Requests : verdict'[q] = "allowed" => q # r
    BY <1>1
  <2> QED
    BY <1>1, <2>1 DEF Remembered, Kept
<1>4. InTime'
  <2>1. now \in Nat /\ now \in now - Delay .. now
    BY Spans DEF LimitTypeOK, Times
  <2>2. \A q \in Requests : reading'[q] = IF q = r THEN now ELSE reading[q]
    BY DEF ReadClock, LimitTypeOK
  <2> QED
    BY <1>1, <2>1, <2>2 DEF Remembered, InTime
<1> QED
  BY <1>2, <1>3, <1>4 DEF Remembered

(* The script of a request leaves the entries that its reading does not     *)
(* find too old, and adds its own.                                          *)
LEMMA CountedEntries ==
  ASSUME LimitTypeOK, Remembered, NEW r \in Requests, reading[r] # None, ran[r] = None,
         key[r] \in Keys
  PROVE  LET own == [by |-> r, score |-> reading[r]]
         IN  /\ own \in Counted(r) /\ own.by = r
             /\ IsFiniteSet(Counted(r))
             /\ \A e \in Counted(r) : e = own \/ (e \in entries[key[r]] /\ e.by # r)
             /\ \A e \in Counted(r) : e.score > now - Delay - Window
             /\ \A e \in entries[key[r]] : e.score > now - Window => e \in Counted(r)
<1> DEFINE own == [by |-> r, score |-> reading[r]]
<1>1. /\ now \in Nat /\ reading[r] \in Nat /\ reading[r] \in now - Delay .. now
  BY Spans DEF LimitTypeOK, Times, Remembered, InTime
<1>2. own.by = r /\ own.score = reading[r]
  OBVIOUS
<1>3. \A e \in entries[key[r]] : e.score \in Nat /\ e.by # r
  BY DEF LimitTypeOK, Times, Remembered, EntriesOfRan, Ran
<1> HIDE DEF own
<1>4. Counted(r) = {e \in entries[key[r]] \cup {own} : e.score > reading[r] - Window}
  BY DEF Counted, own
<1>5. own \in Counted(r)
  BY <1>1, <1>2, <1>4, Spans, RateLimitAssumption
<1>6. IsFiniteSet(Counted(r))
  <2>1. IsFiniteSet(entries[key[r]] \cup {own})
    BY FS_AddElement DEF Remembered, EntriesOfRan
  <2>2. Counted(r) \in SUBSET (entries[key[r]] \cup {own})
    BY <1>4
  <2> QED
    BY <2>1, <2>2, FS_Subset
<1>7. \A e \in Counted(r) : e = own \/ (e \in entries[key[r]] /\ e.by # r)
  BY <1>3, <1>4
<1>8. \A e \in Counted(r) : e.score > now - Delay - Window
  BY <1>1, <1>2, <1>3, <1>4, Spans
<1>9. \A e \in entries[key[r]] : e.score > now - Window => e \in Counted(r)
  BY <1>1, <1>3, <1>4, Spans
<1> QED
  BY <1>2, <1>5, <1>6, <1>7, <1>8, <1>9 DEF own

LEMMA ScriptRemembers ==
  ASSUME Staged, Remembered, NEW r \in Requests, EndLimit(r)
  PROVE  Remembered'
<1>1. LimitTypeOK /\ left[r] = Scripting /\ reading[r] # None /\ ran[r] = None
      /\ key[r] \in Keys
  BY AtStage DEF EndLimit, Staged, OnRoute, HttpTypeOK
<1>2. PICK v \in {"allowed", "refused", "failedOpen"} : Scripted(r, v)
  BY LimitEnds
<1>3. /\ verdict'[r] = v /\ reading'[r] = None /\ now' = now /\ key' = key
      /\ \A q \in Requests \ {r} : verdict'[q] = verdict[q] /\ reading'[q] = reading[q]
  BY <1>1, <1>2, AnsweredOnly DEF Scripted
<1>4. /\ now \in Nat /\ \A k \in Keys : expires[k] \in Nat
      /\ \A q \in Requests : ran[q] \in Times \cup {None} /\ reading[q] \in Times \cup {None}
      /\ \A k \in Keys : \A e \in entries[k] : e.by \in Requests /\ e.score \in Nat
  BY <1>1, Spans DEF LimitTypeOK, Times
<1>5. CASE UNCHANGED <<entries, expires, ran>> /\ v = "failedOpen"
  <2>1. EntriesOfRan'
    BY <1>3, <1>5 DEF Remembered, EntriesOfRan, Ran
  <2>2. InTime'
    BY <1>3, <1>5 DEF Remembered, InTime
  <2>3. Kept'
    <3>1. ASSUME NEW q \in Requests, verdict'[q] = "allowed" PROVE verdict[q] = "allowed"
      BY <1>3, <1>5, <3>1
    <3> QED
      BY <1>3, <1>5, <3>1 DEF Remembered, Kept
  <2> QED
    BY <2>1, <2>2, <2>3 DEF Remembered
<1>6. CASE Script(r)
  <2> DEFINE own == [by |-> r, score |-> reading[r]]
  <2>1. /\ entries'[key[r]] = Counted(r) /\ ran'[r] = now
        /\ \A k \in Keys \ {key[r]} : entries'[k] = entries[k] /\ expires'[k] = expires[k]
        /\ \A q \in Requests \ {r} : ran'[q] = ran[q]
    BY <1>1, <1>6, ScriptOnly
  <2>2. /\ own \in Counted(r) /\ own.by = r /\ own.score = reading[r]
        /\ IsFiniteSet(Counted(r))
        /\ \A e \in Counted(r) : e = own \/ (e \in entries[key[r]] /\ e.by # r)
        /\ \A e \in entries[key[r]] : e.score > now - Window => e \in Counted(r)
    BY <1>1, CountedEntries
  <2> HIDE DEF own
  <2>3. EntriesOfRan'
    <3>1. Ran' = Ran \cup {r} /\ IsFiniteSet(Ran')
      <4>1. Ran' = Ran \cup {r}
        BY <1>4, <2>1, Spans DEF Ran
      <4> QED
        BY <4>1, FS_AddElement DEF Remembered, EntriesOfRan
    <3>2. ASSUME NEW k \in Keys, NEW e \in entries'[k]
          PROVE  e.by \in Ran' /\ key'[e.by] = k /\ e.score \in ran'[e.by] - Delay .. ran'[e.by]
      <4>1. CASE k = key[r] /\ e = own
        <5>1. reading[r] \in now - Delay .. now
          BY <1>1 DEF Remembered, InTime
        <5> QED
          BY <1>3, <2>1, <2>2, <3>1, <4>1, <5>1
      <4>2. CASE e \in entries[k] /\ e.by # r
        <5>1. /\ e.by \in Ran /\ key[e.by] = k /\ e.by \in Requests
              /\ e.score \in ran[e.by] - Delay .. ran[e.by]
          BY <4>2 DEF Remembered, EntriesOfRan, Ran
        <5> QED
          BY <1>3, <2>1, <3>1, <4>2, <5>1
      <4>3. k # key[r] => e \in entries[k] /\ e.by # r
        BY <1>1, <2>1 DEF Remembered, EntriesOfRan, Ran
      <4> QED
        BY <2>1, <2>2, <4>1, <4>2, <4>3
    <3>3. ASSUME NEW k \in Keys, NEW d \in entries'[k], NEW e \in entries'[k], d.by = e.by
          PROVE  d = e
      BY <2>1, <2>2, <3>3 DEF Remembered, EntriesOfRan
    <3>4. ASSUME NEW k \in Keys PROVE IsFiniteSet(entries'[k])
      BY <2>1, <2>2 DEF Remembered, EntriesOfRan
    <3> QED
      BY <3>1, <3>2, <3>3, <3>4 DEF EntriesOfRan
  <2>4. InTime'
    BY <1>3, <1>4, <2>1 DEF Remembered, InTime
  <2>5. Kept'
    <3> SUFFICES ASSUME NEW q \in Requests, verdict'[q] = "allowed"
                 PROVE  /\ ran'[q] # None /\ key[q] \in Keys
                        /\ ran'[q] + Window <= expires'[key[q]]
                        /\ ran'[q] > now - (Window - Delay) => \E e \in entries'[key[q]] : e.by = q
      BY <1>3 DEF Kept
    <3>1. CASE q = r
      <4>1. expires'[key[r]] = now + Window
        BY <1>1, <1>2, <1>3, <1>6, <3>1, ScriptOnly DEF Scripted
      <4> QED
        BY <1>1, <1>4, <2>1, <2>2, <3>1, <4>1, Spans
    <3>2. CASE q # r
      <4>1. /\ ran[q] # None /\ key[q] \in Keys /\ ran[q] + Window <= expires[key[q]]
            /\ ran[q] <= now /\ ran'[q] = ran[q]
            /\ ran[q] > now - (Window - Delay) => \E e \in entries[key[q]] : e.by = q
        BY <1>3, <2>1, <3>2 DEF Remembered, Kept, InTime
      <4>2. ran[q] \in Nat
        BY <1>4, <4>1, Spans
      <4>3. expires'[key[q]] = expires[key[q]] \/ expires'[key[q]] = now + Window
        BY <1>1, <1>6, <4>1, ScriptOnly
      <4>4. ran[q] + Window <= expires'[key[q]]
        BY <1>4, <4>1, <4>2, <4>3, Spans
      <4>5. ASSUME ran[q] > now - (Window - Delay) PROVE \E e \in entries'[key[q]] : e.by = q
        <5>1. PICK e \in entries[key[q]] : e.by = q
          BY <4>1, <4>5
        <5>2. e.score \in ran[q] - Delay .. ran[q] /\ e.score \in Nat
          BY <1>4, <4>1, <5>1 DEF Remembered, EntriesOfRan
        <5>3. e.score > now - Window
          BY <1>4, <4>2, <4>5, <5>2, Spans
        <5>4. e \in entries'[key[q]]
          BY <2>1, <2>2, <4>1, <5>1, <5>3
        <5> QED
          BY <5>1, <5>4
      <4> QED
        BY <4>1, <4>4, <4>5
    <3> QED
      BY <3>1, <3>2
  <2> QED
    BY <2>3, <2>4, <2>5 DEF Remembered
<1> QED
  BY <1>2, <1>5, <1>6 DEF Scripted

LEMMA RememberedStays == Staged /\ Remembered /\ [HttpNext]_<<limitVars, httpVars>> => Remembered'
<1> SUFFICES ASSUME Staged, Remembered, [HttpNext]_<<limitVars, httpVars>> PROVE Remembered'
  OBVIOUS
<1>1. LimitTypeOK
  BY DEF Staged, HttpTypeOK
<1>2. CASE UNCHANGED <<limitVars, httpVars>>
  BY <1>2, SetUntouched
<1>3. CASE (Tick \/ \E k \in Keys : Expire(k)) /\ UNCHANGED httpVars
  BY <1>1, <1>3, TimeRemembers
<1>4. ASSUME NEW r \in Requests, Serve(r) PROVE Remembered'
  <2>1. CASE Arrive(r) \/ Authenticate(r) \/ Handle(r)
    BY <2>1, SetUntouched DEF Arrive, Authenticate, Handle
  <2>2. CASE BeginLimit(r)
    <3>1. ran[r] = None /\ verdict[r] = "none"
      BY <2>2, AtStage DEF BeginLimit, Staged, OnRoute, HttpTypeOK
    <3>2. UNCHANGED limitVars \/ \E k \in Keys : ReadClock(r, k)
      <4>1. NoKey \notin Keys /\ KeysOf(r) \subseteq Keys \cup {NoKey}
        BY RateLimitAssumption, HttpAssumption DEF KeysOf, Staged, HttpTypeOK
      <4> QED
        BY <2>2, <4>1 DEF BeginLimit
    <3> QED
      BY <1>1, <3>1, <3>2, SetUntouched, ReadClockRemembers
  <2>3. CASE EndLimit(r)
    BY <2>3, ScriptRemembers
  <2> QED
    BY <1>4, <2>1, <2>2, <2>3 DEF Serve
<1> QED
  BY <1>2, <1>3, <1>4 DEF HttpNext

LEMMA AlwaysRemembered == HttpSpec => [](Staged /\ Remembered)
<1>1. HttpInit => Staged /\ Remembered
  BY StagedFromStart, RememberedFromStart
<1>2. (Staged /\ Remembered) /\ [HttpNext]_<<limitVars, httpVars>> => (Staged /\ Remembered)'
  BY StagedStays, RememberedStays
<1> QED
  BY <1>1, <1>2, PTL DEF HttpSpec

-----------------------------------------------------------------------------
(* The two bounds.                                                          *)
AllowedIn(k, t) == {r \in Between(k, t - (Window - Delay) + 1, t) : verdict[r] = "allowed"}

Causes(r) == Between(key[r], ran[r] - Delay - Window + 1, ran[r]) \ {r}

(* What a step of anything but the limiter's script leaves alone.           *)
LEMMA OnlyTheScript ==
  ASSUME Staged, [HttpNext]_<<limitVars, httpVars>>
  PROVE  \/ /\ UNCHANGED <<ran, verdict>>
            /\ \A q \in Requests : ran[q] # None \/ verdict[q] # "none" => key'[q] = key[q]
         \/ \E r \in Requests : EndLimit(r)
<1> DEFINE Idle == /\ UNCHANGED <<ran, verdict>>
                   /\ \A q \in Requests : ran[q] # None \/ verdict[q] # "none" => key'[q] = key[q]
<1>1. CASE UNCHANGED <<limitVars, httpVars>>
  BY <1>1 DEF limitVars
<1>2. CASE (Tick \/ \E k \in Keys : Expire(k)) /\ UNCHANGED httpVars
  BY <1>2 DEF Tick, Expire
<1>3. ASSUME NEW r \in Requests, Serve(r)
      PROVE  Idle \/ EndLimit(r)
  <2>1. CASE Arrive(r) \/ Authenticate(r) \/ Handle(r)
    BY <2>1 DEF Arrive, Authenticate, Handle, limitVars
  <2>2. CASE BeginLimit(r)
    <3>1. ran[r] = None /\ verdict[r] = "none" /\ LimitTypeOK
      BY <2>2, AtStage DEF BeginLimit, Staged, OnRoute, HttpTypeOK
    <3>2. UNCHANGED limitVars \/ \E k \in KeysOf(r) : ReadClock(r, k)
      BY <2>2 DEF BeginLimit
    <3> QED
      BY <3>1, <3>2 DEF ReadClock, limitVars, LimitTypeOK
  <2> QED
    BY <1>3, <2>1, <2>2 DEF Serve
<1> QED
  BY <1>1, <1>2, <1>3 DEF HttpNext

(* The verdict of a script, with what it was given for.                     *)
LEMMA ScriptVerdict ==
  ASSUME Staged, Remembered, NEW r \in Requests, EndLimit(r)
  PROVE  /\ LimitTypeOK /\ reading[r] # None /\ ran[r] = None /\ verdict[r] = "none"
         /\ key[r] \in Keys /\ key' = key /\ now' = now /\ ran'[r] \in {now, None}
         /\ \A q \in Requests \ {r} : verdict'[q] = verdict[q] /\ ran'[q] = ran[q]
         /\ verdict'[r] = "allowed" =>
              ran'[r] = now /\ entries'[key[r]] = Counted(r) /\ Cardinality(Counted(r)) <= Limit[key[r]]
         /\ verdict'[r] = "refused" =>
              ran'[r] = now /\ entries'[key[r]] = Counted(r) /\ Cardinality(Counted(r)) > Limit[key[r]]
<1>1. LimitTypeOK /\ left[r] = Scripting /\ reading[r] # None /\ ran[r] = None /\ verdict[r] = "none"
      /\ key[r] \in Keys
  BY AtStage DEF EndLimit, Staged, OnRoute, HttpTypeOK
<1>2. PICK v \in {"allowed", "refused", "failedOpen"} : Scripted(r, v)
  BY LimitEnds
<1>3. /\ verdict'[r] = v /\ now' = now /\ key' = key
      /\ \A q \in Requests \ {r} : verdict'[q] = verdict[q]
  BY <1>1, <1>2, AnsweredOnly DEF Scripted
<1>4. Cardinality(Counted(r)) \in Nat
  BY <1>1, CountedEntries, FS_CardinalityType
<1>5. Script(r) => /\ entries'[key[r]] = Counted(r) /\ ran'[r] = now
                   /\ \A q \in Requests \ {r} : ran'[q] = ran[q]
  BY <1>1, ScriptOnly
<1>6. Cardinality(Counted(r)) <= Limit[key[r]] \/ Exceeded(r)
  BY <1>1, <1>4, Spans DEF Exceeded
<1>7. Exceeded(r) => Cardinality(Counted(r)) > Limit[key[r]]
  BY DEF Exceeded
<1>8. Script(r) \/ (v = "failedOpen" /\ ran' = ran)
  BY <1>2 DEF Scripted
<1>9. /\ v = "allowed" => Script(r) /\ Cardinality(Counted(r)) <= Limit[key[r]]
      /\ v = "refused" => Script(r) /\ Cardinality(Counted(r)) > Limit[key[r]]
  BY <1>2, <1>6, <1>7 DEF Scripted
<1> QED
  BY <1>1, <1>3, <1>5, <1>8, <1>9

LEMMA BoundStays ==
  ASSUME Staged, Remembered, Remembered', WindowBound, [HttpNext]_<<limitVars, httpVars>>
  PROVE  WindowBound'
<1> SUFFICES ASSUME NEW k \in Keys, NEW t \in Times PROVE Cardinality(AllowedIn(k, t)') <= Limit[k]
  BY DEF WindowBound, AllowedIn
<1>1. Cardinality(AllowedIn(k, t)) <= Limit[k]
  BY DEF WindowBound, AllowedIn
<1>2. CASE /\ UNCHANGED <<ran, verdict>>
           /\ \A q \in Requests : ran[q] # None \/ verdict[q] # "none" => key'[q] = key[q]
  <2>1. AllowedIn(k, t)' = AllowedIn(k, t)
    BY <1>2 DEF AllowedIn, Between
  <2> QED
    BY <1>1, <2>1
<1>3. ASSUME NEW r \in Requests, EndLimit(r) PROVE Cardinality(AllowedIn(k, t)') <= Limit[k]
  <2>1. /\ LimitTypeOK /\ reading[r] # None /\ ran[r] = None /\ verdict[r] = "none" /\ now' = now
        /\ key[r] \in Keys /\ key' = key
        /\ \A q \in Requests \ {r} : verdict'[q] = verdict[q] /\ ran'[q] = ran[q]
        /\ verdict'[r] = "allowed" =>
             ran'[r] = now /\ entries'[key[r]] = Counted(r) /\ Cardinality(Counted(r)) <= Limit[key[r]]
    BY <1>3, ScriptVerdict
  <2>2. CASE r \notin AllowedIn(k, t)'
    <3>1. r \notin AllowedIn(k, t)
      BY <2>1 DEF AllowedIn
    <3>2. AllowedIn(k, t)' = AllowedIn(k, t)
      BY <2>1, <2>2, <3>1 DEF AllowedIn, Between
    <3> QED
      BY <1>1, <3>2
  <2>3. CASE r \in AllowedIn(k, t)'
    <3>1. /\ key[r] = k /\ ran'[r] = now
          /\ entries'[k] = Counted(r) /\ Cardinality(Counted(r)) <= Limit[k]
          /\ now \in t - (Window - Delay) + 1 .. t
      BY <2>1, <2>3 DEF AllowedIn, Between
    <3>2. now \in Nat /\ t \in Nat
      BY <2>1, Spans DEF LimitTypeOK, Times
    <3>3. ASSUME NEW q \in AllowedIn(k, t)' PROVE \E e \in entries'[k] : e.by = q
      <4>1. q \in Requests /\ key'[q] = k /\ verdict'[q] = "allowed" /\ ran'[q] \in t - (Window - Delay) + 1 .. t
        BY <3>3 DEF AllowedIn, Between
      <4>2. ran'[q] > now' - (Window - Delay)
        BY <2>1, <3>1, <3>2, <4>1, Spans
      <4> QED
        BY <4>1, <4>2 DEF Remembered, Kept
    <3> DEFINE entry == [q \in AllowedIn(k, t)' |-> CHOOSE e \in entries'[k] : e.by = q]
    <3>4. \A q \in AllowedIn(k, t)' : entry[q] \in entries'[k] /\ entry[q].by = q
      BY <3>3
    <3> HIDE DEF entry
    <3>5. entry \in Injection(AllowedIn(k, t)', entries'[k])
      <4>1. entry \in [AllowedIn(k, t)' -> entries'[k]]
        BY <3>4 DEF entry
      <4> QED
        BY <3>4, <4>1, Fun_IsInj
    <3>6. IsFiniteSet(entries'[k])
      BY DEF Remembered, EntriesOfRan
    <3>7. /\ IsFiniteSet(AllowedIn(k, t)')
          /\ Cardinality(AllowedIn(k, t)') <= Cardinality(entries'[k])
      BY <3>5, <3>6, FS_Injection
    <3>8. Cardinality(AllowedIn(k, t)') \in Nat /\ Cardinality(entries'[k]) \in Nat
      BY <3>6, <3>7, FS_CardinalityType
    <3> QED
      BY <3>1, <3>7, <3>8, Spans
  <2> QED
    BY <2>2, <2>3
<1> QED
  BY <1>2, <1>3, OnlyTheScript

LEMMA CauseStays ==
  ASSUME Staged, Remembered, Remembered', RefusedForCause, [HttpNext]_<<limitVars, httpVars>>
  PROVE  RefusedForCause'
<1> SUFFICES ASSUME NEW q \in Requests, verdict'[q] = "refused"
             PROVE  Cardinality(Causes(q)') >= Limit[key'[q]]
  BY DEF RefusedForCause, Causes
<1>1. verdict[q] = "refused" => Cardinality(Causes(q)) >= Limit[key[q]]
  BY DEF RefusedForCause, Causes
<1>2. CASE /\ UNCHANGED <<ran, verdict>>
           /\ \A o \in Requests : ran[o] # None \/ verdict[o] # "none" => key'[o] = key[o]
  <2>1. verdict[q] = "refused" /\ key'[q] = key[q]
    BY <1>2
  <2>2. Causes(q)' = Causes(q)
    BY <1>2, <2>1 DEF Causes, Between
  <2> QED
    BY <1>1, <2>1, <2>2
<1>3. ASSUME NEW r \in Requests, EndLimit(r) PROVE Cardinality(Causes(q)') >= Limit[key'[q]]
  <2>1. /\ LimitTypeOK /\ reading[r] # None /\ ran[r] = None /\ now' = now
        /\ key[r] \in Keys /\ key' = key
        /\ \A p \in Requests \ {r} : verdict'[p] = verdict[p] /\ ran'[p] = ran[p]
        /\ verdict'[r] = "refused" =>
             ran'[r] = now /\ entries'[key[r]] = Counted(r) /\ Cardinality(Counted(r)) > Limit[key[r]]
    BY <1>3, ScriptVerdict
  <2>2. Causes(q)' \subseteq Ran' /\ IsFiniteSet(Ran')
    BY DEF Causes, Between, Ran, Remembered, EntriesOfRan
  <2>3. IsFiniteSet(Causes(q)')
    BY <2>2, FS_Subset
  <2>4. CASE q # r
    <3>1. verdict[q] = "refused" /\ ran'[q] = ran[q] /\ key'[q] = key[q]
      BY <2>1, <2>4
    <3>2. Causes(q) \subseteq Causes(q)'
      BY <2>1, <3>1 DEF Causes, Between
    <3>3. IsFiniteSet(Causes(q)) /\ Cardinality(Causes(q)) <= Cardinality(Causes(q)')
      BY <2>3, <3>2, FS_Subset
    <3>4. Cardinality(Causes(q)) \in Nat /\ Cardinality(Causes(q)') \in Nat
      BY <2>3, <3>3, FS_CardinalityType
    <3>5. key[q] \in Keys
      BY <3>1 DEF Staged, OnRoute
    <3> QED
      BY <1>1, <3>1, <3>3, <3>4, <3>5, Spans
  <2>5. CASE q = r
    <3> PICK held : held = entries'[key[r]]
      OBVIOUS
    <3> DEFINE own == [by |-> r, score |-> reading[r]]
               others == held \ {own}
    <3>1. /\ ran'[r] = now /\ held = Counted(r) /\ Cardinality(held) > Limit[key[r]]
          /\ Limit[key[r]] \in Nat
          /\ IsFiniteSet(held) /\ own \in held /\ now \in Nat
          /\ \A e \in held : e = own \/ (e \in entries[key[r]] /\ e.by # r)
          /\ \A e \in held : e.score > now - Delay - Window
      BY <2>1, <2>5, CountedEntries, Spans DEF LimitTypeOK, Times
    <3>2. IsFiniteSet(others) /\ Cardinality(others) = Cardinality(held) - 1
      BY <3>1, FS_RemoveElement
    <3>3. ASSUME NEW e \in others PROVE e.by \in Causes(q)'
      <4>1. e \in entries[key[r]] /\ e.by # r /\ e.score > now - Delay - Window
        BY <3>1
      <4>2. /\ e.by \in Requests /\ key[e.by] = key[r] /\ ran[e.by] # None
            /\ e.score \in ran[e.by] - Delay .. ran[e.by]
            /\ ran[e.by] <= now /\ e.score \in Nat
        BY <2>1, <4>1, Spans DEF Remembered, EntriesOfRan, InTime, Ran, LimitTypeOK, Times
      <4>3. ran[e.by] \in Nat /\ ran'[e.by] = ran[e.by]
        BY <2>1, <4>1, <4>2, Spans DEF LimitTypeOK, Times
      <4>4. ran'[e.by] \in now - Delay - Window + 1 .. now
        BY <3>1, <4>1, <4>2, <4>3, Spans
      <4> QED
        BY <2>1, <2>5, <3>1, <4>1, <4>2, <4>3, <4>4 DEF Causes, Between
    <3> DEFINE sender == [e \in others |-> e.by]
    <3>4. sender \in Injection(others, Causes(q)')
      <4>1. sender \in [others -> Causes(q)']
        BY <3>3
      <4>2. \A d, e \in others : d.by = e.by => d = e
        BY <2>1 DEF Remembered, EntriesOfRan
      <4> QED
        BY <4>1, <4>2, Fun_IsInj
    <3>5. Cardinality(others) <= Cardinality(Causes(q)')
      BY <2>3, <3>4, FS_Injection
    <3>6. Cardinality(others) \in Nat /\ Cardinality(Causes(q)') \in Nat /\ Cardinality(held) \in Nat
      BY <2>3, <3>1, <3>2, FS_CardinalityType
    <3>7. key'[q] = key[r]
      BY <2>1, <2>5
    <3> QED
      BY <3>1, <3>2, <3>5, <3>6, <3>7, Spans
  <2> QED
    BY <2>4, <2>5
<1> QED
  BY <1>2, <1>3, OnlyTheScript

-----------------------------------------------------------------------------
(* The theorems.                                                            *)

(* Every variable keeps its type: scores and readings are times of the      *)
(* clock, and only the four stages are ever in front of a request.          *)
THEOREM TypeCorrect == HttpSpec => []HttpTypeOK
<1>1. Staged => HttpTypeOK
  BY DEF Staged
<1> QED
  BY <1>1, AlwaysStaged, PTL

(* Middleware, handler, upgrader and recovery answer a request with one     *)
(* header between them, and no error text follows a result.                 *)
THEOREM AnsweredByOne == HttpSpec => []OneAnswer
<1>1. ASSUME last \in Answers PROVE OneAnswer
  <2>1. CASE \E c \in Nat, b \in Bodies : last = Answer(c, b)
    <3>1. PICK c \in Nat, b \in Bodies : last = Answer(c, b)
      BY <2>1
    <3>2. last.heads = <<last.status>> /\ ~last.hijacked /\ last.body = b
      BY <3>1 DEF Answer
    <3>3. "result" \in {b[i] : i \in DOMAIN b} => Len(b) = 1
      BY DEF Bodies
    <3> QED
      BY <3>2, <3>3 DEF OneAnswer
  <2>2. CASE last \in {Taken, TakenError}
    BY <2>2 DEF Taken, TakenError, OneAnswer
  <2> QED
    BY <1>1, <2>1, <2>2 DEF Answers
<1>2. Staged => OneAnswer
  BY <1>1 DEF Staged
<1> QED
  BY <1>2, AlwaysStaged, PTL

(* No handler of a protected route or of the socket runs for a request      *)
(* without a user, or that the limiter has not counted for that user (or    *)
(* failed on).                                                              *)
THEOREM LimitedFirst == HttpSpec => []ServedIfLimited
<1>1. Staged => ServedIfLimited
  BY AtStage, StagesDiffer DEF Staged, OnRoute, ServedIfLimited
<1> QED
  BY <1>1, AlwaysStaged, PTL

(* Whatever order the scripts run in and however old their readings are, no *)
(* Window - Delay seconds see more than Limit requests of a key allowed.    *)
THEOREM LimitHolds == HttpSpec => []WindowBound
<1>1. HttpInit => WindowBound
  <2> SUFFICES ASSUME HttpInit, NEW k \in Keys, NEW t \in Times
               PROVE  Cardinality(AllowedIn(k, t)) <= Limit[k]
    BY DEF WindowBound, AllowedIn
  <2>1. AllowedIn(k, t) = {}
    BY DEF HttpInit, LimitInit, AllowedIn, Between
  <2> QED
    BY <2>1, FS_EmptySet, Spans
<1>2. Staged /\ Remembered /\ Remembered' /\ WindowBound /\ [HttpNext]_<<limitVars, httpVars>>
        => WindowBound'
  BY BoundStays
<1> QED
  BY <1>1, <1>2, AlwaysRemembered, PTL DEF HttpSpec

(* The limiter refuses a request only when Limit others of its key ran      *)
(* before it in Window + Delay seconds: the set of the key never holds a request twice, nor one     *)
(* that is older.                                                           *)
THEOREM RefusalsEarned == HttpSpec => []RefusedForCause
<1>1. HttpInit => RefusedForCause
  BY DEF HttpInit, LimitInit, RefusedForCause
<1>2. Staged /\ Remembered /\ Remembered' /\ RefusedForCause /\ [HttpNext]_<<limitVars, httpVars>>
        => RefusedForCause'
  BY CauseStays
<1> QED
  BY <1>1, <1>2, AlwaysRemembered, PTL DEF HttpSpec
=============================================================================
