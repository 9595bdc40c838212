---------------------------- MODULE SessionProofs -----------------------------
(***************************************************************************)
(* Theorems of Session, for every set of accounts and calls, every token    *)
(* life and every bound.  Four layers: the types with what an answer under  *)
(* way says (Typed), the one refresh (OneRefresh), the pair of tokens of a  *)
(* session (InPairs), and, while no logout and no second form has crossed   *)
(* an open call, whose the tokens are and how old (Ours).                   *)
(***************************************************************************)
EXTENDS Session, FiniteSetTheorems, TLAPS

Running == {r \in Slots : calls[r].at \in {"refreshing", "refreshed"}}

(* A login or register that succeeded carries tokens of its own account.    *)
Granted(c) ==
  /\ c.as \in Accounts /\ c.answer.token.of = c.as
  /\ IF c.kind = "login" THEN c.answer.refresh.of = c.as ELSE c.answer.refresh = NoToken

(* A refresh that succeeded carries two tokens of one account.              *)
Renewed(c) == c.answer.token.of \in Accounts /\ c.answer.refresh.of = c.answer.token.of

AnswersGood ==
  \A r \in Slots :
    calls[r].answer.status = "ok" =>
      /\ calls[r].at = "answered" /\ calls[r].kind # "api" => Granted(calls[r])
      /\ calls[r].at = "refreshed" => Renewed(calls[r])

(* A call is made for an account, or with the address left empty.           *)
CallsNamed == \A r \in Open : calls[r].as # "nobody"

Typed == TypeOK /\ CallsNamed /\ AnswersGood

(* The refresh token comes with an access token, and, after a login, the    *)
(* access token with a refresh token.                                       *)
InPairs ==
  /\ store.token = NoToken => store.refresh = NoToken
  /\ how = "login" /\ store.token # NoToken => store.refresh # NoToken
  /\ LoginHasTokens

(* Nobody is shown: the storage is empty, and at most one form is sent.     *)
LoggedOut ==
  /\ store.token = NoToken /\ store.refresh = NoToken
  /\ \A r \in Open : calls[r].kind # "api" /\ calls[r].at \in {"sent", "answered"}
  /\ \A r, q \in Open : r = q

(* A user is shown: the calls and the tokens are that user's, and a refresh *)
(* answers with tokens of that user as well.                                *)
LoggedIn ==
  /\ store.user = shown
  /\ {store.token.of, store.refresh.of} \subseteq {shown, "nobody"}
  /\ \A r \in Open :
       /\ calls[r].kind = "api" /\ calls[r].token.of \in {shown, "nobody"}
       /\ calls[r].at = "refreshing" => calls[r].answer.refresh.of \in {shown, "nobody"}
       /\ calls[r].at = "refreshed" /\ calls[r].answer.status = "ok"
            => calls[r].answer.token.of = shown

Ours == ~crossed => IF shown = "nobody" THEN LoggedOut ELSE LoggedIn

(* No access token outlives one issued now; a refused one is over.          *)
TokensAge ==
  /\ store.token.exp <= now + Expiry
  /\ \A r \in Slots :
       /\ calls[r].at \in {"answered", "refreshed"} => calls[r].answer.token.exp <= now + Expiry
       /\ calls[r].kind = "api" =>
            /\ calls[r].at = "answered" /\ calls[r].answer.status = "401" => calls[r].token.exp <= now
            /\ calls[r].at \in {"queued", "refreshing", "refreshed"} => calls[r].token.exp <= now

(* While a session can refresh, no call carries a later token than the one  *)
(* stored, and a refresh brings a later one than that which it replaces.    *)
TokensGrow ==
  ~crossed /\ shown # "nobody" =>
    /\ Running # {} => store.refresh # NoToken
    /\ store.refresh # NoToken => \A r \in Open : calls[r].token.exp <= store.token.exp
    /\ \A r \in Running :
         calls[r].at = "refreshed" /\ calls[r].answer.status = "ok" =>
           /\ store.token.exp <= calls[r].answer.token.exp
           /\ Expiry # 0 => calls[r].token.exp < calls[r].answer.token.exp

Aged == TokensAge /\ TokensGrow

-----------------------------------------------------------------------------
(* What each step makes of the open calls.                                  *)

Names == Somebody \cup {""}

CallTypes ==
  [at : {"free", "sent", "answered", "queued", "refreshing", "refreshed"},
   kind : {"api", "login", "register"}, as : Names,
   token : Tokens, retry : BOOLEAN,
   answer : [status : {"ok", "401", "error"}, token : Tokens, refresh : Tokens]]

(* Only call r changes; it keeps what it asks and with which token.         *)
Moved(r, at, answer) ==
  /\ \A q \in Slots \ {r} : calls'[q] = calls[q]
  /\ calls'[r].at = at /\ calls'[r].answer = answer
  /\ calls'[r].kind = calls[r].kind /\ calls'[r].as = calls[r].as
  /\ calls'[r].token = calls[r].token
  /\ calls' \in [Slots -> CallTypes]

(* The calls of S are over.                                                 *)
Over(S) ==
  /\ \A q \in Slots \ S : calls'[q] = calls[q]
  /\ \A q \in S : calls'[q] = Free
  /\ calls' \in [Slots -> CallTypes]

LEMMA Lives ==
  /\ Expiry \in Nat /\ MaxTime \in Nat /\ MaxCalls \in Nat
  /\ RefreshExpiry \in Int /\ DefaultRefresh \in Nat
  /\ "nobody" \notin Accounts
  BY SessionAssumption

LEMMA TokensTyped ==
  /\ RefreshLife \in Nat /\ NoToken \in Tokens
  /\ Free \in CallTypes /\ Failed = [status |-> "error", token |-> NoToken, refresh |-> NoToken]
  /\ Free.at = "free" /\ Free.kind = "api" /\ Free.answer = Failed
  /\ \A u \in Accounts : now \in 0 .. MaxTime =>
       /\ GenerateToken(u) \in Tokens /\ GenerateRefreshToken(u) \in Tokens
       /\ GenerateToken(u).of = u /\ GenerateRefreshToken(u).of = u
       /\ GenerateToken(u).exp = now + Expiry
  <1>1. RefreshLife \in Nat
    BY Lives DEF RefreshLife
  <1>2. NoToken \in Tokens
    BY Lives, <1>1 DEF NoToken, Tokens, Somebody
  <1>3. Failed = [status |-> "error", token |-> NoToken, refresh |-> NoToken]
    BY DEF Failed, Answer
  <1>4. Free \in CallTypes /\ Free.at = "free" /\ Free.kind = "api" /\ Free.answer = Failed
    <2>1. "nobody" \in Names
      BY DEF Names, Somebody
    <2> QED
      BY <1>2, <1>3, <2>1 DEF Free, CallTypes
  <1>5. ASSUME NEW u \in Accounts, now \in 0 .. MaxTime
        PROVE  /\ GenerateToken(u) \in Tokens /\ GenerateRefreshToken(u) \in Tokens
               /\ GenerateToken(u).of = u /\ GenerateRefreshToken(u).of = u
               /\ GenerateToken(u).exp = now + Expiry
    BY Lives, <1>1, <1>5 DEF GenerateToken, GenerateRefreshToken, Tokens, Somebody
  <1> QED
    BY <1>1, <1>2, <1>3, <1>4, <1>5

LEMMA CallMoves ==
  ASSUME calls \in [Slots -> CallTypes], NEW r \in Slots,
         NEW at \in {"sent", "answered", "queued", "refreshing", "refreshed"},
         NEW answer \in [status : {"ok", "401", "error"}, token : Tokens, refresh : Tokens]
  PROVE  /\ calls' = [calls EXCEPT ![r].at = at, ![r].answer = answer] => Moved(r, at, answer)
         /\ calls' = [calls EXCEPT ![r].at = at] => Moved(r, at, calls[r].answer)
         /\ calls' = [calls EXCEPT ![r].at = at, ![r].retry = TRUE, ![r].answer = answer]
              => Moved(r, at, answer)
  <1>1. calls[r] \in CallTypes
    OBVIOUS
  <1>2. /\ [calls[r] EXCEPT !.at = at, !.answer = answer] \in CallTypes
        /\ [calls[r] EXCEPT !.at = at] \in CallTypes
        /\ [calls[r] EXCEPT !.at = at, !.retry = TRUE, !.answer = answer] \in CallTypes
    BY <1>1 DEF CallTypes
  <1>3. ASSUME calls' = [calls EXCEPT ![r].at = at, ![r].answer = answer]
        PROVE  Moved(r, at, answer)
    <2>1. calls' = [calls EXCEPT ![r] = [calls[r] EXCEPT !.at = at, !.answer = answer]]
      BY <1>3
    <2> QED
      BY <1>1, <1>2, <2>1 DEF Moved, CallTypes
  <1>4. ASSUME calls' = [calls EXCEPT ![r].at = at]
        PROVE  Moved(r, at, calls[r].answer)
    <2>1. calls' = [calls EXCEPT ![r] = [calls[r] EXCEPT !.at = at]]
      BY <1>4
    <2> QED
      BY <1>1, <1>2, <2>1 DEF Moved, CallTypes
  <1>5. ASSUME calls' = [calls EXCEPT ![r].at = at, ![r].retry = TRUE, ![r].answer = answer]
        PROVE  Moved(r, at, answer)
    <2>1. calls' = [calls EXCEPT ![r] = [calls[r] EXCEPT !.at = at, !.retry = TRUE, !.answer = answer]]
      BY <1>5
    <2> QED
      BY <1>1, <1>2, <2>1 DEF Moved, CallTypes
  <1> QED
    BY <1>3, <1>4, <1>5

AnswerTypes == [status : {"ok", "401", "error"}, token : Tokens, refresh : Tokens]

LEMMA AnswersTyped ==
  ASSUME now \in 0 .. MaxTime
  PROVE  /\ Failed \in AnswerTypes /\ Unauthorized \in AnswerTypes
         /\ Failed.status = "error" /\ Unauthorized.status = "401"
         /\ Failed.token.exp = 0 /\ Unauthorized.token.exp = 0
         /\ 0 <= now + Expiry /\ now + Expiry <= now + Expiry
         /\ Failed.token = NoToken /\ Unauthorized.token = NoToken
         /\ \A status \in {"ok", "401", "error"}, t, f \in Tokens :
              /\ Answer(status, t, f) \in AnswerTypes
              /\ Answer(status, t, f).status = status
              /\ Answer(status, t, f).token = t /\ Answer(status, t, f).refresh = f
  <1>1. now \in Nat /\ Expiry \in Nat /\ NoToken \in Tokens /\ NoToken.exp = 0
    BY Lives, TokensTyped DEF NoToken
  <1> QED
    BY <1>1 DEF Failed, Unauthorized, Answer, AnswerTypes

(* What the server answers a call with.                                     *)
LEMMA ServerAnswers ==
  ASSUME now \in 0 .. MaxTime, users \subseteq Accounts, NEW c \in CallTypes,
         c.as # "nobody", NEW res \in Results(c)
  PROVE  /\ res[1] \subseteq Accounts /\ res[2] \in AnswerTypes
         /\ res[2].token.exp <= now + Expiry
         /\ res[2].status = "ok" /\ c.kind # "api" =>
              /\ c.as \in Accounts /\ res[2].token.of = c.as
              /\ IF c.kind = "login" THEN res[2].refresh.of = c.as ELSE res[2].refresh = NoToken
         /\ c.kind = "api" /\ res[2].status = "401" => c.token.exp <= now
  <1>0. c.token \in Tokens
    BY DEF CallTypes
  <1>1. /\ c.kind \in {"api", "login", "register"} /\ c.as \in Accounts \cup {""}
    <2>1. c.as \in Names
      BY DEF CallTypes
    <2> QED
      BY <2>1 DEF CallTypes, Names, Somebody
  <1>2. CASE c.kind = "register"
    <2>1. res \in Register(c.as)
      BY <1>2 DEF Results
    <2>2. CASE res = <<users, Failed>>
      BY <1>2, <2>2, AnswersTyped
    <2>3. CASE res \in Registered(c.as) /\ c.as \in Accounts
      <3>1. PICK rows \in CreateUser(c.as), a \in {Failed, Answer("ok", GenerateToken(c.as), NoToken)} :
              res = <<rows, a>>
        BY <2>3 DEF Registered
      <3>2. rows \subseteq Accounts
        BY <2>3, <3>1 DEF CreateUser
      <3> QED
        BY <1>2, <2>3, <3>1, <3>2, AnswersTyped, TokensTyped
    <2> QED
      BY <1>1, <2>1, <2>2, <2>3 DEF Register, Required
  <1>3. CASE c.kind = "login"
    <2>1. PICK a \in Login(c.as) : res = <<users, a>>
      BY <1>3 DEF Results
    <2>2. \/ a \in {Failed, Unauthorized}
          \/ /\ a = Answer("ok", GenerateToken(c.as), GenerateRefreshToken(c.as))
             /\ c.as \in Accounts
      BY <2>1 DEF Login, GetByEmail
    <2> QED
      BY <1>3, <2>1, <2>2, AnswersTyped, TokensTyped
  <1>4. CASE c.kind = "api"
    <2>1. PICK a \in AuthMiddleware(c.token) : res = <<users, a>>
      BY <1>4 DEF Results
    <2>2. \/ a \in {Answer("ok", NoToken, NoToken), Failed}
          \/ a = Unauthorized /\ ~ValidateToken(c.token)
      BY <2>1 DEF AuthMiddleware
    <2>3. ~ValidateToken(c.token) => c.token.exp <= now
      <3>0. c.token.exp \in 0 .. MaxTime + Expiry + RefreshLife /\ MaxTime + Expiry + RefreshLife \in Nat
        BY <1>0, Lives, TokensTyped DEF Tokens
      <3>1. c.token.exp \in Nat /\ now \in Nat /\ NoToken.exp = 0
        BY <3>0, Lives DEF NoToken
      <3> QED
        BY <3>1 DEF ValidateToken
    <2>4. NoToken.exp <= now + Expiry /\ NoToken \in Tokens
      BY AnswersTyped, TokensTyped DEF NoToken
    <2> QED
      BY <1>4, <2>1, <2>2, <2>3, <2>4, AnswersTyped
  <1> QED
    BY <1>1, <1>2, <1>3, <1>4

LEMMA RefreshAnswers ==
  ASSUME now \in 0 .. MaxTime, users \subseteq Accounts, NEW t \in Tokens, NEW a \in RefreshToken(t)
  PROVE  /\ a \in AnswerTypes
         /\ a.status = "ok" => /\ t.of \in Accounts /\ a.token.of = t.of /\ a.refresh.of = t.of
                               /\ a.token.exp = now + Expiry
         /\ a.token.exp <= now + Expiry
  <1>1. \/ a \in {Failed, Unauthorized}
        \/ /\ a = Answer("ok", GenerateToken(t.of), GenerateRefreshToken(t.of))
           /\ t.of \in Accounts
    BY DEF RefreshToken, GetByID
  <1> QED
    BY <1>1, AnswersTyped, TokensTyped

-----------------------------------------------------------------------------
(* The types, and what an answer under way says.                            *)

LEMMA CallsTyped == TypeOK => calls \in [Slots -> CallTypes]
  BY DEF TypeOK, CallTypes, Names

LEMMA OverTyped == ASSUME Typed, NEW S \in SUBSET Slots PROVE calls' = Settled(S) => Over(S)
  BY CallsTyped, TokensTyped DEF Typed, Settled, Over

(* A page that has what it may store keeps the types.                       *)
LEMMA PageTyped ==
  ASSUME Typed, now' \in 0 .. MaxTime, made' \in 0 .. MaxCalls, users' \subseteq Accounts,
         store' \in [token : Tokens, refresh : Tokens, user : Somebody], shown' \in Somebody,
         refreshing' \in BOOLEAN, leaving' \in BOOLEAN, calls' \in [Slots -> CallTypes],
         how' \in {"nobody", "login", "register"}, crossed' \in BOOLEAN
  PROVE  TypeOK'
  BY DEF TypeOK, CallTypes, Names

LEMMA MovedGood ==
  ASSUME Typed, NEW r \in Slots, NEW at, NEW answer, Moved(r, at, answer), r \in Open,
         answer.status = "ok" =>
           /\ at = "answered" /\ calls[r].kind # "api" => Granted([calls[r] EXCEPT !.answer = answer])
           /\ at = "refreshed" => Renewed([calls[r] EXCEPT !.answer = answer])
  PROVE  CallsNamed' /\ AnswersGood'
  <1>1. calls[r] \in CallTypes
    BY CallsTyped DEF Typed
  <1>2. [calls[r] EXCEPT !.answer = answer].answer = answer
    BY <1>1 DEF CallTypes
  <1>3. /\ [calls[r] EXCEPT !.answer = answer].as = calls[r].as
        /\ [calls[r] EXCEPT !.answer = answer].kind = calls[r].kind
    BY <1>1 DEF CallTypes
  <1> QED
    BY <1>2, <1>3 DEF Typed, CallsNamed, AnswersGood, Moved, Open, Granted, Renewed

LEMMA OverGood == ASSUME Typed, NEW S, Over(S) PROVE CallsNamed' /\ AnswersGood'
  BY TokensTyped DEF Typed, CallsNamed, AnswersGood, Over, Open, Granted, Renewed

(* The steps of a call, by what they do to the calls.                       *)
Started(r) ==
  /\ \A q \in Slots \ {r} : calls'[q] = calls[q]
  /\ calls'[r].at = "sent" /\ calls'[r].token = store.token /\ calls'[r].answer = Failed
  /\ IF shown = "nobody" THEN calls'[r].kind # "api" ELSE calls'[r].kind = "api"
  /\ calls'[r].as # "nobody"
  /\ calls' \in [Slots -> CallTypes]

LEMMA StartEffect == ASSUME Typed, NEW r \in Slots, StartCall(r) PROVE Started(r)
  <1>1. PICK kind \in (IF shown = "nobody" THEN {"login", "register"} ELSE {"api"}),
             as \in (IF shown = "nobody" THEN Accounts \cup {""} ELSE {shown}) :
               calls' = [calls EXCEPT ![r] = [Free EXCEPT !.at = "sent", !.kind = kind, !.as = as,
                                                          !.token = store.token]]
    BY DEF StartCall
  <1>2. as \in Names /\ as # "nobody"
    BY Lives DEF Names, Somebody, Typed, TypeOK
  <1>3. store.token \in Tokens /\ calls \in [Slots -> CallTypes]
    BY CallsTyped DEF Typed, TypeOK
  <1> DEFINE c == [Free EXCEPT !.at = "sent", !.kind = kind, !.as = as, !.token = store.token]
  <1>4. /\ c \in CallTypes /\ c.at = "sent" /\ c.token = store.token /\ c.answer = Failed
        /\ c.kind = kind /\ c.as = as
    BY <1>2, <1>3, TokensTyped DEF CallTypes
  <1> HIDE DEF c
  <1>5. calls' = [calls EXCEPT ![r] = c]
    BY <1>1 DEF c
  <1> QED
    BY <1>1, <1>2, <1>3, <1>4, <1>5 DEF Started

LEMMA ServeEffect ==
  ASSUME Typed, NEW r \in Slots, Serve(r)
  PROVE  \E res \in Results(calls[r]) : users' = res[1] /\ Moved(r, "answered", res[2])
  <1>1. PICK res \in Results(calls[r]) :
          /\ users' = res[1]
          /\ calls' = [calls EXCEPT ![r].at = "answered", ![r].answer = res[2]]
    BY DEF Serve
  <1>2. calls \in [Slots -> CallTypes] /\ calls[r].as # "nobody"
    BY CallsTyped DEF Typed, CallsNamed, Open, Serve
  <1>3. res[2] \in AnswerTypes
    BY <1>2, ServerAnswers DEF Typed, TypeOK
  <1> QED
    BY <1>1, <1>2, <1>3, CallMoves DEF AnswerTypes

LEMMA ServeRefreshEffect ==
  ASSUME Typed, NEW r \in Slots, ServeRefresh(r)
  PROVE  \E a \in RefreshToken(calls[r].answer.refresh) : Moved(r, "refreshed", a)
  <1>1. PICK a \in RefreshToken(calls[r].answer.refresh) :
          calls' = [calls EXCEPT ![r].at = "refreshed", ![r].answer = a]
    BY DEF ServeRefresh
  <1>2. calls \in [Slots -> CallTypes] /\ calls[r].answer.refresh \in Tokens
    BY CallsTyped DEF Typed, CallTypes
  <1>3. a \in AnswerTypes
    BY <1>2, RefreshAnswers DEF Typed, TypeOK
  <1> QED
    BY <1>1, <1>2, <1>3, CallMoves DEF AnswerTypes

LEMMA LoseEffect ==
  ASSUME Typed, NEW r \in Slots, Lose(r)
  PROVE  \/ calls[r].at \in {"sent", "answered"} /\ Moved(r, "answered", Failed)
         \/ calls[r].at \in {"refreshing", "refreshed"} /\ Moved(r, "refreshed", Failed)
  <1>1. /\ calls \in [Slots -> CallTypes] /\ Failed \in AnswerTypes
        /\ calls[r].at \in {"sent", "answered", "refreshing", "refreshed"}
    BY CallsTyped, AnswersTyped DEF Typed, TypeOK, Lose
  <1>2. calls' = [calls EXCEPT ![r].at = IF @ \in {"sent", "answered"} THEN "answered" ELSE "refreshed",
                               ![r].answer = Failed]
    BY <1>1 DEF Lose, CallTypes
  <1>3. CASE calls[r].at \in {"sent", "answered"}
    <2>1. calls' = [calls EXCEPT ![r].at = "answered", ![r].answer = Failed]
      BY <1>2, <1>3
    <2> QED
      BY <1>1, <1>3, <2>1, CallMoves DEF AnswerTypes
  <1>4. CASE calls[r].at \in {"refreshing", "refreshed"}
    <2>1. calls' = [calls EXCEPT ![r].at = "refreshed", ![r].answer = Failed]
      BY <1>2, <1>4
    <2> QED
      BY <1>1, <1>4, <2>1, CallMoves DEF AnswerTypes
  <1> QED
    BY <1>1, <1>3, <1>4

(* A 401: the call is over, waits, or refreshes.                            *)
LEMMA RefusedEffect ==
  ASSUME Typed, NEW r \in Slots, Receive401(r)
  PROVE  /\ calls[r].at = "answered" /\ calls[r].answer.status = "401"
         /\ \/ Over({r}) /\ UNCHANGED <<store, refreshing>>
            \/ /\ Over({r}) /\ ~refreshing /\ store.refresh = NoToken
               /\ ClearTokens /\ UNCHANGED refreshing
            \/ refreshing /\ Moved(r, "queued", calls[r].answer) /\ UNCHANGED <<store, refreshing>>
            \/ /\ ~refreshing /\ refreshing' = TRUE /\ store.refresh # NoToken /\ store' = store
               /\ Moved(r, "refreshing", Answer("401", NoToken, store.refresh))
  <1>1. /\ calls \in [Slots -> CallTypes] /\ store.refresh \in Tokens
        /\ Answer("401", NoToken, store.refresh) \in AnswerTypes
    BY CallsTyped, AnswersTyped, TokensTyped DEF Typed, TypeOK
  <1>2. CASE /\ calls' = Settled({r})
             /\ \/ UNCHANGED <<store, refreshing>>
                \/ ~refreshing /\ store.refresh = NoToken /\ ClearTokens /\ UNCHANGED refreshing
    <2>1. Over({r})
      BY <1>2, OverTyped
    <2> QED
      BY <1>2, <2>1 DEF Receive401
  <1>3. CASE refreshing /\ calls' = [calls EXCEPT ![r].at = "queued"]
                       /\ UNCHANGED <<store, refreshing>>
    <2>1. calls[r].answer \in AnswerTypes
      BY <1>1 DEF CallTypes, AnswerTypes
    <2> QED
      BY <1>1, <1>3, <2>1, CallMoves DEF Receive401, AnswerTypes
  <1>4. CASE /\ ~refreshing /\ refreshing' = TRUE /\ store.refresh # NoToken /\ UNCHANGED store
             /\ calls' = [calls EXCEPT ![r].at = "refreshing", ![r].retry = TRUE,
                                       ![r].answer = Answer("401", NoToken, store.refresh)]
    <2>1. Moved(r, "refreshing", Answer("401", NoToken, store.refresh))
      BY <1>1, <1>4, CallMoves DEF AnswerTypes
    <2> QED
      BY <1>4, <2>1 DEF Receive401
  <1> QED
    BY <1>2, <1>3, <1>4 DEF Receive401, BeginRefresh

(* Call r and those in the queue are sent again, with the new token.        *)
Resends(r) ==
  /\ \A q \in Slots :
       IF q \in Queue \cup {r}
       THEN /\ calls'[q].at = "sent" /\ calls'[q].answer = Failed
            /\ calls'[q].token = calls[r].answer.token
            /\ calls'[q].kind = calls[q].kind /\ calls'[q].as = calls[q].as
       ELSE calls'[q] = calls[q]
  /\ calls' \in [Slots -> CallTypes]

LEMMA ResendEffect == ASSUME Typed, NEW r \in Slots, RefreshOk(r) PROVE Resends(r)
  <1>1. calls \in [Slots -> CallTypes] /\ Failed \in AnswerTypes
    BY CallsTyped, AnswersTyped DEF Typed, TypeOK
  <1>2. calls' = Resent(r, calls[r].answer.token) /\ calls[r].answer.token \in Tokens
    BY <1>1 DEF RefreshOk, CallTypes
  <1>3. ASSUME NEW q \in Slots
        PROVE  LET c == [calls[q] EXCEPT !.at = "sent", !.token = calls[r].answer.token,
                                         !.answer = Failed]
               IN  /\ c \in CallTypes /\ c.at = "sent" /\ c.answer = Failed
                   /\ c.token = calls[r].answer.token
                   /\ c.kind = calls[q].kind /\ c.as = calls[q].as
    BY ZenonT(40), <1>1, <1>2 DEF CallTypes, AnswerTypes
  <1> QED
    BY <1>1, <1>2, <1>3 DEF Resends, Resent

LEMMA EndEffect ==
  ASSUME Typed, NEW r \in Slots
  PROVE  /\ ReceiveOk(r) \/ ReceiveError(r) => Over({r})
         /\ RefreshFailed(r) => Over(Queue \cup {r})
  BY OverTyped DEF ReceiveOk, ReceiveError, RefreshFailed, Queue

LEMMA ReloadEffect == Typed /\ Reload => Over(Slots)
  BY OverTyped DEF Reload

LEMMA InitTyped == Init => Typed
  <1> SUFFICES ASSUME Init PROVE Typed
    OBVIOUS
  <1>1. /\ NoToken \in Tokens /\ Free \in CallTypes /\ Free.at = "free" /\ Free.answer.status = "error"
        /\ "nobody" \in Somebody
    BY TokensTyped DEF Somebody
  <1>2. calls \in [Slots -> CallTypes] /\ \A r \in Slots : calls[r] = Free
    BY <1>1 DEF Init
  <1>3. /\ 0 \in 0 .. MaxTime /\ 0 \in 0 .. MaxCalls
        /\ NoStore \in [token : Tokens, refresh : Tokens, user : Somebody]
    BY <1>1, Lives DEF NoStore
  <1>4. TypeOK
    BY <1>1, <1>2, <1>3 DEF Init, TypeOK, CallTypes, Names
  <1>5. CallsNamed /\ AnswersGood
    BY <1>1, <1>2 DEF CallsNamed, AnswersGood, Open
  <1> QED
    BY <1>4, <1>5 DEF Typed

LEMMA CallStepTyped ==
  ASSUME Typed, NEW r \in Slots,
         StartCall(r) \/ Serve(r) \/ ServeRefresh(r) \/ Lose(r) \/ Receive(r)
  PROVE  Typed'
  <1>0. /\ now \in 0 .. MaxTime /\ made \in 0 .. MaxCalls /\ users \subseteq Accounts
        /\ store \in [token : Tokens, refresh : Tokens, user : Somebody]
        /\ shown \in Somebody /\ refreshing \in BOOLEAN /\ leaving \in BOOLEAN
        /\ how \in {"nobody", "login", "register"} /\ crossed \in BOOLEAN
        /\ calls \in [Slots -> CallTypes] /\ Failed.status = "error"
    BY CallsTyped, AnswersTyped DEF Typed, TypeOK
  <1>c. /\ [store EXCEPT !.token = NoToken, !.refresh = NoToken]
             \in [token : Tokens, refresh : Tokens, user : Somebody]
        /\ ClearTokens => store' \in [token : Tokens, refresh : Tokens, user : Somebody]
    BY <1>0, TokensTyped DEF ClearTokens
  <1>1. CASE StartCall(r)
    <2>1. Started(r)
      BY <1>1, StartEffect
    <2>2. made' \in 0 .. MaxCalls /\ crossed' \in BOOLEAN
      <3>1. made' = made + 1 /\ made < MaxCalls
        BY <1>1 DEF StartCall
      <3>2. crossed' \in BOOLEAN
        BY <1>1 DEF StartCall
      <3> QED
        BY <1>0, <3>1, <3>2, Lives
    <2>3. TypeOK'
      BY <1>0, <1>1, <2>1, <2>2, PageTyped DEF StartCall, Started, page
    <2>4. CallsNamed' /\ AnswersGood'
      BY <1>0, <2>1 DEF Started, Typed, CallsNamed, AnswersGood, Open, Granted, Renewed
    <2> QED
      BY <2>3, <2>4 DEF Typed
  <1>2. CASE Serve(r)
    <2>1. PICK res \in Results(calls[r]) : users' = res[1] /\ Moved(r, "answered", res[2])
      BY <1>2, ServeEffect
    <2>2. calls[r] \in CallTypes /\ r \in Open /\ calls[r].as # "nobody"
      BY <1>0, <1>2 DEF Serve, Open, Typed, CallsNamed
    <2>3. /\ users' \subseteq Accounts
          /\ res[2].status = "ok" /\ calls[r].kind # "api" => Granted([calls[r] EXCEPT !.answer = res[2]])
      <3>1. [calls[r] EXCEPT !.answer = res[2]].answer = res[2]
        BY <2>2 DEF CallTypes
      <3>2. /\ [calls[r] EXCEPT !.answer = res[2]].as = calls[r].as
            /\ [calls[r] EXCEPT !.answer = res[2]].kind = calls[r].kind
        BY <2>2 DEF CallTypes
      <3> QED
        BY <1>0, <2>1, <2>2, <3>1, <3>2, ServerAnswers DEF Granted
    <2>4. TypeOK'
      BY <1>0, <1>2, <2>1, <2>3, PageTyped DEF Serve, Moved, page
    <2> QED
      BY <2>1, <2>2, <2>3, <2>4, MovedGood DEF Typed
  <1>3. CASE ServeRefresh(r)
    <2>1. PICK a \in RefreshToken(calls[r].answer.refresh) : Moved(r, "refreshed", a)
      BY <1>3, ServeRefreshEffect
    <2>2. calls[r] \in CallTypes /\ r \in Open /\ calls[r].answer.refresh \in Tokens
      BY <1>0, <1>3 DEF ServeRefresh, Open, CallTypes
    <2>3. a.status = "ok" => Renewed([calls[r] EXCEPT !.answer = a])
      <3>1. [calls[r] EXCEPT !.answer = a].answer = a
        BY <2>2 DEF CallTypes
      <3> QED
        BY <1>0, <2>2, <3>1, RefreshAnswers DEF Renewed
    <2>4. TypeOK'
      BY <1>0, <1>3, <2>1, PageTyped DEF ServeRefresh, Moved, page
    <2> QED
      BY <2>1, <2>2, <2>3, <2>4, MovedGood DEF Typed
  <1>4. CASE Lose(r)
    <2>1. PICK at : Moved(r, at, Failed)
      BY <1>4, LoseEffect
    <2>2. TypeOK'
      BY <1>0, <1>4, <2>1, PageTyped DEF Lose, Moved, page
    <2> QED
      BY <1>0, <1>4, <2>1, <2>2, MovedGood DEF Typed, Lose, Open
  <1>5. CASE ReceiveOk(r)
    <2>1. Over({r}) /\ calls[r].at = "answered" /\ calls[r].answer.status = "ok"
      BY <1>5, EndEffect DEF ReceiveOk
    <2>2. CASE calls[r].kind = "api"
      <3>1. TypeOK'
        BY <1>0, <1>5, <2>1, <2>2, PageTyped DEF ReceiveOk, Over
      <3> QED
        BY <2>1, <3>1, OverGood DEF Typed
    <2>3. CASE calls[r].kind # "api"
      <3>1. Granted(calls[r]) /\ Enter(calls[r]) /\ calls[r] \in CallTypes
        BY <1>0, <1>5, <2>1, <2>3 DEF ReceiveOk, Typed, AnswersGood
      <3>2. /\ calls[r].as \in Somebody /\ calls[r].answer.token \in Tokens
            /\ calls[r].answer.refresh \in Tokens /\ calls[r].kind \in {"login", "register"}
        BY <2>3, <3>1 DEF Granted, CallTypes, Somebody
      <3>3. /\ store' \in [token : Tokens, refresh : Tokens, user : Somebody]
            /\ shown' \in Somebody /\ how' \in {"nobody", "login", "register"}
        BY <1>0, <3>1, <3>2 DEF Enter
      <3>4. TypeOK'
        BY <1>0, <1>5, <2>1, <3>3, PageTyped DEF ReceiveOk, Over
      <3> QED
        BY <2>1, <3>4, OverGood DEF Typed
    <2> QED
      BY <2>2, <2>3
  <1>6. CASE Receive401(r)
    <2>1. /\ now' = now /\ made' = made /\ users' = users /\ shown' = shown /\ leaving' = leaving
          /\ how' = how /\ crossed' = crossed
      BY <1>6 DEF Receive401
    <2>2. store' \in [token : Tokens, refresh : Tokens, user : Somebody] /\ refreshing' \in BOOLEAN
      BY <1>0, <1>c, <1>6, RefusedEffect
    <2>3. CASE Over({r})
      <3>1. TypeOK'
        BY <1>0, <2>1, <2>2, <2>3, PageTyped DEF Over
      <3> QED
        BY <2>3, <3>1, OverGood DEF Typed
    <2>4. ASSUME NEW at \in {"queued", "refreshing"}, NEW answer, Moved(r, at, answer) PROVE Typed'
      <3>1. TypeOK'
        BY <1>0, <2>1, <2>2, <2>4, PageTyped DEF Moved
      <3> QED
        BY <1>6, <2>4, <3>1, MovedGood DEF Typed, Receive401, Open
    <2> QED
      BY <1>6, <2>3, <2>4, RefusedEffect
  <1>7. CASE ReceiveError(r)
    <2>1. Over({r})
      BY <1>7, EndEffect
    <2>2. TypeOK'
      BY <1>0, <1>7, <2>1, PageTyped DEF ReceiveError, Over, page
    <2> QED
      BY <2>1, <2>2, OverGood DEF Typed
  <1>8. CASE RefreshOk(r)
    <2>1. Resends(r)
      BY <1>8, ResendEffect
    <2>2. store' \in [token : Tokens, refresh : Tokens, user : Somebody]
      BY <1>0, <1>8 DEF RefreshOk, CallTypes
    <2>3. TypeOK'
      BY <1>0, <1>8, <2>1, <2>2, PageTyped DEF RefreshOk, Resends
    <2>4. \A q \in Queue \cup {r} : q \in Open
      BY <1>8 DEF RefreshOk, Open, Queue
    <2>5. CallsNamed'
      BY <2>1, <2>4 DEF Resends, Typed, CallsNamed, Open
    <2>6. AnswersGood'
      BY <1>0, <2>1 DEF Resends, Typed, AnswersGood, Granted, Renewed
    <2> QED
      BY <2>3, <2>5, <2>6 DEF Typed
  <1>9. CASE RefreshFailed(r)
    <2>1. Over(Queue \cup {r})
      BY <1>9, EndEffect
    <2>2. TypeOK'
      BY <1>0, <1>c, <1>9, <2>1, PageTyped DEF RefreshFailed, Over
    <2> QED
      BY <2>1, <2>2, OverGood DEF Typed
  <1> QED
    BY <1>1, <1>2, <1>3, <1>4, <1>5, <1>6, <1>7, <1>8, <1>9 DEF Receive

LEMMA StepTyped == Typed /\ [Next]_vars => Typed'
  <1> SUFFICES ASSUME Typed, [Next]_vars PROVE Typed'
    OBVIOUS
  <1>0. /\ now \in 0 .. MaxTime /\ made \in 0 .. MaxCalls /\ users \subseteq Accounts
        /\ store \in [token : Tokens, refresh : Tokens, user : Somebody]
        /\ shown \in Somebody /\ refreshing \in BOOLEAN /\ leaving \in BOOLEAN
        /\ how \in {"nobody", "login", "register"} /\ crossed \in BOOLEAN
        /\ calls \in [Slots -> CallTypes] /\ "nobody" \in Somebody /\ NoToken \in Tokens
    BY CallsTyped, TokensTyped DEF Typed, TypeOK, Somebody
  <1>1. CASE Tick \/ Logout
    <2>1. /\ now' \in 0 .. MaxTime /\ UNCHANGED <<users, calls, made, leaving, refreshing>>
      BY <1>0, <1>1, Lives DEF Tick, Logout, page
    <2>2. crossed' \in BOOLEAN
      BY <1>0, <1>1 DEF Tick, Logout
    <2>3. /\ store' \in [token : Tokens, refresh : Tokens, user : Somebody] /\ shown' \in Somebody
          /\ how' \in {"nobody", "login", "register"}
      BY <1>0, <1>1 DEF Tick, Logout, NoStore, page
    <2>4. TypeOK'
      BY <1>0, <2>1, <2>2, <2>3, PageTyped
    <2> QED
      BY <2>1, <2>4 DEF Typed, CallsNamed, AnswersGood, Open, Granted, Renewed
  <1>2. CASE Reload
    <2>1. Over(Slots) /\ users' \subseteq Accounts
      <3>1. Over(Slots)
        BY <1>2, ReloadEffect
      <3>2. users' \subseteq Accounts
        BY <1>0, <1>2 DEF Reload
      <3> QED
        BY <3>1, <3>2
    <2>2. TypeOK'
      BY <1>0, <1>2, <2>1, PageTyped DEF Reload, Over
    <2> QED
      BY <2>1, <2>2, OverGood DEF Typed
  <1>3. CASE UNCHANGED vars
    BY <1>3 DEF vars, page, Typed, TypeOK, CallsNamed, AnswersGood, Open, Granted, Renewed
  <1> QED
    BY <1>1, <1>2, <1>3, CallStepTyped DEF Next

LEMMA AlwaysTyped == Spec => []Typed
  BY InitTyped, StepTyped, PTL DEF Spec

(* Types of the page, its storage and its calls.                            *)
THEOREM TypeCorrect == Spec => []TypeOK
  BY AlwaysTyped, PTL DEF Typed

-----------------------------------------------------------------------------
(* One refresh.                                                             *)

OneRunning ==
  /\ refreshing => \E r \in Slots : Running = {r}
  /\ ~refreshing => Running = {} /\ Queue = {}

(* A call outside of a refresh goes on outside of it.                       *)
LEMMA OutsideStays ==
  ASSUME OneRunning, NEW r \in Slots \ (Running \cup Queue), refreshing' = refreshing,
         \A q \in Slots \ {r} : calls'[q] = calls[q],
         calls'[r].at \in {"free", "sent", "answered"}
  PROVE  OneRunning'
  <1>1. Running' = Running /\ Queue' = Queue
    BY DEF Running, Queue
  <1> QED
    BY <1>1 DEF OneRunning

LEMMA StepOneRunning == Typed /\ OneRunning /\ [Next]_vars => OneRunning'
  <1> SUFFICES ASSUME Typed, OneRunning, [Next]_vars PROVE OneRunning'
    OBVIOUS
  <1>1. CASE Tick \/ Logout \/ UNCHANGED vars
    <2>1. UNCHANGED <<calls, refreshing>>
      BY <1>1 DEF Tick, Logout, vars, page
    <2> QED
      BY <2>1 DEF OneRunning, Running, Queue
  <1>2. CASE Reload
    <2>1. Over(Slots) /\ refreshing' = FALSE /\ Free.at = "free"
      BY <1>2, ReloadEffect, TokensTyped DEF Reload
    <2> QED
      BY <2>1 DEF Over, OneRunning, Running, Queue
  <1>3. ASSUME NEW r \in Slots, StartCall(r) \/ Serve(r)
        PROVE  OneRunning'
    <2>1. refreshing' = refreshing /\ r \notin Running \cup Queue
      BY <1>3 DEF StartCall, Serve, page, Running, Queue
    <2>2. (\A q \in Slots \ {r} : calls'[q] = calls[q]) /\ calls'[r].at \in {"sent", "answered"}
      BY <1>3, StartEffect, ServeEffect DEF Started, Moved
    <2> QED
      BY <2>1, <2>2, OutsideStays
  <1>4. ASSUME NEW r \in Slots, ServeRefresh(r) \/ Lose(r) PROVE OneRunning'
    <2>1. refreshing' = refreshing
      BY <1>4 DEF ServeRefresh, Lose, page
    <2>2. /\ \A q \in Slots \ {r} : calls'[q] = calls[q]
          /\ \/ calls[r].at \in {"sent", "answered"} /\ calls'[r].at = "answered"
             \/ calls[r].at \in {"refreshing", "refreshed"} /\ calls'[r].at = "refreshed"
      BY <1>4, ServeRefreshEffect, LoseEffect DEF ServeRefresh, Moved
    <2>3. Running' = Running /\ Queue' = Queue
      BY <2>2 DEF Running, Queue
    <2> QED
      BY <2>1, <2>3 DEF OneRunning
  <1>5. ASSUME NEW r \in Slots, ReceiveOk(r) \/ ReceiveError(r) PROVE OneRunning'
    <2>1. refreshing' = refreshing /\ r \notin Running \cup Queue
      BY <1>5 DEF ReceiveOk, ReceiveError, page, Running, Queue
    <2>2. (\A q \in Slots \ {r} : calls'[q] = calls[q]) /\ calls'[r].at = "free"
      BY <1>5, EndEffect, TokensTyped DEF Over
    <2> QED
      BY <2>1, <2>2, OutsideStays
  <1>6. ASSUME NEW r \in Slots, Receive401(r) PROVE OneRunning'
    <2>1. calls[r].at = "answered" /\ r \notin Running \cup Queue
      BY <1>6 DEF Receive401, Running, Queue
    <2>2. CASE Over({r}) /\ UNCHANGED refreshing
      BY <2>1, <2>2, OutsideStays, TokensTyped DEF Over
    <2>3. CASE refreshing /\ Moved(r, "queued", calls[r].answer) /\ UNCHANGED refreshing
      <3>1. Running' = Running
        BY <2>1, <2>3 DEF Moved, Running
      <3> QED
        BY <2>3, <3>1 DEF OneRunning
    <2>4. CASE ~refreshing /\ refreshing' = TRUE /\ \E answer : Moved(r, "refreshing", answer)
      <3>1. Running = {}
        BY <2>4 DEF OneRunning
      <3>2. Running' = {r}
        BY <2>4, <3>1 DEF Moved, Running
      <3> QED
        BY <2>4, <3>2 DEF OneRunning
    <2> QED
      BY <1>6, <2>2, <2>3, <2>4, RefusedEffect
  <1>7. ASSUME NEW r \in Slots, RefreshOk(r) \/ RefreshFailed(r) PROVE OneRunning'
    <2>1. refreshing' = FALSE /\ r \in Running
      BY <1>7 DEF RefreshOk, RefreshFailed, Running
    <2>2. Running = {r}
      BY <2>1 DEF OneRunning
    <2>3. \A q \in Slots : IF q \in Queue \cup {r} THEN calls'[q].at \in {"sent", "free"}
                                                 ELSE calls'[q] = calls[q]
      BY <1>7, ResendEffect, EndEffect, TokensTyped DEF Resends, Over
    <2>4. Running' = {} /\ Queue' = {}
      BY <2>2, <2>3 DEF Running, Queue
    <2> QED
      BY <2>1, <2>4 DEF OneRunning
  <1> QED
    BY <1>1, <1>2, <1>3, <1>4, <1>5, <1>6, <1>7 DEF Next, Receive

LEMMA AlwaysOneRunning == Spec => []OneRunning
  <1>1. Init => OneRunning
    BY TokensTyped DEF Init, OneRunning, Running, Queue
  <1> QED
    BY <1>1, AlwaysTyped, StepOneRunning, PTL DEF Spec

(* However the 401s of the calls interleave, one refresh runs at a time,    *)
(* isRefreshing says so, and no call waits for one that is over.            *)
THEOREM RefreshIsOne == Spec => []OneRefresh
  <1>1. OneRunning => OneRefresh
    <2> SUFFICES ASSUME OneRunning PROVE OneRefresh
      OBVIOUS
    <2>1. refreshing => Cardinality(Running) = 1
      BY FS_Singleton DEF OneRunning
    <2>2. ~refreshing => Cardinality(Running) = 0 /\ Queue = {}
      BY FS_EmptySet DEF OneRunning
    <2> QED
      BY <2>1, <2>2 DEF OneRefresh, Running
  <1> QED
    BY <1>1, AlwaysOneRunning, PTL

-----------------------------------------------------------------------------
(* The two tokens of a session.                                             *)

LEMMA StepInPairs == Typed /\ InPairs /\ [Next]_vars => InPairs'
  <1> SUFFICES ASSUME Typed, InPairs, [Next]_vars PROVE InPairs'
    OBVIOUS
  <1>1. CASE UNCHANGED <<store, how, leaving>>
    BY <1>1 DEF InPairs, LoginHasTokens
  <1>2. store \in [token : Tokens, refresh : Tokens, user : Somebody]
        /\ calls \in [Slots -> CallTypes] /\ NoToken.of = "nobody"
    BY CallsTyped DEF Typed, TypeOK, NoToken
  <1>3. CASE Logout
    BY <1>3 DEF Logout, NoStore, InPairs, LoginHasTokens
  <1>4. CASE Reload
    BY <1>4 DEF Reload, InPairs, LoginHasTokens
  <1>5. ASSUME NEW r \in Slots, ReceiveOk(r), ~UNCHANGED <<store, how, leaving>> PROVE InPairs'
    <2>1. Enter(calls[r]) /\ Granted(calls[r]) /\ calls[r].kind \in {"login", "register"}
      BY <1>2, <1>5 DEF ReceiveOk, Typed, AnswersGood, CallTypes
    <2>2. /\ store'.token = calls[r].answer.token /\ store'.token # NoToken
          /\ how' = calls[r].kind
          /\ how' = "login" => store'.refresh # NoToken
      BY <1>2, <2>1, Lives DEF Enter, Granted
    <2> QED
      BY <2>2 DEF InPairs, LoginHasTokens
  <1>6. ASSUME NEW r \in Slots, Receive401(r), ~UNCHANGED <<store, how, leaving>> PROVE InPairs'
    <2>1. store.refresh = NoToken /\ ClearTokens /\ UNCHANGED <<how, leaving>>
      BY <1>6, RefusedEffect DEF Receive401
    <2>2. store'.token = NoToken /\ store'.refresh = NoToken
      BY <1>2, <2>1 DEF ClearTokens
    <2> QED
      BY <2>1, <2>2 DEF InPairs, LoginHasTokens
  <1>7. ASSUME NEW r \in Slots, RefreshOk(r) PROVE InPairs'
    <2>1. Renewed(calls[r])
      BY <1>7 DEF RefreshOk, Typed, AnswersGood
    <2>2. store'.token # NoToken /\ store'.refresh # NoToken
      BY <1>2, <1>7, <2>1, Lives DEF RefreshOk, Renewed
    <2> QED
      BY <2>2 DEF InPairs, LoginHasTokens
  <1>8. ASSUME NEW r \in Slots, RefreshFailed(r) PROVE InPairs'
    <2>1. store'.token = NoToken /\ store'.refresh = NoToken /\ leaving' = TRUE
      BY <1>2, <1>8 DEF RefreshFailed, ClearTokens
    <2> QED
      BY <2>1 DEF InPairs, LoginHasTokens
  <1>9. \A r \in Slots : StartCall(r) \/ Serve(r) \/ ServeRefresh(r) \/ Lose(r) \/ ReceiveError(r)
          => UNCHANGED <<store, how, leaving>>
    BY DEF StartCall, Serve, ServeRefresh, Lose, ReceiveError, page
  <1>10. Tick \/ UNCHANGED vars => UNCHANGED <<store, how, leaving>>
    BY DEF Tick, vars, page
  <1> QED
    BY <1>1, <1>3, <1>4, <1>5, <1>6, <1>7, <1>8, <1>9, <1>10 DEF Next, Receive

(* A page that shows a user who logged in has both tokens, or leaves.       *)
THEOREM LoginTokens == Spec => []LoginHasTokens
  <1>1. Init => InPairs
    BY DEF Init, NoStore, InPairs, LoginHasTokens
  <1>2. InPairs => LoginHasTokens
    BY DEF InPairs
  <1> QED
    BY <1>1, <1>2, AlwaysTyped, StepInPairs, PTL DEF Spec

-----------------------------------------------------------------------------
(* Whose the tokens are.                                                    *)

(* What LoggedIn says of one call.                                          *)
OfUser(r) ==
  calls[r].at # "free" =>
    /\ calls[r].kind = "api" /\ calls[r].token.of \in {shown, "nobody"}
    /\ calls[r].at = "refreshing" => calls[r].answer.refresh.of \in {shown, "nobody"}
    /\ calls[r].at = "refreshed" /\ calls[r].answer.status = "ok"
         => calls[r].answer.token.of = shown

LEMMA LoggedInKept ==
  ASSUME LoggedIn, shown' = shown, store'.user = store.user,
         {store'.token.of, store'.refresh.of} \subseteq {shown, "nobody"},
         \A q \in Slots : calls'[q] = calls[q] \/ OfUser(q)'
  PROVE  LoggedIn'
  BY DEF LoggedIn, OfUser, Open

LEMMA StepOurs == Typed /\ OneRunning /\ InPairs /\ Ours /\ [Next]_vars => Ours'
  <1> SUFFICES ASSUME Typed, OneRunning, InPairs, Ours, [Next]_vars, ~crossed'
               PROVE  IF shown' = "nobody" THEN LoggedOut' ELSE LoggedIn'
    BY DEF Ours
  <1>0. /\ store \in [token : Tokens, refresh : Tokens, user : Somebody]
        /\ calls \in [Slots -> CallTypes] /\ NoToken.of = "nobody"
        /\ Free.at = "free" /\ now \in 0 .. MaxTime /\ users \subseteq Accounts
        /\ Failed.status = "error"
    BY CallsTyped, TokensTyped, AnswersTyped DEF Typed, TypeOK, NoToken
  <1>1. CASE UNCHANGED <<store, shown, calls, crossed>>
    BY <1>1 DEF Ours, LoggedIn, LoggedOut, Open
  <1>2. CASE Logout
    <2>1. Open' = {} /\ shown' = "nobody" /\ store'.token = NoToken /\ store'.refresh = NoToken
      BY <1>2 DEF Logout, NoStore, Open
    <2> QED
      BY <2>1 DEF LoggedOut
  <1>3. CASE Reload
    <2>1. Open' = {} /\ store' = store /\ ~crossed
      BY <1>0, <1>3, ReloadEffect DEF Reload, Over, Open
    <2>2. CASE store.token = NoToken
      BY <1>3, <2>1, <2>2 DEF Reload, InPairs, LoggedOut
    <2>3. CASE store.token # NoToken
      <3>1. shown # "nobody" /\ LoggedIn
        BY <2>1, <2>3 DEF Ours, LoggedOut
      <3>2. shown' = shown
        BY <1>3, <2>3, <3>1 DEF Reload, LoggedIn
      <3> QED
        BY <2>1, <3>1, <3>2 DEF LoggedIn
    <2> QED
      BY <2>2, <2>3
  <1>4. ASSUME NEW r \in Slots, StartCall(r)
        PROVE  IF shown' = "nobody" THEN LoggedOut' ELSE LoggedIn'
    <2>1. /\ ~crossed /\ store' = store /\ shown' = shown /\ Started(r)
          /\ ~(shown = "nobody" /\ \E q \in Open : calls[q].kind # "api")
      BY <1>4, StartEffect DEF StartCall, page
    <2>2. CASE shown = "nobody"
      <3>1. LoggedOut /\ Open = {}
        BY <2>1, <2>2 DEF Ours, LoggedOut
      <3>2. Open' = {r}
        BY <2>1, <3>1 DEF Started, Open
      <3> QED
        BY <2>1, <2>2, <3>1, <3>2 DEF Started, LoggedOut
    <2>3. CASE shown # "nobody"
      <3>1. LoggedIn
        BY <2>1, <2>3 DEF Ours
      <3>2. OfUser(r)'
        BY <2>1, <2>3, <3>1 DEF Started, OfUser, LoggedIn
      <3> QED
        BY <2>1, <2>3, <3>1, <3>2, LoggedInKept DEF Started, LoggedIn
    <2> QED
      BY <2>2, <2>3
  <1>5. ASSUME NEW r \in Slots, NEW answer,
               UNCHANGED <<store, shown, crossed>>,
               \/ calls[r].at \in {"sent", "answered"} /\ Moved(r, "answered", answer)
               \/ /\ calls[r].at \in {"refreshing", "refreshed"} /\ Moved(r, "refreshed", answer)
                  /\ answer = Failed \/ (calls[r].at = "refreshing"
                                         /\ answer \in RefreshToken(calls[r].answer.refresh))
        PROVE  IF shown' = "nobody" THEN LoggedOut' ELSE LoggedIn'
    <2>1. r \in Open /\ Open' = Open
      BY <1>5 DEF Moved, Open
    <2>2. CASE shown = "nobody"
      <3>1. LoggedOut /\ calls[r].at \in {"sent", "answered"}
        BY <1>5, <2>1, <2>2 DEF Ours, LoggedOut
      <3> QED
        BY <1>5, <2>1, <2>2, <3>1 DEF Moved, LoggedOut
    <2>3. CASE shown # "nobody"
      <3>1. LoggedIn
        BY <1>5, <2>3 DEF Ours
      <3>2. calls[r].at = "refreshing" /\ answer.status = "ok"
              /\ answer \in RefreshToken(calls[r].answer.refresh) => answer.token.of = shown
        <4>1. calls[r].at = "refreshing" => calls[r].answer.refresh.of \in {shown, "nobody"}
          BY <2>1, <3>1 DEF LoggedIn
        <4>2. calls[r].answer.refresh \in Tokens
          BY <1>0 DEF CallTypes
        <4> QED
          BY <1>0, <4>1, <4>2, RefreshAnswers, Lives
      <3>3. OfUser(r)'
        BY <1>0, <1>5, <2>1, <3>1, <3>2 DEF Moved, OfUser, LoggedIn
      <3> QED
        BY <1>5, <2>3, <3>1, <3>3, LoggedInKept DEF Moved, LoggedIn
    <2> QED
      BY <2>2, <2>3
  <1>6. ASSUME NEW r \in Slots, Serve(r) \/ ServeRefresh(r) \/ Lose(r)
        PROVE  IF shown' = "nobody" THEN LoggedOut' ELSE LoggedIn'
    <2>1. UNCHANGED <<store, shown, crossed>>
      BY <1>6 DEF Serve, ServeRefresh, Lose, page
    <2>2. CASE Serve(r)
      BY <1>5, <2>1, <2>2, ServeEffect DEF Serve
    <2>3. CASE ServeRefresh(r)
      BY <1>5, <2>1, <2>3, ServeRefreshEffect DEF ServeRefresh
    <2>4. CASE Lose(r)
      BY <1>5, <2>1, <2>4, LoseEffect
    <2> QED
      BY <1>6, <2>2, <2>3, <2>4
  <1>7. ASSUME NEW r \in Slots, Over({r}), UNCHANGED <<shown, crossed>>,
               UNCHANGED store \/ ClearTokens
        PROVE  IF shown' = "nobody" THEN LoggedOut' ELSE LoggedIn'
    <2>1. /\ store'.user = store.user
          /\ store'.token \in {store.token, NoToken} /\ store'.refresh \in {store.refresh, NoToken}
      BY <1>0, <1>7 DEF ClearTokens
    <2>2. Open' \subseteq Open /\ \A q \in Open' : calls'[q] = calls[q]
      BY <1>0, <1>7 DEF Over, Open
    <2>3. CASE shown = "nobody"
      BY <1>7, <2>1, <2>2, <2>3 DEF Ours, LoggedOut
    <2>4. CASE shown # "nobody"
      <3>1. LoggedIn
        BY <1>7, <2>4 DEF Ours
      <3> QED
        BY <1>0, <1>7, <2>1, <2>4, <3>1, LoggedInKept DEF Over, LoggedIn, OfUser
    <2> QED
      BY <2>3, <2>4
  <1>8. ASSUME NEW r \in Slots, ReceiveOk(r)
        PROVE  IF shown' = "nobody" THEN LoggedOut' ELSE LoggedIn'
    <2>1. Over({r}) /\ UNCHANGED crossed
      BY <1>8, EndEffect DEF ReceiveOk
    <2>2. CASE calls[r].kind = "api"
      BY <1>7, <1>8, <2>1, <2>2 DEF ReceiveOk
    <2>3. CASE calls[r].kind # "api"
      <3>1. /\ Enter(calls[r]) /\ Granted(calls[r]) /\ r \in Open
        BY <1>8, <2>3 DEF ReceiveOk, Typed, AnswersGood, Open
      <3>2. LoggedOut
        BY <2>1, <2>3, <3>1 DEF Ours, LoggedIn
      <3>3. Open' = {}
        BY <1>0, <2>1, <3>1, <3>2 DEF LoggedOut, Over, Open
      <3>4. /\ shown' = calls[r].as /\ store'.user = calls[r].as /\ shown' # "nobody"
            /\ store'.token.of = calls[r].as
            /\ store'.refresh \in {NoToken, calls[r].answer.refresh}
            /\ calls[r].answer.refresh.of \in {"nobody", calls[r].as}
        BY <1>0, <3>1, <3>2, Lives DEF Enter, Granted, LoggedOut
      <3> QED
        BY <1>0, <3>3, <3>4 DEF LoggedIn
    <2> QED
      BY <2>2, <2>3
  <1>9. ASSUME NEW r \in Slots, Receive401(r)
        PROVE  IF shown' = "nobody" THEN LoggedOut' ELSE LoggedIn'
    <2>1. UNCHANGED <<shown, crossed>> /\ r \in Open
      BY <1>9 DEF Receive401, Open
    <2>2. CASE Over({r}) /\ (UNCHANGED store \/ ClearTokens)
      BY <1>7, <2>1, <2>2
    <2>3. CASE /\ refreshing \/ store.refresh # NoToken
               /\ UNCHANGED store
               /\ \/ Moved(r, "queued", calls[r].answer)
                  \/ Moved(r, "refreshing", Answer("401", NoToken, store.refresh))
      <3>1. shown # "nobody"
        <4>1. ASSUME shown = "nobody" PROVE FALSE
          <5>1. LoggedOut
            BY <2>1, <4>1 DEF Ours
          <5>2. Running = {}
            BY <5>1 DEF LoggedOut, Open, Running
          <5> QED
            BY <2>3, <5>1, <5>2 DEF LoggedOut, OneRunning
        <4> QED
          BY <4>1
      <3>2. LoggedIn
        BY <2>1, <3>1 DEF Ours
      <3>3. Answer("401", NoToken, store.refresh).refresh = store.refresh
        BY DEF Answer
      <3>4. OfUser(r)'
        BY <2>1, <2>3, <3>2, <3>3 DEF Moved, OfUser, LoggedIn
      <3> QED
        BY <2>1, <2>3, <3>1, <3>2, <3>4, LoggedInKept DEF Moved, LoggedIn
    <2> QED
      BY <1>9, <2>2, <2>3, RefusedEffect
  <1>10. ASSUME NEW r \in Slots, ReceiveError(r)
         PROVE  IF shown' = "nobody" THEN LoggedOut' ELSE LoggedIn'
    BY <1>7, <1>10, EndEffect DEF ReceiveError, page
  <1>11. ASSUME NEW r \in Slots, RefreshOk(r) \/ RefreshFailed(r)
         PROVE  IF shown' = "nobody" THEN LoggedOut' ELSE LoggedIn'
    <2>1. /\ r \in Open /\ calls[r].at = "refreshed" /\ shown' = shown /\ ~crossed
      BY <1>11 DEF RefreshOk, RefreshFailed, Open
    <2>2. shown # "nobody" /\ LoggedIn
      BY <2>1 DEF Ours, LoggedOut
    <2>3. CASE RefreshOk(r)
      <3>1. Resends(r) /\ calls[r].answer.status = "ok" /\ Renewed(calls[r])
        BY <2>3, ResendEffect DEF RefreshOk, Typed, AnswersGood
      <3>2. calls[r].answer.token.of = shown /\ calls[r].answer.refresh.of = shown
        BY <2>1, <2>2, <3>1 DEF LoggedIn, Renewed
      <3>3. /\ store'.token.of = shown /\ store'.refresh.of = shown /\ store'.user = store.user
        BY <1>0, <2>3, <3>2 DEF RefreshOk
      <3>4. ASSUME NEW q \in Queue \cup {r} PROVE OfUser(q)'
        <4>1. q \in Open
          BY <2>1 DEF Queue, Open
        <4> QED
          BY <2>1, <2>2, <3>1, <3>2, <4>1 DEF Resends, OfUser, LoggedIn, Open
      <3> QED
        BY <2>1, <2>2, <3>1, <3>3, <3>4, LoggedInKept DEF Resends
    <2>4. CASE RefreshFailed(r)
      <3>1. Over(Queue \cup {r})
        BY <2>4, EndEffect
      <3>2. store'.token = NoToken /\ store'.refresh = NoToken /\ store'.user = store.user
        BY <1>0, <2>4 DEF RefreshFailed, ClearTokens
      <3> QED
        BY <1>0, <2>1, <2>2, <3>1, <3>2, LoggedInKept DEF Over, OfUser
    <2> QED
      BY <1>11, <2>3, <2>4
  <1>12. CASE Tick \/ UNCHANGED vars
    BY <1>1, <1>12 DEF Tick, vars, page
  <1> QED
    BY <1>2, <1>3, <1>4, <1>6, <1>8, <1>9, <1>10, <1>11, <1>12 DEF Next, Receive

LEMMA AlwaysOurs == Spec => []Ours
  <1>1. Init => Ours
    BY TokensTyped DEF Init, NoStore, Ours, LoggedOut, Open
  <1>2. Init => InPairs
    BY DEF Init, NoStore, InPairs, LoginHasTokens
  <1> QED
    BY <1>1, <1>2, AlwaysTyped, AlwaysOneRunning, StepInPairs, StepOurs, PTL DEF Spec

(* Unless a logout or a second form crossed an open call, the page never    *)
(* acts with the tokens of another user than the one it shows.              *)
THEOREM TokensAreOurs == Spec => []TokensOfUser
  <1>1. Ours => TokensOfUser
    BY DEF Ours, LoggedIn, TokensOfUser
  <1> QED
    BY <1>1, AlwaysOurs, PTL

-----------------------------------------------------------------------------
(* How old the tokens are.                                                  *)

LEMMA Clock ==
  ASSUME Typed
  PROVE  /\ now \in Nat /\ Expiry \in Nat /\ now + Expiry \in Nat /\ NoToken.exp = 0
         /\ \A t \in Tokens : t.exp \in Nat
         /\ store.token \in Tokens /\ store.refresh \in Tokens
         /\ \A r \in Slots : calls[r].token \in Tokens /\ calls[r].answer.token \in Tokens
         /\ now' = now + 1 => now' \in Nat /\ now + Expiry <= now' + Expiry
  <1>0. now \in 0 .. MaxTime
    BY DEF Typed, TypeOK
  <1>1. now \in Nat /\ Expiry \in Nat /\ NoToken.exp = 0 /\ MaxTime + Expiry + RefreshLife \in Nat
    BY <1>0, Lives, TokensTyped DEF NoToken
  <1>2. \A t \in Tokens : t.exp \in Nat
    BY <1>1 DEF Tokens
  <1>3. /\ store.token \in Tokens /\ store.refresh \in Tokens
        /\ \A r \in Slots : calls[r].token \in Tokens /\ calls[r].answer.token \in Tokens
    BY CallsTyped DEF Typed, TypeOK, CallTypes
  <1> QED
    BY <1>1, <1>2, <1>3

(* What TokensAge says of one call.                                         *)
CallAge(r) ==
  /\ calls[r].at \in {"answered", "refreshed"} => calls[r].answer.token.exp <= now + Expiry
  /\ calls[r].kind = "api" =>
       /\ calls[r].at = "answered" /\ calls[r].answer.status = "401" => calls[r].token.exp <= now
       /\ calls[r].at \in {"queued", "refreshing", "refreshed"} => calls[r].token.exp <= now

LEMMA AgeKept ==
  ASSUME TokensAge, now' = now,
         store'.token = store.token \/ store'.token.exp <= now + Expiry,
         \A q \in Slots : calls'[q] = calls[q] \/ CallAge(q)'
  PROVE  TokensAge'
  BY DEF TokensAge, CallAge

LEMMA StepAge == Typed /\ TokensAge /\ [Next]_vars => TokensAge'
  <1> SUFFICES ASSUME Typed, TokensAge, [Next]_vars PROVE TokensAge'
    OBVIOUS
  <1>0. /\ store \in [token : Tokens, refresh : Tokens, user : Somebody]
        /\ calls \in [Slots -> CallTypes] /\ NoToken.exp <= now + Expiry
        /\ Free.at = "free" /\ now \in 0 .. MaxTime /\ users \subseteq Accounts
        /\ Failed.status = "error" /\ Failed.token = NoToken
    BY ZenonT(40), CallsTyped, TokensTyped, AnswersTyped, Clock DEF Typed, TypeOK
  <1>1. CASE UNCHANGED <<now, store, calls>>
    BY <1>1 DEF TokensAge
  <1>2. CASE Tick
    <2>1. now' = now + 1 /\ UNCHANGED <<store, calls>>
      BY <1>2 DEF Tick
    <2>2. /\ now \in Nat /\ Expiry \in Nat /\ \A t \in Tokens : t.exp \in Nat
          /\ store.token \in Tokens
          /\ \A r \in Slots : calls[r].token \in Tokens /\ calls[r].answer.token \in Tokens
      BY Clock
    <2>3. \A t \in Tokens : /\ t.exp <= now + Expiry => t.exp <= now' + Expiry
                            /\ t.exp <= now => t.exp <= now'
      BY <2>1, <2>2
    <2> QED
      BY <2>1, <2>2, <2>3 DEF TokensAge
  <1>3. CASE Logout
    BY <1>0, <1>3, AgeKept DEF Logout, NoStore
  <1>4. CASE Reload
    <2>1. Over(Slots) /\ UNCHANGED <<now, store>>
      BY <1>4, ReloadEffect DEF Reload
    <2> QED
      BY <1>0, <2>1 DEF TokensAge, Over
  <1>5. ASSUME NEW r \in Slots, NEW S \in SUBSET Slots, Over(S), now' = now,
               store'.token \in {store.token, NoToken}
        PROVE  TokensAge'
    <2>1. \A q \in Slots : calls'[q] = calls[q] \/ CallAge(q)'
      BY <1>0, <1>5 DEF Over, CallAge
    <2> QED
      BY <1>0, <1>5, <2>1, AgeKept
  <1>6. ASSUME NEW r \in Slots, StartCall(r) PROVE TokensAge'
    <2>1. Started(r) /\ UNCHANGED <<now, store>>
      BY <1>6, StartEffect DEF StartCall
    <2> QED
      BY <2>1, AgeKept DEF Started, CallAge
  <1>7. ASSUME NEW r \in Slots, Serve(r) PROVE TokensAge'
    <2>1. PICK res \in Results(calls[r]) : Moved(r, "answered", res[2])
      BY <1>7, ServeEffect
    <2>2. /\ res[2].token.exp <= now + Expiry
          /\ calls[r].kind = "api" /\ res[2].status = "401" => calls[r].token.exp <= now
      BY <1>0, <1>7, ServerAnswers DEF Serve, Typed, CallsNamed, Open
    <2>3. now' = now /\ store' = store
      BY <1>7 DEF Serve
    <2> QED
      BY <2>1, <2>2, <2>3, AgeKept DEF Moved, CallAge
  <1>8. ASSUME NEW r \in Slots, ServeRefresh(r) PROVE TokensAge'
    <2>1. PICK a \in RefreshToken(calls[r].answer.refresh) : Moved(r, "refreshed", a)
      BY <1>8, ServeRefreshEffect
    <2>2. calls[r].answer.refresh \in Tokens
      BY <1>0 DEF CallTypes
    <2>3. now' = now /\ store' = store /\ calls[r].at = "refreshing" /\ a.token.exp <= now + Expiry
      BY <1>0, <1>8, <2>2, RefreshAnswers DEF ServeRefresh
    <2> QED
      BY <2>1, <2>3, AgeKept DEF Moved, CallAge, TokensAge
  <1>9. ASSUME NEW r \in Slots, Lose(r) PROVE TokensAge'
    <2>1. now' = now /\ store' = store
      BY <1>9 DEF Lose
    <2> QED
      BY <1>0, <1>9, <2>1, LoseEffect, AgeKept DEF Moved, CallAge, TokensAge
  <1>10. ASSUME NEW r \in Slots, ReceiveOk(r) PROVE TokensAge'
    <2>1. Over({r}) /\ now' = now /\ calls[r].at = "answered"
      BY <1>10, EndEffect DEF ReceiveOk
    <2>2. store' = store \/ store'.token.exp <= now + Expiry
      BY <1>0, <1>10, <2>1 DEF ReceiveOk, Enter, TokensAge
    <2> QED
      BY <1>0, <2>1, <2>2, AgeKept DEF Over, CallAge
  <1>11. ASSUME NEW r \in Slots, Receive401(r) PROVE TokensAge'
    <2>1. now' = now
      BY <1>11 DEF Receive401
    <2>2. CASE Over({r})
      <3>1. store' = store \/ ClearTokens
        BY <1>11, RefusedEffect
      <3>2. store'.token \in {store.token, NoToken}
        BY <1>0, <3>1 DEF ClearTokens
      <3> QED
        BY <1>5, <2>1, <2>2, <3>2
    <2>3. CASE /\ store' = store
               /\ \E at \in {"queued", "refreshing"} : \E answer : Moved(r, at, answer)
      BY <1>11, <2>1, <2>3, AgeKept DEF Receive401, Moved, CallAge, TokensAge
    <2> QED
      BY <1>11, <2>2, <2>3, RefusedEffect
  <1>12. ASSUME NEW r \in Slots, ReceiveError(r) PROVE TokensAge'
    BY <1>5, <1>12, EndEffect DEF ReceiveError
  <1>13. ASSUME NEW r \in Slots, RefreshOk(r) PROVE TokensAge'
    <2>1. Resends(r) /\ now' = now /\ calls[r].at = "refreshed"
      BY <1>13, ResendEffect DEF RefreshOk
    <2>2. store'.token.exp <= now + Expiry
      BY <1>0, <1>13, <2>1 DEF RefreshOk, TokensAge
    <2> QED
      BY <2>1, <2>2, AgeKept DEF Resends, CallAge
  <1>14. ASSUME NEW r \in Slots, RefreshFailed(r) PROVE TokensAge'
    <2>1. store'.token = NoToken /\ now' = now /\ Queue \cup {r} \in SUBSET Slots
      BY <1>0, <1>14 DEF RefreshFailed, ClearTokens, Queue
    <2> QED
      BY <1>5, <1>14, <2>1, EndEffect
  <1> QED
    BY <1>1, <1>2, <1>3, <1>4, <1>6, <1>7, <1>8, <1>9, <1>10, <1>11, <1>12, <1>13, <1>14
       DEF Next, Receive, vars, page

(* Nothing is asked of tokens where nobody is shown, nothing is open, or    *)
(* there is no refresh token and no refresh.                                *)
LEMMA GrowIdle ==
  ASSUME \/ shown' = "nobody" \/ Open' = {}
         \/ store'.refresh = NoToken /\ Running' = {}
  PROVE  TokensGrow'
  <1>1. Open' = {} => Running' = {}
    BY DEF Open, Running
  <1> QED
    BY <1>1 DEF TokensGrow

(* A step of r that leaves the storage and the tokens of the calls alone.   *)
LEMMA GrowKept ==
  ASSUME TokensGrow, UNCHANGED <<store, shown, crossed>>, NEW r \in Slots,
         \A q \in Slots \ {r} : calls'[q] = calls[q],
         r \in Open' => /\ r \in Open /\ calls'[r].token = calls[r].token,
         r \in Running' => store.refresh # NoToken,
         r \in Running' /\ calls'[r].at = "refreshed" /\ calls'[r].answer.status = "ok"
           /\ ~crossed /\ shown # "nobody"
           => /\ store.token.exp <= calls'[r].answer.token.exp
              /\ Expiry # 0 => calls'[r].token.exp < calls'[r].answer.token.exp
  PROVE  TokensGrow'
  <1> SUFFICES ASSUME ~crossed, shown # "nobody"
               PROVE  /\ Running' # {} => store.refresh # NoToken
                      /\ store.refresh # NoToken => \A q \in Open' : calls'[q].token.exp <= store.token.exp
                      /\ \A q \in Running' :
                           calls'[q].at = "refreshed" /\ calls'[q].answer.status = "ok" =>
                             /\ store.token.exp <= calls'[q].answer.token.exp
                             /\ Expiry # 0 => calls'[q].token.exp < calls'[q].answer.token.exp
    BY DEF TokensGrow
  <1>1. /\ \A q \in Open' \ {r} : q \in Open /\ calls'[q] = calls[q]
        /\ \A q \in Running' \ {r} : q \in Running /\ calls'[q] = calls[q]
    BY DEF Open, Running
  <1>2. Running' # {} => store.refresh # NoToken
    BY <1>1 DEF TokensGrow
  <1>3. store.refresh # NoToken => \A q \in Open' : calls'[q].token.exp <= store.token.exp
    BY <1>1 DEF TokensGrow
  <1>4. \A q \in Running' :
          calls'[q].at = "refreshed" /\ calls'[q].answer.status = "ok" =>
            /\ store.token.exp <= calls'[q].answer.token.exp
            /\ Expiry # 0 => calls'[q].token.exp < calls'[q].answer.token.exp
    BY <1>1 DEF TokensGrow
  <1> QED
    BY <1>2, <1>3, <1>4

(* While a refresh runs and nothing was crossed, a user is shown.           *)
LEMMA RunningShown ==
  ASSUME Ours, NEW r \in Running \cup Queue, ~crossed
  PROVE  shown # "nobody" /\ LoggedIn /\ r \in Open /\ calls[r].kind = "api"
  BY DEF Ours, LoggedOut, LoggedIn, Running, Queue, Open

LEMMA StepGrow ==
  Typed /\ OneRunning /\ Ours /\ TokensAge /\ TokensGrow /\ [Next]_vars => TokensGrow'
  <1> SUFFICES ASSUME Typed, OneRunning, Ours, TokensAge, TokensGrow, [Next]_vars PROVE TokensGrow'
    OBVIOUS
  <1>0. /\ store \in [token : Tokens, refresh : Tokens, user : Somebody]
        /\ calls \in [Slots -> CallTypes] /\ Free.at = "free"
        /\ now \in 0 .. MaxTime /\ users \subseteq Accounts /\ Failed.status = "error"
    BY CallsTyped, TokensTyped, AnswersTyped DEF Typed, TypeOK
  <1>1. CASE UNCHANGED <<store, shown, crossed, calls>>
    BY <1>1 DEF TokensGrow, Open, Running
  <1>2. CASE Logout
    BY <1>2, GrowIdle DEF Logout
  <1>3. CASE Reload
    <2>1. Open' = {}
      BY <1>0, <1>3, ReloadEffect DEF Over, Open
    <2> QED
      BY <2>1, GrowIdle
  <1>4. ASSUME NEW r \in Slots, StartCall(r) PROVE TokensGrow'
    <2>1. /\ Started(r) /\ UNCHANGED <<store, shown>> /\ store.token.exp <= store.token.exp
          /\ crossed => crossed'
      <3>1. Started(r) /\ UNCHANGED <<store, shown>>
        BY <1>4, StartEffect DEF StartCall, page
      <3>2. crossed => crossed'
        BY <1>4 DEF StartCall
      <3>3. store.token.exp <= store.token.exp
        BY Clock
      <3> QED
        BY <3>1, <3>2, <3>3
    <2>2. /\ Open' \subseteq Open \cup {r} /\ Running' \subseteq Running \ {r}
          /\ calls'[r].token = store.token
          /\ \A q \in Slots \ {r} : calls'[q] = calls[q]
      BY <2>1 DEF Started, Open, Running
    <2> SUFFICES ASSUME ~crossed', shown # "nobody"
                 PROVE  /\ Running' # {} => store.refresh # NoToken
                        /\ store.refresh # NoToken => \A q \in Open' : calls'[q].token.exp <= store.token.exp
                        /\ \A q \in Running' :
                             calls'[q].at = "refreshed" /\ calls'[q].answer.status = "ok" =>
                               /\ store.token.exp <= calls'[q].answer.token.exp
                               /\ Expiry # 0 => calls'[q].token.exp < calls'[q].answer.token.exp
      BY <2>1 DEF TokensGrow
    <2>3. store.refresh # NoToken => \A q \in Open' : calls'[q].token.exp <= store.token.exp
      BY <2>1, <2>2 DEF TokensGrow, Open
    <2> QED
      BY <2>1, <2>2, <2>3 DEF TokensGrow, Running
  <1>5. ASSUME NEW r \in Slots, Serve(r) PROVE TokensGrow'
    <2>1. PICK answer : Moved(r, "answered", answer)
      BY <1>5, ServeEffect
    <2>2. UNCHANGED <<store, shown, crossed>> /\ r \in Open
      BY <1>5 DEF Serve, page, Open
    <2> QED
      BY <2>1, <2>2, GrowKept DEF Moved, Running
  <1>6. ASSUME NEW r \in Slots, ServeRefresh(r) PROVE TokensGrow'
    <2>1. PICK a \in RefreshToken(calls[r].answer.refresh) : Moved(r, "refreshed", a)
      BY <1>6, ServeRefreshEffect
    <2>2. UNCHANGED <<store, shown, crossed>> /\ calls[r].at = "refreshing" /\ r \in Open /\ r \in Running
      BY <1>6 DEF ServeRefresh, page, Open, Running
    <2>3. calls[r].answer.refresh \in Tokens
      BY <1>0 DEF CallTypes
    <2>4. a.status = "ok" => a.token.exp = now + Expiry
      BY <1>0, <2>1, <2>3, RefreshAnswers
    <2>5. store.token.exp <= now + Expiry
      BY DEF TokensAge
    <2>6. ~crossed => store.refresh # NoToken /\ calls[r].token.exp <= now
      BY <2>2, RunningShown DEF TokensGrow, TokensAge
    <2>7. ~crossed /\ Expiry # 0 => calls[r].token.exp < now + Expiry
      <3>1. now \in Nat /\ Expiry \in Nat /\ calls[r].token.exp \in Nat
        BY Clock
      <3> QED
        BY <2>6, <3>1
    <2>8. crossed => TokensGrow'
      BY <2>2 DEF TokensGrow
    <2> QED
      BY <2>1, <2>2, <2>4, <2>5, <2>6, <2>7, <2>8, GrowKept DEF Moved
  <1>7. ASSUME NEW r \in Slots, Lose(r) PROVE TokensGrow'
    <2>1. UNCHANGED <<store, shown, crossed>> /\ r \in Open
      BY <1>7 DEF Lose, page, Open
    <2>2. PICK at : Moved(r, at, Failed) /\ (at \in {"refreshing", "refreshed"} => r \in Running)
      BY <1>7, LoseEffect DEF Running
    <2>3. crossed \/ shown = "nobody" => TokensGrow'
      BY <2>1 DEF TokensGrow
    <2>4. ~crossed /\ shown # "nobody" /\ r \in Running' => store.refresh # NoToken
      BY <2>2 DEF Moved, Running, TokensGrow
    <2> QED
      BY <1>0, <2>1, <2>2, <2>3, <2>4, GrowKept DEF Moved
  <1>8. ASSUME NEW r \in Slots, Over({r}), UNCHANGED <<shown, crossed>>,
               \/ UNCHANGED store
               \/ ClearTokens /\ ~refreshing
        PROVE  TokensGrow'
    <2>1. r \notin Open' /\ r \notin Running' /\ \A q \in Slots \ {r} : calls'[q] = calls[q]
      BY <1>0, <1>8 DEF Over, Open, Running
    <2>2. CASE UNCHANGED store
      BY <1>8, <2>1, <2>2, GrowKept
    <2>3. CASE ClearTokens /\ ~refreshing
      <3>1. Running' = {}
        BY <2>1, <2>3 DEF OneRunning, Running
      <3>2. store'.refresh = NoToken
        BY <1>0, <2>3 DEF ClearTokens
      <3> QED
        BY <3>1, <3>2, GrowIdle
    <2> QED
      BY <1>8, <2>2, <2>3
  <1>9. ASSUME NEW r \in Slots, ReceiveOk(r) PROVE TokensGrow'
    <2>1. Over({r}) /\ UNCHANGED crossed /\ r \in Open
      BY <1>9, EndEffect DEF ReceiveOk, Open
    <2>2. CASE calls[r].kind = "api"
      BY <1>8, <1>9, <2>1, <2>2 DEF ReceiveOk
    <2>3. CASE calls[r].kind # "api" /\ ~crossed
      <3>1. LoggedOut
        BY <2>1, <2>3 DEF Ours, LoggedIn
      <3>2. Open' = {}
        BY <1>0, <2>1, <3>1 DEF LoggedOut, Over, Open
      <3> QED
        BY <3>2, GrowIdle
    <2>4. CASE crossed
      BY <2>1, <2>4 DEF TokensGrow
    <2> QED
      BY <2>2, <2>3, <2>4
  <1>10. ASSUME NEW r \in Slots, Receive401(r) PROVE TokensGrow'
    <2>1. UNCHANGED <<shown, crossed>> /\ r \in Open
      BY <1>10 DEF Receive401, Open
    <2>2. CASE Over({r})
      <3>1. \/ UNCHANGED store
            \/ ClearTokens /\ ~refreshing
            \/ r \in Open'
        BY <1>10, RefusedEffect DEF Moved, Open
      <3>2. r \notin Open'
        BY <1>0, <2>2 DEF Over, Open
      <3> QED
        BY <1>8, <2>1, <2>2, <3>1, <3>2
    <2>3. CASE Moved(r, "queued", calls[r].answer) /\ UNCHANGED store
      BY <2>1, <2>3, GrowKept DEF Moved, Running
    <2>4. CASE /\ Moved(r, "refreshing", Answer("401", NoToken, store.refresh))
               /\ store.refresh # NoToken /\ store' = store
      BY <2>1, <2>4, GrowKept DEF Moved
    <2> QED
      BY <1>10, <2>2, <2>3, <2>4, RefusedEffect
  <1>11. ASSUME NEW r \in Slots, ReceiveError(r) PROVE TokensGrow'
    BY <1>8, <1>11, EndEffect DEF ReceiveError, page
  <1>12. ASSUME NEW r \in Slots, RefreshOk(r) \/ RefreshFailed(r) PROVE TokensGrow'
    <2>1. UNCHANGED <<shown, crossed>> /\ r \in Running
      BY <1>12 DEF RefreshOk, RefreshFailed, Running
    <2>2. Running = {r}
      BY <2>1 DEF OneRunning
    <2>3. CASE RefreshFailed(r)
      <3>1. Running' = {}
        BY <1>0, <2>2, <2>3, EndEffect DEF Over, Running
      <3>2. store'.refresh = NoToken
        BY <1>0, <2>3 DEF RefreshFailed, ClearTokens
      <3> QED
        BY <3>1, <3>2, GrowIdle
    <2>4. CASE RefreshOk(r) /\ ~crossed
      <3>1. Resends(r) /\ store'.token = calls[r].answer.token
        BY <1>0, <2>4, ResendEffect DEF RefreshOk
      <3>2. /\ shown # "nobody" /\ store.refresh # NoToken
            /\ store.token.exp <= calls[r].answer.token.exp
        BY <2>1, <2>4, RunningShown DEF RefreshOk, TokensGrow
      <3>3. Running' = {}
        BY <2>2, <3>1 DEF Resends, Running, Queue
      <3>4. ASSUME NEW q \in Open' PROVE calls'[q].token.exp <= store'.token.exp
        <4>1. /\ store.token.exp \in Nat /\ calls[r].answer.token.exp \in Nat
              /\ calls[q].token.exp \in Nat
          BY Clock DEF Open
        <4>2. CASE q \in Queue \cup {r}
          BY <3>1, <4>1, <4>2 DEF Resends, Open
        <4>3. CASE q \notin Queue \cup {r}
          <5>1. q \in Open /\ calls'[q] = calls[q]
            BY <3>1, <4>3 DEF Resends, Open
          <5>2. calls[q].token.exp <= store.token.exp
            BY <2>4, <3>2, <5>1 DEF TokensGrow
          <5> QED
            BY <3>1, <3>2, <4>1, <5>1, <5>2
        <4> QED
          BY <4>2, <4>3
      <3> QED
        BY <3>3, <3>4 DEF TokensGrow
    <2>5. CASE crossed
      BY <2>1, <2>5 DEF TokensGrow
    <2> QED
      BY <1>12, <2>3, <2>4, <2>5
  <1> QED
    BY <1>1, <1>2, <1>3, <1>4, <1>5, <1>6, <1>7, <1>9, <1>10, <1>11, <1>12
       DEF Next, Receive, Tick, vars, page

LEMMA AlwaysAged == Spec => []Aged
  <1>1. Init => TokensAge /\ TokensGrow
    <2> SUFFICES ASSUME Init PROVE TokensAge /\ TokensGrow
      OBVIOUS
    <2>1. /\ store.token.exp <= now + Expiry /\ \A r \in Slots : calls[r].at = "free"
      BY Clock, InitTyped, TokensTyped DEF Init, NoStore
    <2> QED
      BY <2>1 DEF Init, TokensAge, TokensGrow
  <1> QED
    BY <1>1, StepAge, StepGrow, AlwaysTyped, AlwaysOneRunning, AlwaysOurs, PTL DEF Spec, Aged

(* Only the end of a refresh sends a call again, its own or a waiting one.  *)
LEMMA SentAgain ==
  ASSUME Typed, [Next]_vars, NEW r \in Slots, calls[r].at \in {"refreshed", "queued"},
         calls'[r].at = "sent"
  PROVE  \E q \in Slots : RefreshOk(q) /\ Resends(q) /\ r \in Queue \cup {q}
  <1>1. calls'[r] # calls[r] /\ Free.at = "free"
    BY TokensTyped
  <1>2. ~(Tick \/ Logout \/ UNCHANGED vars)
    BY <1>1 DEF Tick, Logout, vars
  <1>3. ~Reload
    BY <1>1, ReloadEffect DEF Over
  <1>4. ASSUME NEW q \in Slots,
               StartCall(q) \/ Serve(q) \/ ServeRefresh(q) \/ Lose(q) \/ ReceiveOk(q)
                 \/ Receive401(q) \/ ReceiveError(q) \/ RefreshFailed(q)
        PROVE  FALSE
    <2>1. CASE StartCall(q)
      BY <1>1, <2>1, StartEffect DEF StartCall, Started
    <2>2. CASE Serve(q) \/ ServeRefresh(q) \/ Lose(q)
      BY <1>1, <2>2, ServeEffect, ServeRefreshEffect, LoseEffect DEF Moved
    <2>3. CASE ReceiveOk(q) \/ ReceiveError(q) \/ RefreshFailed(q)
      BY <1>1, <2>3, EndEffect DEF Over
    <2>4. CASE Receive401(q)
      BY <1>1, <2>4, RefusedEffect DEF Moved, Over
    <2> QED
      BY <1>4, <2>1, <2>2, <2>3, <2>4
  <1>5. PICK q \in Slots : RefreshOk(q)
    BY <1>2, <1>3, <1>4 DEF Next, Receive
  <1>6. Resends(q) /\ r \in Queue \cup {q}
    BY <1>1, <1>5, ResendEffect DEF Resends
  <1> QED
    BY <1>5, <1>6

(* A call is never sent again with a token that is older than the refused   *)
(* one, and after its own refresh with a later one if tokens live at all.   *)
THEOREM RetriedLater == ASSUME Expiry # 0 PROVE Spec => RetriedFresh
  <1>1. ASSUME Typed, OneRunning, Ours, TokensGrow, [Next]_vars, ~crossed, NEW r \in Slots,
               calls[r].kind = "api", calls'[r].at = "sent"
        PROVE  /\ calls[r].at = "refreshed" => calls'[r].token.exp > calls[r].token.exp
               /\ calls[r].at = "queued" => calls'[r].token.exp >= calls[r].token.exp
    <2> SUFFICES ASSUME calls[r].at \in {"refreshed", "queued"}
                 PROVE  IF calls[r].at = "refreshed" THEN calls[r].token.exp < calls'[r].token.exp
                                                   ELSE calls[r].token.exp <= calls'[r].token.exp
      OBVIOUS
    <2>1. PICK q \in Slots : RefreshOk(q) /\ Resends(q) /\ r \in Queue \cup {q}
      BY <1>1, SentAgain
    <2>2. /\ q \in Running /\ calls[q].answer.status = "ok" /\ calls[q].at = "refreshed"
          /\ calls'[r].token = calls[q].answer.token
      BY <2>1 DEF RefreshOk, Running, Resends
    <2>3. shown # "nobody" /\ store.refresh # NoToken /\ r \in Open
      BY <1>1, <2>1, <2>2, RunningShown DEF TokensGrow, Queue, Open, Running
    <2>4. /\ store.token.exp <= calls[q].answer.token.exp
          /\ calls[q].token.exp < calls[q].answer.token.exp
          /\ calls[r].token.exp <= store.token.exp
      BY <1>1, <2>2, <2>3 DEF TokensGrow
    <2>5. /\ store.token.exp \in Nat /\ calls[q].answer.token.exp \in Nat
          /\ calls[r].token.exp \in Nat
      BY <1>1, Clock
    <2>6. calls[r].at = "refreshed" => r = q
      BY <2>1 DEF Queue
    <2> QED
      BY <2>2, <2>4, <2>5, <2>6
  <1>2. ASSUME Typed, OneRunning, Ours, TokensGrow, [Next]_vars
        PROVE  [~crossed => \A r \in Slots :
                  calls[r].kind = "api" /\ calls'[r].at = "sent"
                    => /\ calls[r].at = "refreshed" => calls'[r].token.exp > calls[r].token.exp
                       /\ calls[r].at = "queued" => calls'[r].token.exp >= calls[r].token.exp]_vars
    BY <1>1, <1>2
  <1> QED
    BY <1>2, AlwaysTyped, AlwaysOneRunning, AlwaysOurs, AlwaysAged, PTL DEF Spec, Aged, RetriedFresh
=============================================================================
