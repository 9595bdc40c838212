------------------------------- MODULE Session -------------------------------
(***************************************************************************)
(* Accounts, tokens and the session of one page of the web client: the      *)
(* server's register, login and refresh with the authentication of the      *)
(* other calls, and the page's interceptor (client.ts), which answers a 401 *)
(* by one refresh that the calls refused meanwhile wait for.                *)
(*                                                                         *)
(* Time passes in ticks.  A call is sent, served and received in three      *)
(* steps, so answers arrive late and in any order; the page is closed or    *)
(* reloaded anywhere, and what local storage holds survives.                *)
(***************************************************************************)
EXTENDS Integers, FiniteSets

CONSTANTS
  Accounts,       \* e-mail addresses; also the ids of their users
  Slots,          \* calls the page may have open at the same time
  Expiry,         \* config.JWT.Expiry
  RefreshExpiry,  \* config.JWT.RefreshExpiry, the default if not positive
  DefaultRefresh, \* seven days
  MaxTime,        \* bound: the clock
  MaxCalls        \* bound: calls made in a whole behaviour

ASSUME SessionAssumption ==
  /\ "nobody" \notin Accounts /\ "" \notin Accounts
  /\ Expiry \in Nat /\ RefreshExpiry \in Int /\ DefaultRefresh \in Nat \ {0}
  /\ MaxTime \in Nat /\ MaxCalls \in Nat

VARIABLES
  now,         \* the clock of server and page
  users,       \* rows of users
  store,       \* local storage: token, refresh token, user
  shown,       \* the user of AuthContext
  refreshing,  \* isRefreshing
  leaving,     \* window.location was set to /login
  calls,       \* the calls that are open
  made,        \* how many calls were made
  how,         \* history: how the user shown came in
  crossed      \* history: a logout or a second form crossed an open call

page == <<shown, refreshing, leaving>>
vars == <<now, users, store, page, calls, made, how, crossed>>

Somebody == Accounts \cup {"nobody"}
RefreshLife == IF RefreshExpiry > 0 THEN RefreshExpiry ELSE DefaultRefresh

NoToken == [of |-> "nobody", exp |-> 0]
Tokens == [of : Somebody, exp : 0 .. MaxTime + Expiry + RefreshLife]
NoStore == [token |-> NoToken, refresh |-> NoToken, user |-> "nobody"]

(* An answer, by what the page makes of its status, with the tokens in it.  *)
Answer(status, token, refresh) == [status |-> status, token |-> token, refresh |-> refresh]
Unauthorized == Answer("401", NoToken, NoToken)
Failed == Answer("error", NoToken, NoToken)

(* A call: what it asks, for whom, the header it carries (a refresh: the    *)
(* refresh token), the _retry mark and the answer under way to the page.    *)
Free == [at |-> "free", kind |-> "api", as |-> "nobody", token |-> NoToken,
         retry |-> FALSE, answer |-> Failed]

TypeOK ==
  /\ now \in 0 .. MaxTime /\ made \in 0 .. MaxCalls
  /\ users \subseteq Accounts
  /\ store \in [token : Tokens, refresh : Tokens, user : Somebody]
  /\ shown \in Somebody /\ refreshing \in BOOLEAN /\ leaving \in BOOLEAN
  /\ calls \in [Slots -> [at : {"free", "sent", "answered", "queued", "refreshing", "refreshed"},
                          kind : {"api", "login", "register"}, as : Somebody \cup {""},
                          token : Tokens, retry : BOOLEAN,
                          answer : [status : {"ok", "401", "error"},
                                    token : Tokens, refresh : Tokens]]]
  /\ how \in {"nobody", "login", "register"} /\ crossed \in BOOLEAN

(* A first visit; the accounts of others exist already, or none.            *)
Init ==
  /\ now = 0 /\ users \in SUBSET Accounts
  /\ store = NoStore /\ shown = "nobody" /\ refreshing = FALSE /\ leaving = FALSE
  /\ calls = [r \in Slots |-> Free]
  /\ made = 0 /\ how = "nobody" /\ crossed = FALSE

Tick == now < MaxTime /\ now' = now + 1
        /\ UNCHANGED <<users, store, page, calls, made, how, crossed>>

-----------------------------------------------------------------------------
(* The server.  Tokens are signed and stateless: what a handler can tell of *)
(* one is whose it is and whether it has expired.                           *)

GenerateToken(u) == [of |-> u, exp |-> now + Expiry]
GenerateRefreshToken(u) == [of |-> u, exp |-> now + RefreshLife]

ValidateToken(t) == t # NoToken /\ now < t.exp
ValidateRefreshToken(t) == t # NoToken /\ now < t.exp

Required(email) == email # ""
GetByEmail(email) == email \in users
GetByID(id) == id \in users

(* The e-mail is unique in the table: another INSERT of it fails.           *)
CreateUser(email) == IF email \in users THEN {} ELSE {users \cup {email}}

(* An error, and after the INSERT possibly one too, when no token comes of  *)
(* it; the answer has no refresh token.                                     *)
Registered(email) ==
  {<<rows, a>> : rows \in CreateUser(email),
                 a \in {Failed, Answer("ok", GenerateToken(email), NoToken)}}

(* Mutant: an account without an e-mail address.                            *)
RegisterUnchecked(email) == {<<users, Failed>>} \cup Registered(email)

Register(email) ==
  {<<users, Failed>>} \cup (IF Required(email) THEN Registered(email) ELSE {})

(* Unknown account or wrong password: 401, as for an expired token.         *)
Login(email) ==
  {Failed} \cup
  IF ~Required(email) THEN {}
  ELSE {Unauthorized} \cup
       IF GetByEmail(email)
       THEN {Answer("ok", GenerateToken(email), GenerateRefreshToken(email))} ELSE {}

(* Also a database that cannot be read is a 401 here.                       *)
RefreshToken(t) ==
  {Failed, Unauthorized} \cup
  IF ValidateRefreshToken(t) /\ GetByID(t.of)
  THEN {Answer("ok", GenerateToken(t.of), GenerateRefreshToken(t.of))} ELSE {}

(* Any other call passes the authentication and is then answered; without   *)
(* header, query parameter or cookie it is a 401 as well.                   *)
AuthMiddleware(t) ==
  IF ValidateToken(t) THEN {Answer("ok", NoToken, NoToken), Failed} ELSE {Unauthorized}

Results(c) ==
  CASE c.kind = "register" -> Register(c.as)
    [] c.kind = "login"    -> {<<users, a>> : a \in Login(c.as)}
    [] c.kind = "api"      -> {<<users, a>> : a \in AuthMiddleware(c.token)}

Serve(r) ==
  /\ calls[r].at = "sent"
  /\ \E res \in Results(calls[r]) :
       /\ users' = res[1]
       /\ calls' = [calls EXCEPT ![r].at = "answered", ![r].answer = res[2]]
  /\ UNCHANGED <<now, store, page, made, how, crossed>>

ServeRefresh(r) ==
  /\ calls[r].at = "refreshing"
  /\ \E a \in RefreshToken(calls[r].answer.refresh) :
       calls' = [calls EXCEPT ![r].at = "refreshed", ![r].answer = a]
  /\ UNCHANGED <<now, users, store, page, made, how, crossed>>

(* Request or answer is lost, or the ten seconds are over that a call has   *)
(* (a refresh has no such limit): the page sees an error, whether the       *)
(* server has done the work or not.                                         *)
Lose(r) ==
  /\ calls[r].at \in {"sent", "answered", "refreshing", "refreshed"}
  /\ calls' = [calls EXCEPT ![r].answer = Failed,
                 ![r].at = IF @ \in {"sent", "answered"} THEN "answered" ELSE "refreshed"]
  /\ UNCHANGED <<now, users, store, page, made, how, crossed>>

-----------------------------------------------------------------------------
(* The page.                                                                *)

Open == {r \in Slots : calls[r].at # "free"}
Queue == {r \in Slots : calls[r].at = "queued"}
Settled(S) == [r \in Slots |-> IF r \in S THEN Free ELSE calls[r]]

(* The request interceptor puts the stored token into the header; login     *)
(* and register are on the pages shown while nobody is logged in.           *)
StartCall(r) ==
  /\ calls[r].at = "free" /\ made < MaxCalls
  /\ \E kind \in (IF shown = "nobody" THEN {"login", "register"} ELSE {"api"}),
        as \in (IF shown = "nobody" THEN Accounts \cup {""} ELSE {shown}) :
       calls' = [calls EXCEPT ![r] = [Free EXCEPT !.at = "sent", !.kind = kind, !.as = as,
                                                  !.token = store.token]]
  /\ made' = made + 1
  /\ crossed' = (crossed \/ (shown = "nobody" /\ \E q \in Open : calls[q].kind # "api"))
  /\ UNCHANGED <<now, users, store, page, how>>

(* setToken, setRefreshToken if the answer has one, then the user.          *)
Enter(c) ==
  /\ store' = [token |-> c.answer.token, user |-> c.as,
               refresh |-> IF c.answer.refresh = NoToken THEN store.refresh ELSE c.answer.refresh]
  /\ shown' = c.as
  /\ how' = c.kind

ClearTokens == store' = [store EXCEPT !.token = NoToken, !.refresh = NoToken]

ReceiveOk(r) ==
  /\ calls[r].at = "answered" /\ calls[r].answer.status = "ok"
  /\ IF calls[r].kind = "api" THEN UNCHANGED <<store, shown, how>> ELSE Enter(calls[r])
  /\ calls' = Settled({r})
  /\ UNCHANGED <<now, users, refreshing, leaving, made, crossed>>

(* A 401 on a first try, and no refresh is running: this call runs one, or  *)
(* gives up the session if there is no refresh token.                       *)
BeginRefresh(r) ==
  IF store.refresh = NoToken
  THEN ClearTokens /\ calls' = Settled({r}) /\ UNCHANGED refreshing
  ELSE /\ refreshing' = TRUE
       /\ calls' = [calls EXCEPT ![r].at = "refreshing", ![r].retry = TRUE,
                                 ![r].answer = Answer("401", NoToken, store.refresh)]
       /\ UNCHANGED store

(* Mutant: every call refreshes for itself.                                 *)
Receive401Alone(r) ==
  /\ calls[r].at = "answered" /\ calls[r].answer.status = "401"
  /\ IF calls[r].retry THEN calls' = Settled({r}) /\ UNCHANGED <<store, refreshing>>
                       ELSE BeginRefresh(r)
  /\ UNCHANGED <<now, users, shown, leaving, made, how, crossed>>

Receive401(r) ==
  /\ calls[r].at = "answered" /\ calls[r].answer.status = "401"
  /\ IF calls[r].retry THEN calls' = Settled({r}) /\ UNCHANGED <<store, refreshing>>
     ELSE IF refreshing
     THEN calls' = [calls EXCEPT ![r].at = "queued"] /\ UNCHANGED <<store, refreshing>>
     ELSE BeginRefresh(r)
  /\ UNCHANGED <<now, users, shown, leaving, made, how, crossed>>

ReceiveError(r) ==
  /\ calls[r].at = "answered" /\ calls[r].answer.status = "error"
  /\ calls' = Settled({r})
  /\ UNCHANGED <<now, users, store, page, made, how, crossed>>

(* Mutants of Resent: the queue is forgotten; the old header is kept.       *)
ResentAlone(r, token) == [q \in Slots |->
  IF q = r THEN [calls[q] EXCEPT !.at = "sent", !.token = token, !.answer = Failed]
           ELSE calls[q]]
ResentOld(r, token) == [q \in Slots |->
  IF q \in Queue \cup {r} THEN [calls[q] EXCEPT !.at = "sent", !.answer = Failed] ELSE calls[q]]

(* The call that refreshed and those in the queue are sent again.           *)
Resent(r, token) == [q \in Slots |->
  IF q \in Queue \cup {r} THEN [calls[q] EXCEPT !.at = "sent", !.token = token, !.answer = Failed]
                          ELSE calls[q]]

RefreshOk(r) ==
  /\ calls[r].at = "refreshed" /\ calls[r].answer.status = "ok"
  /\ store' = [store EXCEPT !.token = calls[r].answer.token, !.refresh = calls[r].answer.refresh]
  /\ calls' = Resent(r, calls[r].answer.token)
  /\ refreshing' = FALSE
  /\ UNCHANGED <<now, users, shown, leaving, made, how, crossed>>

(* Mutant: no redirect to the login page.                                   *)
RefreshFailedStay(r) ==
  /\ calls[r].at = "refreshed" /\ calls[r].answer.status # "ok"
  /\ ClearTokens
  /\ calls' = Settled(Queue \cup {r})
  /\ refreshing' = FALSE
  /\ UNCHANGED <<now, users, shown, leaving, made, how, crossed>>

RefreshFailed(r) ==
  /\ calls[r].at = "refreshed" /\ calls[r].answer.status # "ok"
  /\ ClearTokens
  /\ calls' = Settled(Queue \cup {r})
  /\ leaving' = TRUE /\ refreshing' = FALSE
  /\ UNCHANGED <<now, users, shown, made, how, crossed>>

(* Mutant: the refresh token stays.                                         *)
LogoutKeepsRefresh ==
  /\ shown # "nobody"
  /\ store' = [NoStore EXCEPT !.refresh = store.refresh]
  /\ shown' = "nobody" /\ how' = "nobody"
  /\ crossed' = (crossed \/ Open # {})
  /\ UNCHANGED <<now, users, refreshing, leaving, calls, made>>

(* Nothing tells the calls that are open, or the refresh.                   *)
Logout ==
  /\ shown # "nobody"
  /\ store' = NoStore
  /\ shown' = "nobody" /\ how' = "nobody"
  /\ crossed' = (crossed \/ Open # {})
  /\ UNCHANGED <<now, users, refreshing, leaving, calls, made>>

(* The page is loaded again, by the user or by the redirect: its variables  *)
(* start anew and the user is read back from the storage.  A register that  *)
(* was on its way may reach the server all the same.                        *)
Reload ==
  /\ \E S \in SUBSET {calls[r].as : r \in {q \in Slots : calls[q].at = "sent"
                                                        /\ calls[q].kind = "register"}} :
       users' = users \cup (S \cap Accounts)
  /\ shown' = IF store.token # NoToken THEN store.user ELSE "nobody"
  /\ how' = IF store.token # NoToken /\ store.user # "nobody" THEN how ELSE "nobody"
  /\ refreshing' = FALSE /\ leaving' = FALSE
  /\ calls' = Settled(Slots)
  /\ UNCHANGED <<now, store, made, crossed>>

-----------------------------------------------------------------------------
Receive(r) == ReceiveOk(r) \/ Receive401(r) \/ ReceiveError(r)
              \/ RefreshOk(r) \/ RefreshFailed(r)

Next ==
  \/ Tick \/ Logout \/ Reload
  \/ \E r \in Slots : StartCall(r) \/ Serve(r) \/ ServeRefresh(r) \/ Lose(r) \/ Receive(r)

Spec == Init /\ [][Next]_vars

(* The server answers, or the network reports that it does not; answers are *)
(* handled; a redirect is carried out.  Users need not do anything.         *)
FairSpec ==
  /\ Spec
  /\ WF_vars(leaving /\ Reload)
  /\ \A r \in Slots : WF_vars(Serve(r) \/ ServeRefresh(r)) /\ WF_vars(Receive(r))

-----------------------------------------------------------------------------
(* isRefreshing is set exactly while one refresh runs, never two, and a     *)
(* call waits in failedQueue only then: the queue is never left to nobody.  *)
OneRefresh ==
  LET running == {r \in Slots : calls[r].at \in {"refreshing", "refreshed"}}
  IN  /\ Cardinality(running) = IF refreshing THEN 1 ELSE 0
      /\ Queue # {} => refreshing

(* A page that shows a user who logged in holds the tokens of a session, or *)
(* is on its way to the login page: no failure leaves it half logged in.    *)
(* (A user who registered has no refresh token, and can be left so.)        *)
LoginHasTokens ==
  how = "login" /\ ~leaving => store.token # NoToken /\ store.refresh # NoToken

(* The page acts as the user it shows: its tokens are of that user, as long *)
(* as no logout, and no second form, came between a call and its answer.    *)
TokensOfUser ==
  ~crossed /\ shown # "nobody"
    => /\ {store.token.of, store.refresh.of} \subseteq {shown, "nobody"}
       /\ \A r \in Open : calls[r].kind = "api" => calls[r].token.of \in {shown, "nobody"}

(* With the same proviso, a call is sent again after its own refresh with a *)
(* token that expires later than the refused one, after another's refresh   *)
(* never with an older one (it can be as old: a 401 that came late starts a *)
(* second refresh, whose token may have expired for the calls behind it).   *)
RetriedFresh ==
  [][~crossed => \A r \in Slots :
       calls[r].kind = "api" /\ calls'[r].at = "sent"
         => /\ calls[r].at = "refreshed" => calls'[r].token.exp > calls[r].token.exp
            /\ calls[r].at = "queued" => calls'[r].token.exp >= calls[r].token.exp]_vars

(* Every call is settled, also those that wait for a refresh of another.    *)
CallsSettle == \A r \in Slots : calls[r].at # "free" ~> calls[r].at = "free"

=============================================================================
