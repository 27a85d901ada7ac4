--------------------------- MODULE MerchantAccess ---------------------------
(***************************************************************************)
(* How a merchant comes into being and its clients get in: the startup of  *)
(* the API process, the onboarding page and its first-run flag, the bearer *)
(* tokens in Redis, and the settings a token gives access to.              *)
(*                                                                         *)
(* A merchant is named by its short code.  A token is a fresh UUID, never  *)
(* issued twice, so all tokens that are no longer valid are alike: Revoked.*)
(* What a handler does between two awaits is one action; the Lua script    *)
(* that saves a token is one.                                              *)
(***************************************************************************)
EXTENDS Naturals

CONSTANTS Clients,     \* browsers, and servers of merchants
          Dashboards,  \* those that show the dashboard
          Codes,       \* short codes
          CodeOf,      \* whose token a client asks for
          Default,     \* "174379", wired into the API's startup and the dashboard
          NoCode,
          Tokens, NoToken, Revoked,
          Urls, NoUrl, \* callback URLs
          Faults,      \* the kinds of fault the environment may inject
          MaxFaults    \* and how many in one behaviour

ASSUME AccessAssumption ==
  /\ Dashboards \subseteq Clients
  /\ CodeOf \in [Clients -> Codes]
  /\ \A c \in Dashboards : CodeOf[c] = Default
  /\ Default \in Codes
  /\ NoCode \notin Codes
  /\ {NoToken, Revoked} \cap Tokens = {}
  /\ NoToken # Revoked
  /\ NoUrl \notin Urls
  /\ Faults \subseteq {"crash", "expiry", "reload", "query"}
  /\ MaxFaults \in Nat

\* There are UUIDs enough: whichever token each merchant has, one is new.
ASSUME TokensAssumption ==
  \A tokens \in [Codes -> Tokens \cup {NoToken}] :
    \E t \in Tokens : \A m \in Codes : tokens[m] # t

VARIABLES
  api,         \* how far startServer got
  firstRun,    \* AuthService.isFirstRun, in the API's memory
  callbackUrl, \* of each merchant in the database
  user,        \* whether the default test user is in the database
  halfway,     \* history: this process left a merchant without its user
  tokenKey,    \* auth:token:<token>, the merchant
  merchantKey, \* auth:merchant:<id>, the token
  page,        \* what App routes a dashboard to
  call,        \* where a client's registration or token request is
  asked,       \* the registration's short code and URL
  answer,      \* the token on its way to a client
  held,        \* the token a client has
  acting,      \* the merchant as whom the middleware let a client's request in
  faults

vars == <<api, firstRun, callbackUrl, user, halfway, tokenKey, merchantKey, page,
          call, asked, answer, held, acting, faults>>
database == <<callbackUrl, user>>
redis == <<tokenKey, merchantKey>>
process == <<api, firstRun, halfway>>

Registering == {"merchant", "user", "registered"}
Asking == {"find", "lookup", "save", "token"}

Up == api = "up"
On(c, p) == page[c] = p
At(c, step) == call[c] = step
Goto(c, step) == call' = [call EXCEPT ![c] = step]
Merchants == {m \in Codes : callbackUrl[m] # NoUrl}
NoRequest == [code |-> Default, url |-> NoUrl]

Init ==
  /\ api = "down"
  /\ firstRun = TRUE
  /\ callbackUrl = [m \in Codes |-> NoUrl]
  /\ user = FALSE
  /\ halfway = FALSE
  /\ tokenKey = [t \in Tokens |-> NoCode]
  /\ merchantKey = [m \in Codes |-> NoToken]
  /\ page = [c \in Dashboards |-> "loading"]
  /\ call = [c \in Clients |-> "none"]
  /\ asked = [c \in Clients |-> NoRequest]
  /\ answer = [c \in Clients |-> NoToken]
  /\ held = [c \in Clients |-> NoToken]
  /\ acting = [c \in Clients |-> NoCode]
  /\ faults = 0

Fault(kind) ==
  /\ kind \in Faults
  /\ faults < MaxFaults
  /\ faults' = faults + 1

-----------------------------------------------------------------------------
(***************************************************************************)
(* Tokens in Redis                                                         *)
(***************************************************************************)

\* Those of the clients' tokens that are t are dead.
Without(tokens, t) ==
  [c \in Clients |-> IF tokens[c] = t /\ t # NoToken THEN Revoked ELSE tokens[c]]

\* generateAuthToken: which UUID it is does not matter, only that it is new.
NewToken == CHOOSE t \in Tokens :
  tokenKey[t] = NoCode /\ \A m \in Codes : merchantKey[m] # t

\* mutant: the script without the cleanup of the old token
SaveTokenKeepingOld(t, m) ==
  /\ tokenKey' = [tokenKey EXCEPT ![t] = m]
  /\ merchantKey' = [merchantKey EXCEPT ![m] = t]
  /\ UNCHANGED held

\* saveTokenToRedis: the merchant's old token is deleted, both keys are set.
SaveToken(t, m) ==
  /\ tokenKey' = [k \in Tokens |-> CASE k = t -> m
                                     [] k = merchantKey[m] -> NoCode
                                     [] OTHER -> tokenKey[k]]
  /\ merchantKey' = [merchantKey EXCEPT ![m] = t]
  /\ held' = Without(held, merchantKey[m])

\* Both keys were set at one moment for 3600 s: they go at one moment.
Expire(m) ==
  /\ Fault("expiry")
  /\ merchantKey[m] # NoToken
  /\ tokenKey' = [tokenKey EXCEPT ![merchantKey[m]] = NoCode]
  /\ merchantKey' = [merchantKey EXCEPT ![m] = NoToken]
  /\ held' = Without(held, merchantKey[m])
  /\ answer' = Without(answer, merchantKey[m])
  /\ UNCHANGED <<process, database, page, call, asked, acting>>

-----------------------------------------------------------------------------
(***************************************************************************)
(* The API process: startServer, then handlers, until it crashes           *)
(***************************************************************************)

StartApi ==
  /\ api = "down"
  /\ api' = "count"
  /\ firstRun' = TRUE
  /\ halfway' = FALSE
  /\ UNCHANGED <<database, redis, page, call, asked, answer, held, acting, faults>>

\* mutant: the flag keeps its initial value when there are merchants
CheckFirstRunNever ==
  /\ api = "count"
  /\ api' = IF Merchants = {} THEN "up" ELSE "pregenerate"
  /\ UNCHANGED <<firstRun, halfway, database, redis, page, call, asked, answer, held,
                 acting, faults>>

CheckFirstRun ==
  /\ api = "count"
  /\ firstRun' = (Merchants = {})
  /\ api' = IF firstRun' THEN "up" ELSE "pregenerate"
  /\ UNCHANGED <<halfway, database, redis, page, call, asked, answer, held, acting, faults>>

\* A missing default merchant, or an error, is logged: the API listens anyway.
Pregenerate ==
  /\ api = "pregenerate"
  /\ api' = "up"
  /\ \/ /\ Default \in Merchants
        /\ SaveToken(NewToken, Default)
        /\ UNCHANGED faults
     \/ /\ IF Default \in Merchants THEN Fault("query") ELSE UNCHANGED faults
        /\ UNCHANGED <<redis, held>>
  /\ UNCHANGED <<firstRun, halfway, database, page, call, asked, answer, acting>>

\* What the API was doing for its clients is lost: they see a network error.
Crash ==
  /\ Fault("crash")
  /\ api # "down"
  /\ api' = "down"
  /\ call' = [c \in Clients |-> "none"]
  /\ asked' = [c \in Clients |-> NoRequest]
  /\ answer' = [c \in Clients |-> NoToken]
  /\ acting' = [c \in Clients |-> NoCode]
  /\ UNCHANGED <<firstRun, halfway, database, redis, page, held>>

-----------------------------------------------------------------------------
(***************************************************************************)
(* The pages of a dashboard                                                *)
(***************************************************************************)

Show(c, p) == page' = [page EXCEPT ![c] = p]

\* App: an API that does not answer is taken for one that is not set up.
GetStatus(c) ==
  /\ On(c, "loading")
  /\ Show(c, IF Up /\ ~firstRun THEN "dashboard" ELSE "onboarding")
  /\ UNCHANGED <<process, database, redis, call, asked, answer, held, acting, faults>>

\* A reloaded page has no token and no longer waits for an answer; what it
\* has sent is handled all the same, so the page is reloaded when it waits for none.
Reload(c) ==
  /\ Fault("reload")
  /\ ~On(c, "loading") /\ At(c, "none") /\ acting[c] = NoCode
  /\ Show(c, "loading")
  /\ held' = [held EXCEPT ![c] = NoToken]
  /\ UNCHANGED <<process, database, redis, call, asked, answer, acting>>

\* The button is disabled while a registration is under way.
Submit(c, m, url) ==
  /\ Up /\ On(c, "onboarding") /\ At(c, "none")
  /\ Goto(c, "merchant")
  /\ asked' = [asked EXCEPT ![c] = [code |-> m, url |-> url]]
  /\ UNCHANGED <<process, database, redis, page, answer, held, acting, faults>>

-----------------------------------------------------------------------------
(***************************************************************************)
(* registerMerchant: the merchant, then its user, then the flag            *)
(***************************************************************************)

\* After an error the page may submit again.
EndRegistration(c) ==
  /\ Goto(c, "none")
  /\ asked' = [asked EXCEPT ![c] = NoRequest]

\* A short code that is taken violates its unique constraint.
CreateMerchant(c) ==
  LET m == asked[c].code IN
  /\ At(c, "merchant")
  /\ \/ /\ m \notin Merchants
        /\ callbackUrl' = [callbackUrl EXCEPT ![m] = asked[c].url]
        /\ Goto(c, "user")
        /\ UNCHANGED asked
     \/ /\ m \in Merchants
        /\ EndRegistration(c)
        /\ UNCHANGED callbackUrl
  /\ UNCHANGED <<process, user, redis, page, answer, held, acting, faults>>

\* A user that exists already is ignored.
CreateUser(c) ==
  /\ At(c, "user")
  /\ user' = TRUE
  /\ firstRun' = FALSE
  /\ Goto(c, "registered")
  /\ UNCHANGED <<api, halfway, callbackUrl, redis, page, asked, answer, held, acting, faults>>

\* The merchant stays without its user, and the flag as it was.
RegisterFails(c) ==
  /\ Fault("query")
  /\ call[c] \in {"merchant", "user"}
  /\ halfway' = (halfway \/ At(c, "user"))
  /\ EndRegistration(c)
  /\ UNCHANGED <<api, firstRun, database, redis, page, answer, held, acting>>

Onboarded(c) ==
  /\ At(c, "registered")
  /\ Show(c, "dashboard")
  /\ EndRegistration(c)
  /\ UNCHANGED <<process, database, redis, answer, held, acting, faults>>

-----------------------------------------------------------------------------
(***************************************************************************)
(* authController: find the merchant, look its token up, or save a new one *)
(***************************************************************************)

\* useAuth asks when the dashboard opens, every five minutes and after a 401.
Refresh(c) ==
  /\ Up /\ At(c, "none")
  /\ c \in Dashboards => On(c, "dashboard")
  /\ Goto(c, "find")
  /\ UNCHANGED <<process, database, redis, page, asked, answer, held, acting, faults>>

FindMerchant(c) ==
  /\ At(c, "find")
  /\ Goto(c, IF CodeOf[c] \in Merchants THEN "lookup" ELSE "none")
  /\ UNCHANGED <<process, database, redis, page, asked, answer, held, acting, faults>>

\* mutant: a request always gets a token of its own
LookupNothing(c) ==
  /\ At(c, "lookup")
  /\ Goto(c, "save")
  /\ answer' = [answer EXCEPT ![c] = NoToken]
  /\ UNCHANGED <<process, database, redis, page, asked, held, acting, faults>>

Lookup(c) ==
  LET token == merchantKey[CodeOf[c]] IN
  /\ At(c, "lookup")
  /\ Goto(c, IF token = NoToken THEN "save" ELSE "token")
  /\ answer' = [answer EXCEPT ![c] = token]
  /\ UNCHANGED <<process, database, redis, page, asked, held, acting, faults>>

\* The token saved goes to this client; those that have the old one have a dead one.
Save(c) ==
  /\ At(c, "save")
  /\ SaveToken(NewToken, CodeOf[c])
  /\ answer' = [Without(answer, merchantKey[CodeOf[c]]) EXCEPT ![c] = NewToken]
  /\ Goto(c, "token")
  /\ UNCHANGED <<process, database, page, asked, acting, faults>>

TokenFails(c) ==
  /\ Fault("query")
  /\ call[c] \in {"find", "lookup", "save"}
  /\ Goto(c, "none")
  /\ UNCHANGED <<process, database, redis, page, asked, answer, held, acting>>

\* setToken
Receive(c) ==
  /\ At(c, "token")
  /\ held' = [held EXCEPT ![c] = answer[c]]
  /\ answer' = [answer EXCEPT ![c] = NoToken]
  /\ Goto(c, "none")
  /\ UNCHANGED <<process, database, redis, page, asked, acting, faults>>

-----------------------------------------------------------------------------
(***************************************************************************)
(* Requests with a token                                                   *)
(***************************************************************************)

\* mutant: the request carries the token, not the merchant it opens
AuthenticateToken(c) ==
  /\ Up
  /\ acting[c] = NoCode
  /\ held[c] \in Tokens
  /\ acting' = [acting EXCEPT ![c] = held[c]]
  /\ UNCHANGED <<process, database, redis, page, call, asked, answer, held, faults>>

\* authMiddleware: a dead token is refused, and the page asks for another.
Authenticate(c) ==
  /\ Up
  /\ acting[c] = NoCode
  /\ held[c] \in Tokens
  /\ acting' = [acting EXCEPT ![c] = tokenKey[held[c]]]
  /\ UNCHANGED <<process, database, redis, page, call, asked, answer, held, faults>>

\* mutant: the UPDATE without its WHERE
UpdateEveryUrl(m, url) == callbackUrl' = [k \in Codes |-> IF k \in Merchants THEN url ELSE NoUrl]

UpdateCallbackUrl(m, url) == callbackUrl' = [callbackUrl EXCEPT ![m] = url]

\* updateMerchantController, or a handler that changes nothing here: the
\* settings are read, a payment is asked for (Ingestion), a statement fails.
Handle(c) ==
  /\ acting[c] # NoCode
  /\ \/ \E url \in Urls : UpdateCallbackUrl(acting[c], url)
     \/ UNCHANGED callbackUrl
  /\ acting' = [acting EXCEPT ![c] = NoCode]
  /\ UNCHANGED <<process, user, redis, page, call, asked, answer, held, faults>>

-----------------------------------------------------------------------------
Startup == StartApi \/ CheckFirstRun \/ Pregenerate

Page(c) == GetStatus(c) \/ Refresh(c)

Handler(c) ==
  \/ CreateMerchant(c) \/ CreateUser(c) \/ Onboarded(c)
  \/ FindMerchant(c) \/ Lookup(c) \/ Save(c) \/ Receive(c)

Next ==
  \/ Startup \/ Crash
  \/ \E m \in Codes : Expire(m)
  \/ \E c \in Dashboards :
       \/ GetStatus(c) \/ Reload(c)
       \/ \E m \in Codes, url \in Urls : Submit(c, m, url)
       \/ RegisterFails(c)
  \/ \E c \in Clients :
       Refresh(c) \/ Handler(c) \/ TokenFails(c) \/ Authenticate(c) \/ Handle(c)

Spec == Init /\ [][Next]_vars

\* What the API or a page is doing goes on; an open dashboard asks for a token on
\* a timer.  Nobody has to start the API again (docker-compose.yml sets no restart
\* policy), to register, to send a request, or to reload a page.
FairSpec ==
  /\ Spec
  /\ WF_vars(CheckFirstRun) /\ WF_vars(Pregenerate)
  /\ \A c \in Dashboards : WF_vars(GetStatus(c)) /\ WF_vars(Refresh(c))
  /\ \A c \in Clients : WF_vars(Handler(c)) /\ WF_vars(Handle(c))

-----------------------------------------------------------------------------
(***************************************************************************)
(* Properties                                                              *)
(***************************************************************************)

\* What the variables hold.
TypeOK ==
  /\ api \in {"down", "count", "pregenerate", "up"}
  /\ {firstRun, user, halfway} \subseteq BOOLEAN
  /\ callbackUrl \in [Codes -> Urls \cup {NoUrl}]
  /\ tokenKey \in [Tokens -> Codes \cup {NoCode}]
  /\ merchantKey \in [Codes -> Tokens \cup {NoToken}]
  /\ page \in [Dashboards -> {"loading", "onboarding", "dashboard"}]
  /\ call \in [Clients -> Registering \cup Asking \cup {"none"}]
  /\ asked \in [Clients -> [code : Codes, url : Urls \cup {NoUrl}]]
  /\ answer \in [Clients -> Tokens \cup {NoToken, Revoked}]
  /\ held \in [Clients -> Tokens \cup {NoToken, Revoked}]
  /\ acting \in [Clients -> Codes \cup {NoCode}]
  /\ faults \in 0..MaxFaults

\* The two Redis keys never disagree: a token opens the one merchant that has
\* it, and a merchant's token is valid.  The script of saveTokenToRedis deletes
\* the token it replaces, else old tokens would pile up and stay valid.
KeysAgree ==
  \A t \in Tokens, m \in Codes : tokenKey[t] = m <=> merchantKey[m] = t

\* The first-run flag is a copy of "there is no merchant", kept in the API's
\* memory and updated at three places.  It is out of date only while a
\* registration is between its two INSERTs, or after one that failed there.
\* Whoever is told that the system is set up finds a merchant, and whoever
\* registered it, both the merchant and the user.
OnboardingTruthful ==
  /\ Up => /\ ~firstRun => Merchants # {}
           /\ firstRun => \/ Merchants = {} \/ halfway
                          \/ \E c \in Dashboards : At(c, "user")
  /\ \A c \in Dashboards :
       /\ On(c, "dashboard") => Merchants # {}
       /\ At(c, "registered") => asked[c].code \in Merchants /\ user

\* A merchant's callback URL is first what its registration said, and changes
\* only by a client that asked for that merchant's token, however tokens
\* expire, are replaced or are sent to several clients.
SettingsChangedByOwner ==
  [][\A m \in Codes : callbackUrl'[m] # callbackUrl[m] =>
       IF m \in Merchants
       THEN \E c \in Clients : acting[c] = m /\ CodeOf[c] = m
       ELSE \E c \in Dashboards :
              At(c, "merchant") /\ asked[c] = [code |-> m, url |-> callbackUrl'[m]]]_vars

\* Once there is a default merchant and the API stays up, all open dashboards end
\* up with its one valid token, whatever tokens they, the API's startup and other
\* clients have made of each other invalid.
ConvergesOnOneToken ==
  <>[](Up /\ Default \in Merchants) =>
    <>[](\A c \in Dashboards : On(c, "dashboard") =>
           held[c] \in Tokens /\ held[c] = merchantKey[Default])

\* A dashboard that shows the monitor gets a token, as the quickstart has it:
\* the short code of the wizard is 174379 "or any number you want to simulate",
\* and the token "is automatically refreshed and attached" to its requests.
SetUpSignsIn ==
  \A c \in Dashboards : On(c, "dashboard") ~> (held[c] # NoToken \/ On(c, "loading"))
=============================================================================
