---------------------------- MODULE AccessProofs -----------------------------
(***************************************************************************)
(* A token opens the merchant whose token its client asked for, the two    *)
(* keys in Redis agree, and the first-run flag is right, for any number of *)
(* clients, merchants, tokens and faults.                                  *)
(***************************************************************************)
EXTENDS MerchantAccess, TLAPS

\* A token in Redis is that of a merchant in the database.
KeysServed == \A t \in Tokens : tokenKey[t] # NoCode => tokenKey[t] \in Merchants

\* A client's tokens, and the merchant it acts as, are those of its short code.
Credentials(c) ==
  /\ held[c] \in Tokens => tokenKey[held[c]] = CodeOf[c]
  /\ answer[c] \in Tokens => tokenKey[answer[c]] = CodeOf[c]
  /\ acting[c] # NoCode => acting[c] = CodeOf[c] /\ CodeOf[c] \in Merchants
  /\ call[c] \in {"lookup", "save", "token"} => CodeOf[c] \in Merchants

\* How far a registration is, the merchant and the user are in the database; an API
\* that is not up serves nobody.
Registration(c) ==
  /\ call[c] \in Registering => c \in Dashboards /\ asked[c].url \in Urls
  /\ call[c] \in {"user", "registered"} => asked[c].code \in Merchants
  /\ At(c, "registered") => user
  /\ ~Up => At(c, "none") /\ answer[c] = NoToken

ClientsServed == \A c \in Clients : Credentials(c) /\ Registration(c)

\* Between its count and the end of its startup the API knows of a merchant.
StartupTruthful == api = "pregenerate" => ~firstRun /\ Merchants # {}

IInv ==
  /\ TypeOK
  /\ KeysAgree
  /\ KeysServed
  /\ ClientsServed
  /\ StartupTruthful
  /\ OnboardingTruthful

-----------------------------------------------------------------------------
(***************************************************************************)
(* Tokens                                                                  *)
(***************************************************************************)

\* A UUID that is generated is nobody's.
LEMMA FreshToken ==
  ASSUME TypeOK, KeysAgree
  PROVE  /\ NewToken \in Tokens
         /\ tokenKey[NewToken] = NoCode
         /\ \A m \in Codes : merchantKey[m] # NewToken
<1>1. PICK t \in Tokens : \A m \in Codes : merchantKey[m] # t
  BY TokensAssumption DEF TypeOK
<1>2. tokenKey[t] = NoCode
  BY <1>1 DEF KeysAgree, TypeOK
<1> QED BY <1>1, <1>2 DEF NewToken

\* A client whose token is deleted has a dead one; the others keep theirs.
Valid(tokens, keys) ==
  \A c \in Clients : tokens[c] \in Tokens => keys[tokens[c]] = CodeOf[c]

\* Without leaves every other token as good as it was.
LEMMA WithoutDead ==
  ASSUME NEW tokens \in [Clients -> Tokens \cup {NoToken, Revoked}],
         Valid(tokens, tokenKey), NEW old, NEW keys,
         \A t \in Tokens : t # old /\ tokenKey[t] # NoCode => keys[t] = tokenKey[t]
  PROVE  /\ Without(tokens, old) \in [Clients -> Tokens \cup {NoToken, Revoked}]
         /\ Valid(Without(tokens, old), keys)
         /\ \A c \in Clients : tokens[c] = NoToken => Without(tokens, old)[c] = NoToken
<1>1. Revoked \notin Tokens /\ NoToken \notin Tokens
  BY AccessAssumption
<1>2. \A c \in Clients : CodeOf[c] # NoCode
  BY AccessAssumption
<1>3. ASSUME NEW c \in Clients, Without(tokens, old)[c] \in Tokens
      PROVE  keys[Without(tokens, old)[c]] = CodeOf[c]
  <2>1. Without(tokens, old)[c] = tokens[c] /\ tokens[c] # old
    BY <1>1, <1>3 DEF Without
  <2> QED BY <1>2, <1>3, <2>1 DEF Valid
<1> QED BY <1>3 DEF Without, Valid

\* The Lua script of saveTokenToRedis writes both keys and removes the old one.
LEMMA SaveStep ==
  ASSUME TypeOK, KeysAgree, KeysServed, NEW m \in Merchants, SaveToken(NewToken, m),
         UNCHANGED callbackUrl
  PROVE  /\ tokenKey' \in [Tokens -> Codes \cup {NoCode}]
         /\ merchantKey' \in [Codes -> Tokens \cup {NoToken}]
         /\ KeysAgree' /\ KeysServed'
         /\ tokenKey'[NewToken] = m
         /\ \A t \in Tokens : t # merchantKey[m] /\ tokenKey[t] # NoCode =>
              tokenKey'[t] = tokenKey[t]
<1> DEFINE t == NewToken
<1>1. t \in Tokens /\ tokenKey[t] = NoCode /\ (\A k \in Codes : merchantKey[k] # t)
      /\ m \in Codes /\ NoCode \notin Codes /\ NoToken \notin Tokens
  BY FreshToken, AccessAssumption DEF Merchants
<1>2. /\ tokenKey' = [k \in Tokens |-> CASE k = t -> m
                                          [] k = merchantKey[m] -> NoCode
                                          [] OTHER -> tokenKey[k]]
      /\ merchantKey' = [merchantKey EXCEPT ![m] = t]
  BY DEF SaveToken
<1> HIDE DEF t
<1>3. /\ \A k \in Tokens : tokenKey'[k] = IF k = t THEN m ELSE
                              IF k = merchantKey[m] THEN NoCode ELSE tokenKey[k]
      /\ \A k \in Codes : merchantKey'[k] = IF k = m THEN t ELSE merchantKey[k]
  BY <1>1, <1>2 DEF TypeOK
<1>4. /\ tokenKey' \in [Tokens -> Codes \cup {NoCode}]
      /\ merchantKey' \in [Codes -> Tokens \cup {NoToken}]
  BY <1>1, <1>2 DEF TypeOK
<1>5. KeysAgree'
  BY <1>1, <1>3 DEF KeysAgree
<1>6. KeysServed'
  BY <1>1, <1>3 DEF KeysServed, Merchants
<1>7. tokenKey'[t] = m /\ \A k \in Tokens :
        k # merchantKey[m] /\ tokenKey[k] # NoCode => tokenKey'[k] = tokenKey[k]
  BY <1>1, <1>3
<1> QED BY <1>4, <1>5, <1>6, <1>7 DEF t

\* Both keys of a merchant's token expire together.
LEMMA ExpireStep ==
  ASSUME TypeOK, KeysAgree, KeysServed, NEW m \in Codes, Expire(m)
  PROVE  /\ tokenKey' \in [Tokens -> Codes \cup {NoCode}]
         /\ merchantKey' \in [Codes -> Tokens \cup {NoToken}]
         /\ KeysAgree' /\ KeysServed'
         /\ \A t \in Tokens : t # merchantKey[m] => tokenKey'[t] = tokenKey[t]
<1>1. /\ merchantKey[m] \in Tokens
      /\ tokenKey' = [tokenKey EXCEPT ![merchantKey[m]] = NoCode]
      /\ merchantKey' = [merchantKey EXCEPT ![m] = NoToken]
      /\ UNCHANGED callbackUrl
  BY DEF Expire, TypeOK, database
<1>2. NoCode \notin Codes /\ NoToken \notin Tokens
  BY AccessAssumption
<1>3. KeysAgree'
  BY <1>1, <1>2 DEF KeysAgree, TypeOK
<1> QED BY <1>1, <1>3 DEF TypeOK, KeysServed, Merchants

-----------------------------------------------------------------------------
(***************************************************************************)
(* Types                                                                   *)
(***************************************************************************)

\* The steps of the API's startup and of its crash.
LEMMA ProcessTypes ==
  ASSUME TypeOK, KeysAgree, KeysServed, Valid(held, tokenKey), Startup \/ Crash
  PROVE  TypeOK'
<1> USE AccessAssumption DEF TypeOK, database, redis, process, Fault
<1>1. CASE StartApi
  BY <1>1 DEF StartApi
<1>2. CASE CheckFirstRun
  <2>1. (Merchants = {}) \in BOOLEAN
    OBVIOUS
  <2>2. {firstRun', user', halfway'} \subseteq BOOLEAN
    BY <1>2, <2>1 DEF CheckFirstRun
  <2>3. api' \in {"down", "count", "pregenerate", "up"}
    BY <1>2 DEF CheckFirstRun
  <2> QED BY <1>2, <2>2, <2>3 DEF CheckFirstRun
<1>3. CASE Pregenerate
  <2>1. CASE Default \in Merchants /\ SaveToken(NewToken, Default) /\ UNCHANGED faults
    <3>1. /\ tokenKey' \in [Tokens -> Codes \cup {NoCode}]
          /\ merchantKey' \in [Codes -> Tokens \cup {NoToken}]
      BY <1>3, <2>1, SaveStep DEF Pregenerate
    <3>2. held' \in [Clients -> Tokens \cup {NoToken, Revoked}]
      BY <2>1 DEF SaveToken, Without
    <3> QED BY <1>3, <2>1, <3>1, <3>2 DEF Pregenerate
  <2>2. CASE ~(Default \in Merchants /\ SaveToken(NewToken, Default) /\ UNCHANGED faults)
    BY <1>3, <2>2 DEF Pregenerate
  <2> QED BY <2>1, <2>2
<1>4. CASE Crash
  BY <1>4 DEF Crash, NoRequest
<1> QED BY <1>1, <1>2, <1>3, <1>4 DEF Startup

\* The steps of clients, and of the API for one, that change what tokens are held.
LEMMA ClientTypes ==
  ASSUME TypeOK, KeysAgree, KeysServed, ClientsServed, NEW c \in Clients,
         Refresh(c) \/ Handler(c) \/ TokenFails(c) \/ Authenticate(c) \/ Handle(c)
  PROVE  TypeOK'
<1> USE AccessAssumption
    DEF TypeOK, database, redis, process, Fault, Goto, Registering, Asking
<1>1. CASE Refresh(c) \/ FindMerchant(c) \/ TokenFails(c)
  <2>1. call' \in [Clients -> Registering \cup Asking \cup {"none"}]
    BY <1>1 DEF Refresh, FindMerchant, TokenFails
  <2>2. faults' \in 0..MaxFaults
    BY <1>1 DEF Refresh, FindMerchant, TokenFails
  <2>3. UNCHANGED <<process, database, redis, page, asked, answer, held, acting>>
    BY <1>1 DEF Refresh, FindMerchant, TokenFails
  <2> QED BY <2>1, <2>2, <2>3
<1>2. CASE CreateMerchant(c)
  <2>1. callbackUrl' \in [Codes -> Urls \cup {NoUrl}]
    <3>1. asked[c].code \in Codes /\ asked[c].url \in Urls \cup {NoUrl}
      OBVIOUS
    <3> QED BY <1>2, <3>1 DEF CreateMerchant
  <2>2. call' \in [Clients -> Registering \cup Asking \cup {"none"}]
    BY <1>2 DEF CreateMerchant, EndRegistration
  <2>3. asked' \in [Clients -> [code : Codes, url : Urls \cup {NoUrl}]]
    BY <1>2 DEF CreateMerchant, EndRegistration, NoRequest
  <2>4. UNCHANGED <<process, user, redis, page, answer, held, acting, faults>>
    BY <1>2 DEF CreateMerchant
  <2> QED BY <2>1, <2>2, <2>3, <2>4
<1>3. CASE CreateUser(c)
  BY <1>3 DEF CreateUser
<1>4. CASE Onboarded(c)
  BY <1>4 DEF Onboarded, EndRegistration, NoRequest, Show
<1>5. CASE Lookup(c)
  <2>1. merchantKey[CodeOf[c]] \in Tokens \cup {NoToken}
    OBVIOUS
  <2> QED BY <1>5, <2>1 DEF Lookup
<1>6. CASE Save(c)
  <2>1. CodeOf[c] \in Merchants
    BY <1>6 DEF Save, ClientsServed, Credentials, At
  <2>2. /\ tokenKey' \in [Tokens -> Codes \cup {NoCode}]
        /\ merchantKey' \in [Codes -> Tokens \cup {NoToken}]
    BY <1>6, <2>1, SaveStep DEF Save
  <2>3. held' \in [Clients -> Tokens \cup {NoToken, Revoked}]
    BY <1>6 DEF Save, SaveToken, Without
  <2>4. NewToken \in Tokens
    BY FreshToken
  <2>5. answer' \in [Clients -> Tokens \cup {NoToken, Revoked}]
    BY <1>6, <2>4 DEF Save, Without
  <2> QED BY <1>6, <2>2, <2>3, <2>5 DEF Save
<1>7. CASE Receive(c)
  BY <1>7 DEF Receive
<1>8. CASE Authenticate(c)
  BY <1>8 DEF Authenticate
<1>9. CASE Handle(c)
  BY <1>9 DEF Handle, UpdateCallbackUrl
<1> QED BY <1>1, <1>2, <1>3, <1>4, <1>5, <1>6, <1>7, <1>8, <1>9 DEF Handler

\* Every step leaves the variables well typed.
LEMMA TypeStep ==
  ASSUME TypeOK, KeysAgree, KeysServed, ClientsServed, [Next]_vars
  PROVE  TypeOK'
<1> USE AccessAssumption DEF TypeOK, database, redis, process, Fault
<1>1. CASE Startup \/ Crash
  BY <1>1, ProcessTypes DEF ClientsServed, Credentials, Valid
<1>2. ASSUME NEW m \in Codes, Expire(m)
      PROVE  TypeOK'
  <2>1. /\ tokenKey' \in [Tokens -> Codes \cup {NoCode}]
        /\ merchantKey' \in [Codes -> Tokens \cup {NoToken}]
    BY <1>2, ExpireStep
  <2> QED BY <1>2, <2>1 DEF Expire, Without
<1>3. ASSUME NEW c \in Dashboards, GetStatus(c) \/ Reload(c)
      PROVE  TypeOK'
  <2>1. page' \in [Dashboards -> {"loading", "onboarding", "dashboard"}]
    BY <1>3 DEF GetStatus, Reload, Show
  <2>2. /\ faults' \in 0..MaxFaults
        /\ held' \in [Clients -> Tokens \cup {NoToken, Revoked}]
    BY <1>3 DEF GetStatus, Reload
  <2>3. UNCHANGED <<process, database, redis, call, asked, answer, acting>>
    BY <1>3 DEF GetStatus, Reload
  <2> QED BY <2>1, <2>2, <2>3
<1>4. ASSUME NEW c \in Dashboards, NEW m \in Codes, NEW url \in Urls, Submit(c, m, url)
      PROVE  TypeOK'
  BY <1>4 DEF Submit, Goto, Registering
<1>5. ASSUME NEW c \in Dashboards, RegisterFails(c)
      PROVE  TypeOK'
  <2>1. (halfway \/ At(c, "user")) \in BOOLEAN
    OBVIOUS
  <2> QED BY <1>5, <2>1 DEF RegisterFails, EndRegistration, Goto, NoRequest
<1>6. ASSUME NEW c \in Clients,
             Refresh(c) \/ Handler(c) \/ TokenFails(c) \/ Authenticate(c) \/ Handle(c)
      PROVE  TypeOK'
  BY <1>6, ClientTypes
<1>7. CASE UNCHANGED vars
  BY <1>7 DEF vars
<1> QED BY <1>1, <1>2, <1>3, <1>4, <1>5, <1>6, <1>7 DEF Next

-----------------------------------------------------------------------------
(***************************************************************************)
(* The database and the tokens in Redis                                    *)
(***************************************************************************)

\* Nothing removes a merchant, and only a registration adds one.
LEMMA MerchantsGrow ==
  ASSUME TypeOK, ClientsServed, [Next]_vars
  PROVE  /\ Merchants \subseteq Merchants'
         /\ user => user'
         /\ (\A c \in Clients : ~CreateMerchant(c)) => Merchants' = Merchants
<1>1. NoUrl \notin Urls /\ Dashboards \subseteq Clients
  BY AccessAssumption
<1>2. ASSUME NEW c \in Clients, CreateMerchant(c)
      PROVE  Merchants \subseteq Merchants' /\ (user => user')
  <2>1. asked[c].url \in Urls
    BY <1>2 DEF CreateMerchant, ClientsServed, Registration, At, Registering
  <2> QED BY <1>1, <1>2, <2>1 DEF CreateMerchant, Merchants, TypeOK
<1>3. ASSUME NEW c \in Clients, Handle(c)
      PROVE  Merchants' = Merchants /\ (user => user')
  <2>1. acting[c] \in Merchants /\ UNCHANGED user
    BY <1>3 DEF Handle, ClientsServed, Credentials
  <2> QED BY <1>1, <1>3, <2>1 DEF Handle, UpdateCallbackUrl, Merchants, TypeOK
<1>4. ASSUME NEW c \in Clients, CreateUser(c)
      PROVE  Merchants' = Merchants /\ (user => user')
  BY <1>4 DEF CreateUser, Merchants
<1>5. CASE UNCHANGED database
  BY <1>5 DEF database, Merchants
<1>6. CASE ~UNCHANGED database
  <2>1. \E c \in Clients : CreateMerchant(c) \/ CreateUser(c) \/ Handle(c)
    BY <1>1, <1>6
       DEF Next, vars, database, Startup, StartApi, CheckFirstRun, Pregenerate, Crash, Expire,
           GetStatus, Reload, Submit, RegisterFails, Refresh, Handler, Onboarded,
           FindMerchant, Lookup, Save, Receive, TokenFails, Authenticate
  <2> QED BY <1>2, <1>3, <1>4, <2>1
<1> QED BY <1>5, <1>6

\* Redis changes when a token is saved, for a merchant there is, or expires.
LEMMA RedisChanges ==
  ASSUME ClientsServed, [Next]_vars, ~UNCHANGED redis
  PROVE  \/ \E m \in Merchants : SaveToken(NewToken, m) /\ UNCHANGED callbackUrl
         \/ \E m \in Codes : Expire(m)
<1>1. \/ Pregenerate \/ \E m \in Codes : Expire(m)
      \/ \E c \in Clients : Save(c)
  BY AccessAssumption
     DEF Next, vars, redis, Startup, StartApi, CheckFirstRun, Crash, GetStatus, Reload,
         Submit, RegisterFails, Refresh, Handler, CreateMerchant, CreateUser, Onboarded,
         FindMerchant, Lookup, Receive, TokenFails, Authenticate, Handle
<1>2. CASE Pregenerate
  BY <1>2 DEF Pregenerate, redis, database
<1>3. ASSUME NEW c \in Clients, Save(c)
      PROVE  \E m \in Merchants : SaveToken(NewToken, m) /\ UNCHANGED callbackUrl
  BY <1>3 DEF Save, ClientsServed, Credentials, At, database
<1> QED BY <1>1, <1>2, <1>3

\* The two keys of a token agree, and open a merchant there is, after every step.
LEMMA KeysStep ==
  ASSUME TypeOK, KeysAgree, KeysServed, ClientsServed, [Next]_vars
  PROVE  KeysAgree' /\ KeysServed'
<1>1. CASE UNCHANGED redis
  BY <1>1, MerchantsGrow DEF redis, KeysAgree, KeysServed
<1>2. CASE ~UNCHANGED redis
  BY <1>2, RedisChanges, SaveStep, ExpireStep
<1> QED BY <1>1, <1>2

-----------------------------------------------------------------------------
(***************************************************************************)
(* The clients                                                             *)
(***************************************************************************)

\* What a client was served stays good when others make the steps.
LEMMA ClientAsBefore ==
  ASSUME NEW c \in Clients, Credentials(c), Registration(c),
         UNCHANGED tokenKey, Up => Up', Merchants \subseteq Merchants', user => user',
         held'[c] = held[c], answer'[c] = answer[c], acting'[c] = acting[c],
         call'[c] = call[c], asked'[c] = asked[c]
  PROVE  Credentials(c)' /\ Registration(c)'
BY DEF Credentials, Registration, At

\* A step of one client that leaves Redis and the process alone.
LEMMA OneClientServed ==
  ASSUME TypeOK, ClientsServed, NEW c \in Clients,
         UNCHANGED <<tokenKey, api>>, Merchants \subseteq Merchants', user => user',
         \A d \in Clients \ {c} : /\ held'[d] = held[d] /\ answer'[d] = answer[d]
                                  /\ acting'[d] = acting[d]
                                  /\ call'[d] = call[d] /\ asked'[d] = asked[d],
         Credentials(c)', Registration(c)'
  PROVE  ClientsServed'
<1>1. ASSUME NEW d \in Clients, d # c
      PROVE  Credentials(d)' /\ Registration(d)'
  BY <1>1, ClientAsBefore DEF ClientsServed, Up
<1> QED BY <1>1 DEF ClientsServed

\* The steps of a dashboard's registration.
LEMMA RegistrationServed ==
  ASSUME TypeOK, ClientsServed, [Next]_vars, NEW c \in Dashboards,
         \/ \E m \in Codes, url \in Urls : Submit(c, m, url)
         \/ RegisterFails(c) \/ CreateMerchant(c) \/ CreateUser(c) \/ Onboarded(c)
  PROVE  ClientsServed'
<1>1. c \in Clients /\ NoUrl \notin Urls
  BY AccessAssumption
<1>2. /\ UNCHANGED <<tokenKey, api, held, answer, acting>>
      /\ \A d \in Clients \ {c} : call'[d] = call[d] /\ asked'[d] = asked[d]
  BY <1>1 DEF Submit, RegisterFails, CreateMerchant, CreateUser, Onboarded, EndRegistration,
              Goto, redis, process, TypeOK
<1>3. Merchants \subseteq Merchants' /\ (user => user')
  BY MerchantsGrow
<1>4. Credentials(c) /\ Registration(c)
  BY <1>1 DEF ClientsServed
<1>5. call'[c] \in Registering \cup {"none"}
  BY <1>1 DEF Submit, RegisterFails, CreateMerchant, CreateUser, Onboarded, EndRegistration,
              Goto, TypeOK, Registering
<1>6. Credentials(c)'
  BY <1>2, <1>3, <1>4, <1>5 DEF Credentials, Registering
<1>7. Up /\ Up'
  BY <1>2, <1>4 DEF Registration, Up, At, Submit, RegisterFails, CreateMerchant, CreateUser,
                    Onboarded
<1>8. Registration(c)'
  <2>1. ASSUME NEW m \in Codes, NEW url \in Urls, Submit(c, m, url)
        PROVE  Registration(c)'
    BY <1>1, <1>7, <2>1 DEF Submit, Goto, Registration, At, TypeOK
  <2>2. CASE CreateMerchant(c) /\ asked[c].code \notin Merchants
    <3>1. /\ asked[c].url \in Urls /\ asked[c].code \in Codes
          /\ callbackUrl' = [callbackUrl EXCEPT ![asked[c].code] = asked[c].url]
          /\ call'[c] = "user" /\ UNCHANGED asked
      BY <1>1, <1>4, <2>2
         DEF CreateMerchant, Goto, Registration, At, Registering, TypeOK
    <3>2. asked[c].code \in Merchants'
      BY <1>1, <3>1 DEF Merchants, TypeOK
    <3> QED BY <1>7, <3>1, <3>2 DEF Registration, At
  <2>3. CASE CreateUser(c)
    <3>1. call'[c] = "registered" /\ user' /\ UNCHANGED asked
      BY <1>1, <2>3 DEF CreateUser, Goto, TypeOK
    <3> QED BY <1>3, <1>4, <1>7, <2>3, <3>1 DEF Registration, At, CreateUser, Registering
  <2>4. CASE call'[c] = "none"
    BY <1>7, <2>4 DEF Registration, At, Registering
  <2>5. CASE RegisterFails(c) \/ Onboarded(c) \/ (CreateMerchant(c) /\ asked[c].code \in Merchants)
    <3>1. call'[c] = "none"
      BY <1>1, <2>5 DEF RegisterFails, Onboarded, CreateMerchant, EndRegistration, Goto, TypeOK
    <3> QED BY <2>4, <3>1
  <2> QED BY <2>1, <2>2, <2>3, <2>5
<1> QED BY <1>1, <1>2, <1>3, <1>6, <1>8, OneClientServed

\* The steps of a client's request for a token and of its requests with one,
\* except the one that saves a new token.
LEMMA RequestServed ==
  ASSUME TypeOK, KeysAgree, KeysServed, ClientsServed, [Next]_vars, NEW c \in Clients,
         \/ Refresh(c) \/ FindMerchant(c) \/ Lookup(c) \/ Receive(c) \/ TokenFails(c)
         \/ Authenticate(c) \/ Handle(c)
  PROVE  ClientsServed'
<1>1. /\ UNCHANGED <<tokenKey, api, asked>>
      /\ \A d \in Clients \ {c} : /\ held'[d] = held[d] /\ answer'[d] = answer[d]
                                  /\ acting'[d] = acting[d] /\ call'[d] = call[d]
  BY DEF Refresh, FindMerchant, Lookup, Receive, TokenFails, Authenticate, Handle,
         Goto, redis, process, TypeOK
<1>2. Merchants \subseteq Merchants' /\ (user => user')
  BY MerchantsGrow
<1>3. Credentials(c) /\ Registration(c)
  BY DEF ClientsServed
<1>4. /\ NoCode \notin Codes /\ CodeOf[c] \in Codes
      /\ NoToken \notin Tokens /\ Revoked \notin Tokens
  BY AccessAssumption
<1>5. CASE Refresh(c) \/ TokenFails(c)
  <2>1. /\ UNCHANGED <<held, answer, acting>>
        /\ call'[c] \in {"find", "none"}
        /\ Up
    BY <1>3, <1>5 DEF Refresh, TokenFails, Goto, TypeOK, Registration, At
  <2>2. Credentials(c)'
    BY <1>1, <1>2, <1>3, <2>1 DEF Credentials
  <2>3. Registration(c)'
    BY <1>1, <2>1 DEF Registration, At, Up, Registering
  <2> QED BY <1>1, <1>2, <2>2, <2>3, OneClientServed
<1>6. CASE FindMerchant(c)
  <2>1. /\ UNCHANGED <<held, answer, acting>>
        /\ call'[c] = IF CodeOf[c] \in Merchants THEN "lookup" ELSE "none"
        /\ Up
    BY <1>3, <1>6 DEF FindMerchant, Goto, TypeOK, Registration, At
  <2>2. Credentials(c)'
    BY <1>1, <1>2, <1>3, <2>1 DEF Credentials
  <2>3. Registration(c)'
    BY <1>1, <2>1 DEF Registration, At, Up, Registering
  <2> QED BY <1>1, <1>2, <2>2, <2>3, OneClientServed
<1>7. CASE Lookup(c)
  <2>1. /\ UNCHANGED <<held, acting>>
        /\ answer'[c] = merchantKey[CodeOf[c]]
        /\ call[c] = "lookup" /\ call'[c] \in {"save", "token"}
        /\ Up
    BY <1>3, <1>7 DEF Lookup, Goto, TypeOK, Registration, At
  <2>2. answer'[c] \in Tokens => tokenKey[answer'[c]] = CodeOf[c]
    BY <1>4, <2>1 DEF KeysAgree
  <2>3. Credentials(c)'
    BY <1>1, <1>2, <1>3, <2>1, <2>2 DEF Credentials
  <2>4. Registration(c)'
    BY <1>1, <2>1 DEF Registration, At, Up, Registering
  <2> QED BY <1>1, <1>2, <2>3, <2>4, OneClientServed
<1>8. CASE Receive(c)
  <2>1. /\ held'[c] = answer[c] /\ answer'[c] = NoToken /\ UNCHANGED acting
        /\ call'[c] = "none" /\ Up
    BY <1>3, <1>8 DEF Receive, Goto, TypeOK, Registration, At
  <2>2. Credentials(c)'
    BY <1>1, <1>2, <1>3, <1>4, <2>1 DEF Credentials
  <2>3. Registration(c)'
    BY <1>1, <2>1 DEF Registration, At, Up, Registering
  <2> QED BY <1>1, <1>2, <2>2, <2>3, OneClientServed
<1>9. CASE Authenticate(c)
  <2>1. /\ UNCHANGED <<held, answer, call>>
        /\ acting'[c] = tokenKey[held[c]] /\ held[c] \in Tokens /\ Up
    BY <1>9 DEF Authenticate, TypeOK
  <2>2. acting'[c] = CodeOf[c] /\ CodeOf[c] \in Merchants
    BY <1>3, <1>4, <2>1 DEF Credentials, KeysServed
  <2>3. Credentials(c)'
    BY <1>1, <1>2, <1>3, <2>1, <2>2 DEF Credentials
  <2>4. Registration(c)'
    BY <1>1, <1>2, <1>3, <2>1 DEF Registration, At, Up
  <2> QED BY <1>1, <1>2, <2>3, <2>4, OneClientServed
<1>10. CASE Handle(c)
  <2>1. UNCHANGED <<held, answer, call>> /\ acting'[c] = NoCode
    BY <1>10 DEF Handle, TypeOK
  <2>2. Credentials(c)'
    BY <1>1, <1>2, <1>3, <2>1 DEF Credentials
  <2>3. Registration(c)'
    BY <1>1, <1>2, <1>3, <2>1 DEF Registration, At, Up
  <2> QED BY <1>1, <1>2, <2>2, <2>3, OneClientServed
<1> QED BY <1>5, <1>6, <1>7, <1>8, <1>9, <1>10

\* A deleted token takes no client's good one with it.
LEMMA TokensServed ==
  ASSUME TypeOK, KeysAgree, KeysServed, ClientsServed, [Next]_vars,
         \/ Pregenerate
         \/ \E m \in Codes : Expire(m)
         \/ \E c \in Clients : Save(c)
  PROVE  ClientsServed'
<1>1. Merchants \subseteq Merchants' /\ (user => user')
  BY MerchantsGrow
<1>2. Valid(held, tokenKey) /\ Valid(answer, tokenKey)
  BY DEF ClientsServed, Credentials, Valid
<1>3. NoToken \notin Tokens
  BY AccessAssumption
<1>4. CASE Pregenerate
  <2>1. /\ ~Up /\ UNCHANGED <<call, asked, answer, acting>>
    BY <1>4 DEF Pregenerate, Up
  <2>2. \A c \in Clients : At(c, "none") /\ answer[c] = NoToken
    BY <2>1 DEF ClientsServed, Registration
  <2>3. Valid(held', tokenKey')
    <3>1. CASE Default \in Merchants /\ SaveToken(NewToken, Default)
      <4>1. \A t \in Tokens : t # merchantKey[Default] /\ tokenKey[t] # NoCode =>
              tokenKey'[t] = tokenKey[t]
        BY <1>4, <3>1, SaveStep DEF Pregenerate, database
      <4>2. held' = Without(held, merchantKey[Default])
        BY <3>1 DEF SaveToken
      <4> QED BY <1>2, <4>1, <4>2, WithoutDead DEF TypeOK
    <3>2. CASE UNCHANGED <<redis, held>>
      BY <1>2, <3>2 DEF redis, Valid
    <3> QED BY <1>4, <3>1, <3>2 DEF Pregenerate
  <2>4. ASSUME NEW c \in Clients
        PROVE  Credentials(c)' /\ Registration(c)'
    BY <1>1, <1>3, <2>1, <2>2, <2>3
       DEF ClientsServed, Credentials, Registration, Valid, At, Registering
  <2> QED BY <2>4 DEF ClientsServed
<1>5. ASSUME NEW m \in Codes, Expire(m)
      PROVE  ClientsServed'
  <2>1. \A t \in Tokens : t # merchantKey[m] /\ tokenKey[t] # NoCode => tokenKey'[t] = tokenKey[t]
    BY <1>5, ExpireStep
  <2>2. /\ held' = Without(held, merchantKey[m])
        /\ answer' = Without(answer, merchantKey[m])
        /\ UNCHANGED <<api, call, asked, acting>>
    BY <1>5 DEF Expire, process
  <2>3. /\ held \in [Clients -> Tokens \cup {NoToken, Revoked}]
        /\ answer \in [Clients -> Tokens \cup {NoToken, Revoked}]
    BY DEF TypeOK
  <2>4. Valid(held', tokenKey')
    BY <1>2, <2>1, <2>2, <2>3, WithoutDead
  <2>5. /\ Valid(answer', tokenKey')
        /\ \A c \in Clients : answer[c] = NoToken => answer'[c] = NoToken
    BY <1>2, <2>1, <2>2, <2>3, WithoutDead
  <2>6. ASSUME NEW c \in Clients
        PROVE  Credentials(c)' /\ Registration(c)'
    BY <1>1, <2>2, <2>4, <2>5
       DEF ClientsServed, Credentials, Registration, Valid, At, Registering, Up
  <2> QED BY <2>6 DEF ClientsServed
<1>6. ASSUME NEW c \in Clients, Save(c)
      PROVE  ClientsServed'
  <2> DEFINE old == merchantKey[CodeOf[c]]
             kept == Without(answer, old)
  <2>1. CodeOf[c] \in Merchants /\ Up
    BY <1>6 DEF Save, ClientsServed, Credentials, Registration, At
  <2>2. /\ tokenKey'[NewToken] = CodeOf[c]
        /\ \A t \in Tokens : t # old /\ tokenKey[t] # NoCode => tokenKey'[t] = tokenKey[t]
    BY <1>6, <2>1, SaveStep DEF Save, database
  <2>3. /\ held' = Without(held, old)
        /\ answer' = [kept EXCEPT ![c] = NewToken]
        /\ call' = [call EXCEPT ![c] = "token"]
        /\ UNCHANGED <<api, asked, acting>>
    BY <1>6 DEF Save, SaveToken, Goto, process
  <2>4. /\ Valid(held', tokenKey') /\ Valid(kept, tokenKey')
        /\ kept \in [Clients -> Tokens \cup {NoToken, Revoked}]
    BY <1>2, <2>2, <2>3, WithoutDead DEF TypeOK
  <2>5. Valid(answer', tokenKey')
    <3> HIDE DEF kept
    <3> QED BY <2>2, <2>3, <2>4 DEF Valid
  <2>6. ASSUME NEW d \in Clients
        PROVE  Credentials(d)' /\ Registration(d)'
    <3>1. Credentials(d) /\ Registration(d)
      BY DEF ClientsServed
    <3>2. d # c => call'[d] = call[d]
      BY <2>3 DEF TypeOK
    <3>3. call'[c] = "token"
      BY <2>3 DEF TypeOK
    <3>4. Credentials(d)'
      BY <1>1, <2>1, <2>3, <2>4, <2>5, <3>1, <3>2, <3>3 DEF Credentials, Valid
    <3>5. Registration(d)'
      BY <1>1, <2>1, <2>3, <3>1, <3>2, <3>3 DEF Registration, At, Up, Registering
    <3> QED BY <3>4, <3>5
  <2> QED BY <2>6 DEF ClientsServed
<1> QED BY <1>4, <1>5, <1>6

\* When the API stops, and while it starts, no client is being served.
LEMMA ProcessServed ==
  ASSUME TypeOK, ClientsServed, [Next]_vars, Crash \/ StartApi \/ CheckFirstRun
  PROVE  ClientsServed'
<1>1. Merchants \subseteq Merchants' /\ (user => user')
  BY MerchantsGrow
<1>2. UNCHANGED <<tokenKey, held>> /\ NoToken \notin Tokens
  BY AccessAssumption DEF Crash, StartApi, CheckFirstRun, redis
<1>3. ASSUME NEW c \in Clients
      PROVE  Credentials(c)' /\ Registration(c)'
  <2>1. CASE Crash
    BY <1>2, <2>1 DEF Crash, Credentials, Registration, ClientsServed, At, Registering
  <2>2. CASE StartApi \/ CheckFirstRun
    <3>1. ~Up /\ UNCHANGED <<call, asked, answer, acting>>
      BY <2>2 DEF StartApi, CheckFirstRun, Up
    <3> QED BY <1>1, <1>2, <3>1 DEF Credentials, Registration, ClientsServed, At, Registering
  <2> QED BY <2>1, <2>2
<1> QED BY <1>3 DEF ClientsServed

\* What every client was served is good after every step.
LEMMA ClientsStep ==
  ASSUME TypeOK, KeysAgree, KeysServed, ClientsServed, [Next]_vars
  PROVE  ClientsServed'
<1>1. Merchants \subseteq Merchants' /\ (user => user')
  BY MerchantsGrow
<1>2. CASE Startup \/ Crash
  BY <1>2, ProcessServed, TokensServed DEF Startup
<1>3. ASSUME NEW m \in Codes, Expire(m)
      PROVE  ClientsServed'
  BY <1>3, TokensServed
<1>4. ASSUME NEW c \in Dashboards, GetStatus(c)
      PROVE  ClientsServed'
  BY <1>1, <1>4, ClientAsBefore DEF GetStatus, process, redis, ClientsServed, Up
<1>5. ASSUME NEW c \in Dashboards, Reload(c)
      PROVE  ClientsServed'
  <2>1. /\ c \in Clients /\ NoToken \notin Tokens /\ held'[c] = NoToken
        /\ \A d \in Clients \ {c} : held'[d] = held[d]
        /\ UNCHANGED <<tokenKey, api, answer, acting, call, asked>>
    BY <1>5, AccessAssumption DEF Reload, process, redis, TypeOK
  <2>2. Credentials(c)' /\ Registration(c)'
    BY <1>1, <2>1 DEF Credentials, Registration, ClientsServed, At, Up
  <2> QED BY <1>1, <2>1, <2>2, OneClientServed
<1>6. ASSUME NEW c \in Dashboards,
             \/ \E m \in Codes, url \in Urls : Submit(c, m, url)
             \/ RegisterFails(c)
      PROVE  ClientsServed'
  BY <1>6, RegistrationServed
<1>7. ASSUME NEW c \in Clients, CreateMerchant(c) \/ CreateUser(c) \/ Onboarded(c)
      PROVE  ClientsServed'
  <2>1. c \in Dashboards
    BY <1>7 DEF CreateMerchant, CreateUser, Onboarded, ClientsServed, Registration, At,
                Registering
  <2> QED BY <1>7, <2>1, RegistrationServed
<1>8. ASSUME NEW c \in Clients,
             \/ Refresh(c) \/ FindMerchant(c) \/ Lookup(c) \/ Save(c) \/ Receive(c)
             \/ TokenFails(c) \/ Authenticate(c) \/ Handle(c)
      PROVE  ClientsServed'
  BY <1>8, RequestServed, TokensServed
<1>9. CASE UNCHANGED vars
  BY <1>1, <1>9, ClientAsBefore DEF vars, ClientsServed, Up
<1> QED BY <1>2, <1>3, <1>4, <1>5, <1>6, <1>7, <1>8, <1>9 DEF Next, Handler

-----------------------------------------------------------------------------
(***************************************************************************)
(* The first-run flag                                                      *)
(***************************************************************************)

\* The flag is right on the way up: nothing removes a merchant meanwhile.
LEMMA StartupStep ==
  ASSUME TypeOK, ClientsServed, StartupTruthful, [Next]_vars
  PROVE  StartupTruthful'
<1>1. Merchants \subseteq Merchants'
  BY MerchantsGrow
<1>2. CASE CheckFirstRun
  BY <1>1, <1>2 DEF CheckFirstRun, StartupTruthful
<1>3. CASE UNCHANGED <<api, firstRun>>
  BY <1>1, <1>3 DEF StartupTruthful
<1>4. CASE api' \in {"down", "count", "up"}
  BY <1>4 DEF StartupTruthful
<1>5. ASSUME NEW c \in Clients, CreateUser(c)
      PROVE  StartupTruthful'
  BY <1>5 DEF CreateUser, ClientsServed, Registration, StartupTruthful, At, Up
<1>6. \/ CheckFirstRun \/ UNCHANGED <<api, firstRun>> \/ api' \in {"down", "count", "up"}
      \/ \E c \in Clients : CreateUser(c)
  BY AccessAssumption
     DEF Next, vars, process, Startup, StartApi, Pregenerate, Crash, Expire, GetStatus, Reload,
         Submit, RegisterFails, Refresh, Handler, CreateMerchant, Onboarded,
         FindMerchant, Lookup, Save, Receive, TokenFails, Authenticate, Handle
<1> QED BY <1>2, <1>3, <1>4, <1>5, <1>6

\* Whoever is between the two INSERTs accounts for a flag that is behind.
Between == \E c \in Dashboards : At(c, "user")

\* A flag that has been set to false stays so while the API is up; it is
\* behind only as long as somebody, or a failure, accounts for it.
LEMMA FlagStep ==
  ASSUME TypeOK, ClientsServed, StartupTruthful, OnboardingTruthful, [Next]_vars, Up'
  PROVE  /\ ~firstRun' => Merchants' # {}
         /\ firstRun' => Merchants' = {} \/ halfway' \/ Between'
<1>1. Merchants \subseteq Merchants'
  BY MerchantsGrow
<1>2. Dashboards \subseteq Clients
  BY AccessAssumption
<1>3. CASE ~Up
  <2>1. CheckFirstRun \/ Pregenerate
    BY <1>2, <1>3, AccessAssumption
       DEF Next, vars, process, Startup, StartApi, Crash, Expire, GetStatus, Reload, Up,
           Submit, RegisterFails, Refresh, Handler, CreateMerchant, CreateUser, Onboarded,
           FindMerchant, Lookup, Save, Receive, TokenFails, Authenticate, Handle
  <2>2. CASE CheckFirstRun
    BY <2>2 DEF CheckFirstRun, Up, database, Merchants
  <2>3. CASE Pregenerate
    BY <1>1, <2>3 DEF Pregenerate, StartupTruthful
  <2> QED BY <2>1, <2>2, <2>3
<1>4. CASE Up
  <2>1. /\ ~firstRun => Merchants # {}
        /\ firstRun => Merchants = {} \/ halfway \/ Between
    BY <1>4 DEF OnboardingTruthful, Between
  <2>2. ASSUME NEW c \in Clients, CreateMerchant(c), asked[c].code \notin Merchants
        PROVE  Between' /\ firstRun' = firstRun
    BY <2>2 DEF CreateMerchant, ClientsServed, Registration, At, Registering, Goto, TypeOK,
                Between, process
  <2>3. ASSUME NEW c \in Clients, CreateUser(c)
        PROVE  ~firstRun' /\ Merchants # {}
    BY <2>3 DEF CreateUser, ClientsServed, Registration, At
  <2>4. ASSUME NEW c \in Dashboards, RegisterFails(c)
        PROVE  /\ firstRun' = firstRun /\ Merchants' = Merchants
               /\ halfway \/ Between => halfway' \/ Between'
    <3>1. /\ firstRun' = firstRun /\ Merchants' = Merchants
          /\ halfway' = (halfway \/ At(c, "user"))
          /\ \A d \in Dashboards \ {c} : call'[d] = call[d]
      BY <1>2, <2>4 DEF RegisterFails, EndRegistration, Goto, TypeOK, database, Merchants
    <3> QED BY <3>1 DEF Between, At
  <2>5. ASSUME ~(\E c \in Clients : CreateUser(c)),
               ~(\E c \in Clients : CreateMerchant(c) /\ asked[c].code \notin Merchants),
               ~(\E c \in Dashboards : RegisterFails(c))
        PROVE  /\ firstRun' = firstRun /\ Merchants' = Merchants /\ halfway' = halfway
               /\ Between => Between'
    <3>1. firstRun' = firstRun /\ halfway' = halfway
      BY <1>2, <1>4, <2>5
         DEF Next, vars, process, Startup, StartApi, CheckFirstRun, Pregenerate, Crash, Expire,
             GetStatus, Reload, Up, Submit, Refresh, Handler, CreateMerchant, Onboarded,
             FindMerchant, Lookup, Save, Receive, TokenFails, Authenticate, Handle
    <3>2. Merchants' = Merchants
      <4>1. CASE \E c \in Clients : CreateMerchant(c)
        BY <2>5, <4>1 DEF CreateMerchant, Merchants
      <4> QED BY <4>1, MerchantsGrow
    <3>3. ASSUME NEW d \in Dashboards, At(d, "user")
          PROVE  At(d, "user")'
      <4>1. d \in Clients
        BY <1>2
      <4>2. CASE UNCHANGED call
        BY <3>3, <4>2 DEF At
      <4>3. ASSUME NEW c \in Clients, call[c] # "user", NEW s, call' = [call EXCEPT ![c] = s]
            PROVE  At(d, "user")'
        BY <3>3, <4>1, <4>3 DEF At, TypeOK
      <4>4. UNCHANGED call \/ \E c \in Clients : call[c] # "user" /\
                                \E s : call' = [call EXCEPT ![c] = s]
        BY <1>2, <1>4, <2>5
           DEF Next, vars, Startup, StartApi, CheckFirstRun, Pregenerate, Crash, Expire,
               GetStatus, Reload, Up, Submit, Refresh, Handler, CreateMerchant, Onboarded,
               FindMerchant, Lookup, Save, Receive, TokenFails, Authenticate, Handle,
               Goto, At, EndRegistration
      <4> QED BY <4>2, <4>3, <4>4
    <3> QED BY <3>1, <3>2, <3>3 DEF Between
  <2> QED BY <1>1, <2>1, <2>2, <2>3, <2>4, <2>5
<1> QED BY <1>3, <1>4

\* A dashboard shows the monitor only when a merchant is there.
LEMMA PagesStep ==
  ASSUME TypeOK, ClientsServed, OnboardingTruthful, [Next]_vars,
         NEW c \in Dashboards, On(c, "dashboard")'
  PROVE  Merchants' # {}
<1>1. Merchants \subseteq Merchants' /\ Dashboards \subseteq Clients
  BY MerchantsGrow, AccessAssumption
<1>2. CASE On(c, "dashboard")
  BY <1>1, <1>2 DEF OnboardingTruthful
<1>3. CASE ~On(c, "dashboard")
  <2>1. \/ \E d \in Dashboards : GetStatus(d) \/ Reload(d)
        \/ \E d \in Clients : Onboarded(d)
    BY <1>3 DEF On,
         Next, vars, Startup, StartApi, CheckFirstRun, Pregenerate, Crash, Expire,
         Submit, RegisterFails, Refresh, Handler, CreateMerchant, CreateUser,
         FindMerchant, Lookup, Save, Receive, TokenFails, Authenticate, Handle
  <2>2. ASSUME NEW d \in Dashboards, GetStatus(d)
        PROVE  Merchants' # {}
    <3>1. page'[c] = IF d = c THEN IF Up /\ ~firstRun THEN "dashboard" ELSE "onboarding"
                              ELSE page[c]
      BY <2>2 DEF GetStatus, Show, TypeOK
    <3> QED BY <1>1, <1>3, <3>1 DEF On, OnboardingTruthful
  <2>3. ASSUME NEW d \in Dashboards, Reload(d)
        PROVE  Merchants' # {}
    <3>1. page'[c] = IF d = c THEN "loading" ELSE page[c]
      BY <2>3 DEF Reload, Show, TypeOK
    <3> QED BY <1>3, <3>1 DEF On
  <2>4. ASSUME NEW d \in Clients, Onboarded(d)
        PROVE  Merchants' # {}
    BY <1>1, <2>4 DEF Onboarded, ClientsServed, Registration, At
  <2> QED BY <2>1, <2>2, <2>3, <2>4
<1> QED BY <1>2, <1>3

\* The flag, and what the pages show, stay right or accounted for.
LEMMA OnboardingStep ==
  ASSUME TypeOK, KeysAgree, KeysServed, ClientsServed, StartupTruthful, OnboardingTruthful,
         [Next]_vars
  PROVE  OnboardingTruthful'
<1>1. Up' => /\ ~firstRun' => Merchants' # {}
             /\ firstRun' => Merchants' = {} \/ halfway' \/ Between'
  BY FlagStep
<1>2. \A c \in Dashboards : On(c, "dashboard")' => Merchants' # {}
  BY PagesStep
<1>3. \A c \in Dashboards : At(c, "registered")' => (asked[c].code \in Merchants)' /\ user'
  BY ClientsStep, AccessAssumption DEF ClientsServed, Registration, At
<1> QED BY <1>1, <1>2, <1>3 DEF OnboardingTruthful, Between

-----------------------------------------------------------------------------
(***************************************************************************)
(* Theorems                                                                *)
(***************************************************************************)

\* It all holds of an API that has not started.
LEMMA InitStep ==
  ASSUME Init
  PROVE  IInv
<1>1. /\ Default \in Codes /\ NoCode \notin Codes /\ NoToken \notin Tokens
      /\ MaxFaults \in Nat /\ NoUrl \notin Urls
  BY AccessAssumption
<1>2. TypeOK
  <2>1. {firstRun, user, halfway} \subseteq BOOLEAN
    BY DEF Init
  <2>2. asked \in [Clients -> [code : Codes, url : Urls \cup {NoUrl}]]
    BY <1>1 DEF Init, NoRequest
  <2> QED BY <1>1, <2>1, <2>2 DEF Init, TypeOK, Registering, Asking
<1>3. Merchants = {}
  BY DEF Init, Merchants
<1>4. KeysAgree /\ KeysServed
  BY <1>1 DEF Init, KeysAgree, KeysServed
<1>5. ClientsServed
  BY <1>1 DEF Init, ClientsServed, Credentials, Registration, At, Registering
<1>6. StartupTruthful /\ OnboardingTruthful
  BY <1>3, AccessAssumption DEF Init, StartupTruthful, OnboardingTruthful, Up, At, On
<1> QED BY <1>2, <1>4, <1>5, <1>6 DEF IInv

\* Every behaviour of the sign-in and the onboarding keeps the inductive invariant:
\* what Redis holds, what each client was given, and what the flag says fit together.
THEOREM AccessInvariance == Spec => []IInv
<1>1. Init => IInv
  BY InitStep
<1>2. IInv /\ [Next]_vars => IInv'
  BY TypeStep, KeysStep, ClientsStep, StartupStep, OnboardingStep DEF IInv
<1> QED BY <1>1, <1>2, PTL DEF Spec

\* The variables hold what they are meant to.
THEOREM AccessTypes == Spec => []TypeOK
<1>1. IInv => TypeOK
  BY DEF IInv
<1> QED BY <1>1, AccessInvariance, PTL

\* However tokens are asked for, replaced and expire, the two Redis keys of
\* saveTokenToRedis never disagree.
THEOREM OneTokenPerMerchant == Spec => []KeysAgree
<1>1. IInv => KeysAgree
  BY DEF IInv
<1> QED BY <1>1, AccessInvariance, PTL

\* The flag of AuthService is out of date only between the two INSERTs of
\* registerMerchant, or after one that failed there.
THEOREM FlagTruthful == Spec => []OnboardingTruthful
<1>1. IInv => OnboardingTruthful
  BY DEF IInv
<1> QED BY <1>1, AccessInvariance, PTL

\* A callback URL is what its registration said, and is changed only by a client
\* that asked for the token of that merchant.
THEOREM SettingsOwned == Spec => SettingsChangedByOwner
<1> DEFINE Owned == \A m \in Codes : callbackUrl'[m] # callbackUrl[m] =>
       IF m \in Merchants
       THEN \E c \in Clients : acting[c] = m /\ CodeOf[c] = m
       ELSE \E c \in Dashboards :
              At(c, "merchant") /\ asked[c] = [code |-> m, url |-> callbackUrl'[m]]
<1>1. ASSUME IInv, [Next]_vars
      PROVE  [Owned]_vars
  <2>1. TypeOK /\ ClientsServed
    BY <1>1 DEF IInv
  <2>2. SUFFICES ASSUME NEW m \in Codes, callbackUrl'[m] # callbackUrl[m]
                 PROVE  IF m \in Merchants
                        THEN \E c \in Clients : acting[c] = m /\ CodeOf[c] = m
                        ELSE \E c \in Dashboards : /\ At(c, "merchant")
                               /\ asked[c] = [code |-> m, url |-> callbackUrl'[m]]
    OBVIOUS
  <2>3. \E c \in Clients : CreateMerchant(c) \/ Handle(c)
    BY <1>1, <2>2, AccessAssumption
       DEF Next, vars, database, Startup, StartApi, CheckFirstRun, Pregenerate, Crash, Expire,
           GetStatus, Reload, Submit, RegisterFails, Refresh, Handler, CreateUser, Onboarded,
           FindMerchant, Lookup, Save, Receive, TokenFails, Authenticate
  <2>4. ASSUME NEW c \in Clients, CreateMerchant(c)
        PROVE  /\ m \notin Merchants /\ c \in Dashboards /\ At(c, "merchant")
               /\ asked[c] = [code |-> m, url |-> callbackUrl'[m]]
    <3>1. /\ At(c, "merchant") /\ asked[c].code \notin Merchants
          /\ callbackUrl' = [callbackUrl EXCEPT ![asked[c].code] = asked[c].url]
      BY <2>2, <2>4 DEF CreateMerchant
    <3>2. c \in Dashboards
      BY <2>1, <3>1 DEF ClientsServed, Registration, At, Registering
    <3>3. asked[c] \in [code : Codes, url : Urls \cup {NoUrl}]
      BY <2>1 DEF TypeOK
    <3>4. m = asked[c].code /\ callbackUrl'[m] = asked[c].url
      BY <2>1, <2>2, <3>1 DEF TypeOK
    <3> QED BY <3>1, <3>2, <3>3, <3>4
  <2>5. ASSUME NEW c \in Clients, Handle(c)
        PROVE  acting[c] = m /\ CodeOf[c] = m /\ m \in Merchants
    <3>1. acting[c] = CodeOf[c] /\ CodeOf[c] \in Merchants
      BY <2>1, <2>5 DEF Handle, ClientsServed, Credentials
    <3>2. acting[c] = m
      BY <2>1, <2>2, <2>5 DEF Handle, UpdateCallbackUrl, TypeOK
    <3> QED BY <3>1, <3>2
  <2> QED BY <2>3, <2>4, <2>5
<1>2. IInv /\ [Next]_vars => [Owned]_vars
  BY <1>1
<1> QED BY <1>2, AccessInvariance, PTL DEF Spec, SettingsChangedByOwner
=============================================================================
