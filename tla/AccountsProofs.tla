--------------------------- MODULE AccountsProofs ---------------------------
(***************************************************************************)
(* TLAPS proofs about the accounts of Frontend: what a registration, a      *)
(* token and a secret are good for, for any number of users, services'      *)
(* restarts and concurrent requests.                                        *)
(*                                                                          *)
(* None of it is inductive: register() reads the account and writes it      *)
(* later, unconditionally.  Between the two, AccountsInv says, the account  *)
(* is absent or was made by a registration that overlapped.                 *)
(***************************************************************************)
EXTENDS FrontendProofs

Saving(h) == pc[h] = "save"

\* What register() found is still so when it saves, unless it was overtaken.
SaveIsSafe(h) ==
    LET e == request[h].email IN
    /\ users[e] = NoUser \/ users[e].role = Submitter
    /\ e \notin raced => /\ users[e] = NoUser
                         /\ \A g \in Handlers : Saving(g) /\ request[g].email = e => g = h

\* Registration gives nobody a rank.
RanksAreSeeded ==
    \A e \in Emails :
        users[e] # NoUser /\ users[e].role # Submitter => e \in DOMAIN DemoUsers

TokensMatch ==
    \A token \in tokens : users[token.sub] # NoUser /\ users[token.sub].role = token.role

AccountsInv ==
    /\ \A h \in Handlers : Saving(h) => SaveIsSafe(h)
    /\ RanksAreSeeded /\ RegistrationSticks /\ TokensMatch

(* At first there is nobody.                                                *)
LEMMA AccountsInitially == Init => AccountsInv
BY DEF Init, ThrottleInit, AccountsInit, AccountsInv, Saving, RanksAreSeeded,
       RegistrationSticks, TokensMatch

(* A step that leaves the accounts alone and brings nobody to save.         *)
LEMMA AccountsQuiet ==
    ASSUME AccountsInv, UNCHANGED accounts,
           \A h \in Handlers : Saving(h)' => Saving(h) /\ request'[h] = request[h]
    PROVE  AccountsInv'
<1>1. users' = users /\ tokens' = tokens /\ registered' = registered /\ raced' = raced
  BY DEF accounts
<1>2. \A h \in Handlers : Saving(h)' => SaveIsSafe(h)'
  BY <1>1 DEF AccountsInv, SaveIsSafe
<1>3. RanksAreSeeded' /\ TokensMatch'
  BY <1>1 DEF AccountsInv, RanksAreSeeded, TokensMatch
<1>4. RegistrationSticks'
  BY <1>1 DEF AccountsInv, RegistrationSticks, Authenticated
<1> QED
  BY <1>2, <1>3, <1>4 DEF AccountsInv

(* What the types say of accounts, tokens and registrations.                *)
LEMMA UserFacts ==
    ASSUME FrontendInv
    PROVE  /\ users \in [Emails -> User \cup {NoUser}] /\ NoUser \notin User
           /\ tokens \subseteq Token
           /\ registered \subseteq [email: Emails, password: Passwords]
BY AccountsAssumption DEF FrontendInv, AccountTypes, User

(* A new account is there, has its role and opens with its password.        *)
LEMMA NewUserFacts ==
    ASSUME NEW password \in Passwords, NEW salt \in Salts, NEW role \in Roles
    PROVE  /\ NewUser(password, salt, role) # NoUser
           /\ NewUser(password, salt, role).role = role
           /\ VerifyPassword(password, NewUser(password, salt, role))
<1>1. NewUser(password, salt, role) # NoUser
  BY NewUserType, AccountsAssumption DEF User
<1> QED
  BY <1>1 DEF NewUser, HashPassword, VerifyPassword

-----------------------------------------------------------------------------
(* The steps that do change an account                                     *)

(* Seeding fills in absent accounts while no registration is under way.     *)
LEMMA SeedAccounts ==
    ASSUME FrontendInv, AccountsInv, Seed, UNCHANGED handlers
    PROVE  AccountsInv'
<1>1. pc' = pc /\ request' = request /\ UNCHANGED <<tokens, registered, raced>>
  BY DEF handlers, Seed
<1>2. \A h \in Handlers : ~Saving(h)'
  BY <1>1, AtAccount DEF Seed, Saving
<1>3. PICK written \in SUBSET DOMAIN DemoUsers :
          /\ \A e \in written : users[e] = NoUser
          /\ Seeded(written) \/ (written = {} /\ UNCHANGED users)
  BY DEF Seed, Seedable
<1>4. /\ \A e \in Emails \ written : users'[e] = users[e]
      /\ \A e \in written : users'[e] # NoUser
  <2>1. CASE Seeded(written)
    <3>1. PICK salts \in [written -> Salts] :
              users' = [e \in Emails |-> IF e \in written THEN DemoUser(e, salts[e]) ELSE users[e]]
      BY <2>1 DEF Seeded
    <3>2. \A e \in written : DemoUser(e, salts[e]) # NoUser
      BY NewUserFacts, AccountsAssumption DEF DemoUser
    <3> QED
      BY <3>1, <3>2, AccountsAssumption
  <2>2. CASE written = {} /\ UNCHANGED users
    BY <2>2
  <2> QED
    BY <1>3, <2>1, <2>2
<1>5. RanksAreSeeded'
  BY <1>4 DEF AccountsInv, RanksAreSeeded
<1>6. RegistrationSticks'
  <2> SUFFICES ASSUME NEW r \in registered, r.email \notin raced
               PROVE  Authenticated(r.email, r.password)'
    BY <1>1 DEF RegistrationSticks
  <2>1. r.email \in Emails /\ Authenticated(r.email, r.password)
    BY UserFacts DEF AccountsInv, RegistrationSticks
  <2>2. users'[r.email] = users[r.email]
    BY <1>3, <1>4, <2>1 DEF Authenticated
  <2> QED
    BY <2>1, <2>2 DEF Authenticated
<1>7. TokensMatch'
  <2> SUFFICES ASSUME NEW token \in tokens
               PROVE  users'[token.sub] # NoUser /\ users'[token.sub].role = token.role
    BY <1>1 DEF TokensMatch
  <2>1. token.sub \in Emails /\ users[token.sub] # NoUser /\ users[token.sub].role = token.role
    BY UserFacts DEF AccountsInv, TokensMatch, Token
  <2> QED
    BY <1>3, <1>4, <2>1
<1> QED
  BY <1>2, <1>5, <1>6, <1>7 DEF AccountsInv

(* register() found no account: whoever found none before it has raced it.  *)
LEMMA CheckEmailAccounts ==
    ASSUME FrontendInv, AccountsInv, NEW h \in Handlers, CheckEmail(h)
    PROVE  AccountsInv'
<1> DEFINE e == request[h].email
<1>1. UNCHANGED <<users, tokens, registered>>
  BY DEF CheckEmail
<1>2. CASE Leave(h) /\ UNCHANGED raced
  <2>1. \A g \in Handlers : Saving(g)' => Saving(g) /\ request'[g] = request[g]
    BY <1>2 DEF Leave, Goto, Saving, FrontendInv, ThrottleTypes
  <2> QED
    BY <1>1, <1>2, <2>1, AccountsQuiet DEF accounts
<1>3. CASE /\ ~Taken(e) /\ Goto(h, "save") /\ raced' = raced \cup {x \in {e} : Registering(x)}
           /\ UNCHANGED <<request, hit>>
  <2>1. /\ request' = request /\ raced \subseteq raced'
        /\ \A g \in Handlers : Saving(g)' <=> g = h \/ Saving(g)
    BY <1>3 DEF Goto, Saving, FrontendInv, ThrottleTypes
  <2>2. users[e] = NoUser
    BY <1>3 DEF Taken
  <2>3. e \notin raced' => \A g \in Handlers : Saving(g) => request[g].email # e
    BY <1>3 DEF Registering, Saving
  <2>4. SaveIsSafe(h)'
    BY <1>1, <2>1, <2>2, <2>3 DEF SaveIsSafe
  <2>5. ASSUME NEW g \in Handlers, Saving(g), g # h PROVE SaveIsSafe(g)'
    <3>1. SaveIsSafe(g)
      BY <2>5 DEF AccountsInv
    <3>2. request[g].email \notin raced' => request[g].email # e
      BY <2>3, <2>5
    <3> QED
      BY <1>1, <2>1, <3>1, <3>2 DEF SaveIsSafe
  <2>6. \A g \in Handlers : Saving(g)' => SaveIsSafe(g)'
    BY <2>1, <2>4, <2>5
  <2>7. RanksAreSeeded' /\ TokensMatch'
    BY <1>1 DEF AccountsInv, RanksAreSeeded, TokensMatch
  <2>8. RegistrationSticks'
    BY <1>1, <2>1 DEF AccountsInv, RegistrationSticks, Authenticated
  <2> QED
    BY <2>6, <2>7, <2>8 DEF AccountsInv
<1> QED
  BY <1>2, <1>3 DEF CheckEmail

(* register() saves over nothing, or over an account that raced it.         *)
LEMMA SaveUserAccounts ==
    ASSUME FrontendInv, AccountsInv, NEW h \in Handlers, SaveUser(h)
    PROVE  AccountsInv'
<1> DEFINE e == request[h].email
           password == request[h].password
<1>1. Saving(h) /\ Leave(h) /\ UNCHANGED <<tokens, raced>>
  BY DEF SaveUser, Saving
<1>2. e \in Emails /\ password \in Passwords
  BY <1>1, AtAccount DEF Saving
<1>3. \A g \in Handlers : Saving(g)' <=> g # h /\ Saving(g)
  BY <1>1 DEF Leave, Goto, Saving, FrontendInv, ThrottleTypes
<1>4. \A g \in Handlers : g # h => request'[g] = request[g]
  BY <1>1 DEF Leave, FrontendInv, ThrottleTypes
<1>5. SaveIsSafe(h)
  BY <1>1 DEF AccountsInv
<1>6. CASE UNCHANGED users /\ UNCHANGED registered
  BY <1>1, <1>3, <1>4, <1>6, AccountsQuiet DEF accounts
<1>7. CASE /\ Saved(e, password)
           /\ registered' \subseteq registered \cup {[email |-> e, password |-> password]}
  <2>1. /\ users'[e] # NoUser /\ users'[e].role = Submitter /\ VerifyPassword(password, users'[e])
        /\ \A x \in Emails \ {e} : users'[x] = users[x]
    <3>1. PICK salt \in Salts : users' = [users EXCEPT ![e] = NewUser(password, salt, Submitter)]
      BY <1>7 DEF Saved
    <3>2. users'[e] = NewUser(password, salt, Submitter) /\ \A x \in Emails \ {e} : users'[x] = users[x]
      BY <1>2, <3>1, UserFacts
    <3> QED
      BY <1>2, <3>2, NewUserFacts DEF Roles
  <2>2. \A g \in Handlers : Saving(g)' => SaveIsSafe(g)'
    <3> SUFFICES ASSUME NEW g \in Handlers, Saving(g), g # h PROVE SaveIsSafe(g)'
      BY <1>3
    <3>1. SaveIsSafe(g) /\ request[g].email \in Emails
      BY AtAccount DEF AccountsInv, Saving
    <3>2. e \notin raced => request[g].email # e
      BY <1>5 DEF SaveIsSafe
    <3>3. request[g].email \notin raced => users'[request[g].email] = NoUser
      BY <2>1, <3>1, <3>2 DEF SaveIsSafe
    <3>4. users'[request[g].email] = NoUser \/ users'[request[g].email].role = Submitter
      BY <2>1, <3>1 DEF SaveIsSafe
    <3> QED
      BY <1>1, <1>3, <1>4, <3>1, <3>3, <3>4 DEF SaveIsSafe
  <2>3. RanksAreSeeded'
    BY <2>1 DEF AccountsInv, RanksAreSeeded
  <2>4. RegistrationSticks'
    <3> SUFFICES ASSUME NEW r \in registered', r.email \notin raced
                 PROVE  Authenticated(r.email, r.password)'
      BY <1>1 DEF RegistrationSticks
    <3>1. CASE r \in registered
      <4>1. r.email \in Emails /\ Authenticated(r.email, r.password)
        BY <3>1, UserFacts DEF AccountsInv, RegistrationSticks
      <4>2. r.email # e
        BY <1>5, <4>1 DEF SaveIsSafe, Authenticated
      <4> QED
        BY <2>1, <4>1, <4>2 DEF Authenticated
    <3>2. CASE r = [email |-> e, password |-> password]
      BY <2>1, <3>2 DEF Authenticated
    <3> QED
      BY <1>7, <3>1, <3>2
  <2>5. TokensMatch'
    <3> SUFFICES ASSUME NEW token \in tokens
                 PROVE  users'[token.sub] # NoUser /\ users'[token.sub].role = token.role
      BY <1>1 DEF TokensMatch
    <3>1. token.sub \in Emails /\ users[token.sub] # NoUser /\ users[token.sub].role = token.role
      BY UserFacts DEF AccountsInv, TokensMatch, Token
    <3>2. token.sub = e => token.role = Submitter
      BY <1>5, <3>1 DEF SaveIsSafe
    <3> QED
      BY <2>1, <3>1, <3>2
  <2> QED
    BY <2>2, <2>3, <2>4, <2>5 DEF AccountsInv
<1> QED
  BY <1>6, <1>7 DEF SaveUser

(* login() puts the role of the account in the token.                       *)
LEMMA CheckPasswordAccounts ==
    ASSUME FrontendInv, AccountsInv, NEW h \in Handlers, CheckPassword(h)
    PROVE  AccountsInv'
<1>1. Leave(h) /\ UNCHANGED <<users, registered, raced>>
  BY DEF CheckPassword
<1>2. \A g \in Handlers : Saving(g)' => Saving(g) /\ request'[g] = request[g]
  BY <1>1 DEF Leave, Goto, Saving, FrontendInv, ThrottleTypes
<1>3. \A g \in Handlers : Saving(g)' => SaveIsSafe(g)'
  BY <1>1, <1>2 DEF AccountsInv, SaveIsSafe
<1>4. RanksAreSeeded'
  BY <1>1 DEF AccountsInv, RanksAreSeeded
<1>5. RegistrationSticks'
  BY <1>1 DEF AccountsInv, RegistrationSticks, Authenticated
<1>6. TokensMatch'
  BY <1>1 DEF AccountsInv, TokensMatch, CheckPassword, Authenticated, CreateAccessToken
<1> QED
  BY <1>3, <1>4, <1>5, <1>6 DEF AccountsInv

-----------------------------------------------------------------------------
(* Every other step brings nobody to save.                                  *)
LEMMA NobodySaves ==
    ASSUME FrontendInv, NEW h \in Handlers, NEW p, p # "save",
           Goto(h, p), \A g \in Handlers \ {h} : request'[g] = request[g]
    PROVE  \A g \in Handlers : Saving(g)' => Saving(g) /\ request'[g] = request[g]
BY DEF Goto, Saving, FrontendInv, ThrottleTypes

(* Where a request goes from a hit.                                         *)
LEMMA HitGoes ==
    ASSUME FrontendInv, NEW h \in Handlers, ReadCounter(h) \/ WriteCounter(h)
    PROVE  /\ \E p \in {"read", "count", "account", "idle"} : Goto(h, p)
           /\ \A g \in Handlers \ {h} : request'[g] = request[g]
<1>1. ASSUME NEW r, request' = [request EXCEPT ![h] = r]
      PROVE  \A g \in Handlers \ {h} : request'[g] = request[g]
  BY <1>1 DEF FrontendInv, ThrottleTypes
<1>2. ASSUME Leave(h)
      PROVE  Goto(h, "idle") /\ \A g \in Handlers \ {h} : request'[g] = request[g]
  BY <1>1, <1>2 DEF Leave
<1>3. ASSUME Proceed(h)
      PROVE  /\ \E p \in {"account", "idle"} : Goto(h, p)
             /\ \A g \in Handlers \ {h} : request'[g] = request[g]
  BY <1>2, <1>3 DEF Proceed
<1>4. ASSUME NEW allowed \in BOOLEAN, HitReturns(h, allowed)
      PROVE  /\ \E p \in {"read", "account", "idle"} : Goto(h, p)
             /\ \A g \in Handlers \ {h} : request'[g] = request[g]
  BY <1>2, <1>3, <1>4 DEF HitReturns, StartHit
<1>5. ASSUME RetryHit(h)
      PROVE  /\ \E p \in {"read", "account", "idle"} : Goto(h, p)
             /\ \A g \in Handlers \ {h} : request'[g] = request[g]
  BY <1>3, <1>5 DEF RetryHit, FailOpen
<1>6. CASE ReadCounter(h)
  BY <1>3, <1>4, <1>6 DEF ReadCounter, FailOpen
<1>7. CASE WriteCounter(h)
  BY <1>4, <1>5, <1>7 DEF WriteCounter
<1> QED
  BY <1>6, <1>7

(* Every step of a handler but those of register() and login().             *)
LEMMA HandlerAccounts ==
    ASSUME FrontendInv, AccountsInv, NEW h \in Handlers,
           \/ Arrival(h) \/ ThrottleStep(h)
           \/ \E token \in tokens, ip \in Addresses : Ask(h, token, ip)
           \/ ReadSubmission(h) \/ Acquire(h) \/ Reply(h) \/ CallFails(h) \/ Timeout(h)
    PROVE  AccountsInv'
<1>1. ASSUME NEW r, request' = [request EXCEPT ![h] = r]
      PROVE  \A g \in Handlers \ {h} : request'[g] = request[g]
  BY <1>1 DEF FrontendInv, ThrottleTypes
<1>2. ASSUME NEW p, p # "save", Goto(h, p), UNCHANGED accounts,
             \A g \in Handlers \ {h} : request'[g] = request[g]
      PROVE  AccountsInv'
  BY <1>2, NobodySaves, AccountsQuiet
<1>3. CASE Arrival(h)
  BY <1>1, <1>2, <1>3
     DEF Arrival, Register, Login, Submit, Arrive, BeginThrottle, StartHit
<1>4. CASE ThrottleStep(h)
  BY <1>2, <1>4, HitGoes DEF ThrottleStep
<1>5. CASE \E token \in tokens, ip \in Addresses : Ask(h, token, ip)
  BY <1>1, <1>2, <1>5 DEF Ask, unasked
<1>6. CASE ReadSubmission(h) \/ Acquire(h)
  BY <1>1, <1>2, <1>6 DEF ReadSubmission, Acquire, Leave, unasked
<1>7. CASE Reply(h) \/ CallFails(h) \/ Timeout(h)
  BY <1>1, <1>2, <1>7 DEF Reply, CallFails, Timeout, Returned, Leave, unasked
<1> QED
  BY <1>3, <1>4, <1>5, <1>6, <1>7

(* Every step keeps the accounts safe.                                      *)
LEMMA AccountsNext == FrontendInv /\ AccountsInv /\ [Next]_vars => AccountsInv'
<1> SUFFICES ASSUME FrontendInv, AccountsInv, [Next]_vars PROVE AccountsInv'
  OBVIOUS
<1>1. ASSUME UNCHANGED accounts, UNCHANGED handlers PROVE AccountsInv'
  BY <1>1, AccountsQuiet DEF handlers, Saving
<1>2. CASE UNCHANGED vars
  BY <1>1, <1>2 DEF vars, throttle
<1>3. CASE Startup /\ UNCHANGED <<lookup, window, counts, handlers>>
  BY <1>1, <1>3, SeedAccounts DEF Startup, ServeAuth, ServeApi, Serve
<1>4. CASE Tick /\ UNCHANGED <<accounts, services, requests, crashes, lookup>>
  BY <1>1, <1>4 DEF Tick
<1>5. CASE \E s \in Services : Restart(s)
  <2>1. PICK s \in Services : Crash(s)
    BY <1>5 DEF Restart
  <2>2. \A g \in Handlers : Saving(g)' => Saving(g) /\ request'[g] = request[g]
    BY <2>1 DEF Crash, Saving
  <2> QED
    BY <2>1, <2>2, AccountsQuiet DEF Crash
<1>6. ASSUME NEW h \in Handlers, AccountStep(h) PROVE AccountsInv'
  BY <1>6, CheckEmailAccounts, SaveUserAccounts, CheckPasswordAccounts DEF AccountStep
<1> QED
  BY <1>2, <1>3, <1>4, <1>5, <1>6, HandlerAccounts DEF Next

-----------------------------------------------------------------------------
(* Secrets: while nothing has failed every service that is up has the one   *)
(* of the store, and every token is signed with it.                         *)
SecretsInv ==
    faults = 0 =>
        /\ \A s \in Services : phase[s] = "serving" => secret[s] = DaprSecret
        /\ \A token \in tokens : token.secret = DaprSecret

(* Where nothing has failed after a step, nothing had before it.            *)
LEMMA NoFaultBefore ==
    ASSUME FrontendInv, Fault \/ UNCHANGED faults, faults' = 0
    PROVE  faults = 0 /\ UNCHANGED faults
BY DEF FrontendInv, ThrottleTypes, Fault

(* A step that touches no service and issues no token.                      *)
LEMMA SecretsQuiet ==
    ASSUME FrontendInv, SecretsInv, UNCHANGED <<services, tokens>>, Fault \/ UNCHANGED faults
    PROVE  SecretsInv'
BY NoFaultBefore DEF SecretsInv, services

(* A service that starts without a failure has the secret of the store.     *)
LEMMA StartupSecrets ==
    ASSUME FrontendInv, SecretsInv, Startup
    PROVE  SecretsInv'
<1> SUFFICES ASSUME faults' = 0
             PROVE  /\ \A s \in Services : phase'[s] = "serving" => secret'[s] = DaprSecret
                    /\ \A token \in tokens' : token.secret = DaprSecret
  BY DEF SecretsInv
<1>1. phase \in [Services -> {"down", "starting", "serving"}] /\ DOMAIN secret = Services
  BY DEF FrontendInv, AccountTypes
<1>2. CASE Seed
  <2>1. faults = 0
    BY <1>2, NoFaultBefore DEF Seed
  <2> QED
    BY <1>1, <1>2, <2>1 DEF Seed, SecretsInv
<1>3. ASSUME NEW value \in {DaprSecret, NoSecret}, ServeAuth(value) PROVE
             /\ \A s \in Services : phase'[s] = "serving" => secret'[s] = DaprSecret
             /\ \A token \in tokens' : token.secret = DaprSecret
  <2>1. faults = 0 /\ value = DaprSecret
    BY <1>3, NoFaultBefore DEF ServeAuth, Serve, LoadJwtSecret, FrontendInv, ThrottleTypes, Fault
  <2>2. AuthSecret(value) = DaprSecret
    BY <2>1, AccountsAssumption DEF AuthSecret
  <2> QED
    BY <1>1, <1>3, <2>1, <2>2 DEF ServeAuth, Serve, SecretsInv, Services, accounts
<1>4. ASSUME NEW value \in {DaprSecret, NoSecret}, ServeApi(value) PROVE
             /\ \A s \in Services : phase'[s] = "serving" => secret'[s] = DaprSecret
             /\ \A token \in tokens' : token.secret = DaprSecret
  <2>1. faults = 0 /\ value = DaprSecret
    BY <1>4, NoFaultBefore DEF ServeApi, Serve, LoadJwtSecret, FrontendInv, ThrottleTypes, Fault
  <2>2. ResolveJwtSecret(value, EnvSecret) = DaprSecret
    BY <2>1, AccountsAssumption DEF ResolveJwtSecret
  <2> QED
    BY <1>1, <1>4, <2>1, <2>2 DEF ServeApi, Serve, SecretsInv, Services, accounts
<1> QED
  BY <1>2, <1>3, <1>4 DEF Startup

(* A token is signed with the secret of Auth, which serves.                 *)
LEMMA CheckPasswordSecrets ==
    ASSUME FrontendInv, SecretsInv, NEW h \in Handlers, CheckPassword(h)
    PROVE  SecretsInv'
<1> SUFFICES ASSUME faults' = 0
             PROVE  /\ \A s \in Services : phase'[s] = "serving" => secret'[s] = DaprSecret
                    /\ \A token \in tokens' : token.secret = DaprSecret
  BY DEF SecretsInv
<1>1. faults = 0 /\ phase' = phase /\ secret' = secret
  BY NoFaultBefore DEF CheckPassword, services
<1>2. phase["auth"] = "serving"
  BY AtAccount DEF CheckPassword
<1>3. secret["auth"] = DaprSecret
  BY <1>1, <1>2 DEF SecretsInv, Services
<1>4. \A token \in tokens' : token \in tokens \/ token.secret = secret["auth"]
  BY DEF CheckPassword, CreateAccessToken
<1> QED
  BY <1>1, <1>3, <1>4 DEF SecretsInv

(* Every step keeps the secrets alike.                                      *)
LEMMA SecretsNext == FrontendInv /\ SecretsInv /\ [Next]_vars => SecretsInv'
<1> SUFFICES ASSUME FrontendInv, SecretsInv, [Next]_vars PROVE SecretsInv'
  OBVIOUS
<1>1. CASE UNCHANGED vars
  BY <1>1, SecretsQuiet DEF vars, throttle, accounts
<1>2. CASE Startup
  BY <1>2, StartupSecrets
<1>3. CASE Tick /\ UNCHANGED <<accounts, services, requests, crashes, lookup>>
  BY <1>3, SecretsQuiet DEF Tick, accounts
<1>4. CASE \E s \in Services : Restart(s)
  <2>1. PICK s \in Services : Crash(s)
    BY <1>4 DEF Restart
  <2>2. /\ phase' = [phase EXCEPT ![s] = "down"] /\ secret' = [secret EXCEPT ![s] = NoSecret]
        /\ tokens' = tokens /\ faults' = faults
    BY <2>1 DEF Crash, accounts
  <2>3. phase \in [Services -> {"down", "starting", "serving"}] /\ DOMAIN secret = Services
    BY DEF FrontendInv, AccountTypes
  <2> QED
    BY <2>2, <2>3 DEF SecretsInv
<1>5. ASSUME NEW h \in Handlers, Arrival(h) \/ CheckEmail(h) \/ SaveUser(h) PROVE SecretsInv'
  <2>1. UNCHANGED <<services, tokens>> /\ (Fault \/ UNCHANGED faults)
    BY <1>5 DEF Arrival, Register, Login, Submit, Arrive, CheckEmail, SaveUser, accounts
  <2> QED
    BY <2>1, SecretsQuiet
<1>6. ASSUME NEW h \in Handlers, ThrottleStep(h) PROVE SecretsInv'
  <2>1. UNCHANGED <<services, tokens>> /\ (Fault \/ UNCHANGED faults)
    BY <1>6 DEF ThrottleStep, ReadCounter, WriteCounter, accounts
  <2> QED
    BY <2>1, SecretsQuiet
<1>7. ASSUME NEW h \in Handlers,
             \/ \E token \in tokens, ip \in Addresses : Ask(h, token, ip)
             \/ ReadSubmission(h) \/ Acquire(h) \/ Reply(h) \/ CallFails(h) \/ Timeout(h)
      PROVE  SecretsInv'
  <2>1. UNCHANGED unasked /\ (Fault \/ UNCHANGED faults)
    BY <1>7 DEF Ask, ReadSubmission, Acquire, Reply, CallFails, Timeout, Returned
  <2> QED
    BY <2>1, SecretsQuiet DEF unasked, accounts
<1>8. ASSUME NEW h \in Handlers, CheckPassword(h) PROVE SecretsInv'
  BY <1>8, CheckPasswordSecrets
<1> QED
  BY <1>1, <1>2, <1>3, <1>4, <1>5, <1>6, <1>7, <1>8 DEF Next, AccountStep

-----------------------------------------------------------------------------
(* The accounts are safe throughout.                                        *)
LEMMA AccountsAlways == Spec => [](FrontendInv /\ AccountsInv)
<1>1. Init => FrontendInv /\ AccountsInv
  BY InvInit, AccountsInitially
<1>2. FrontendInv /\ AccountsInv /\ [Next]_vars => (FrontendInv /\ AccountsInv)'
  BY InvNext, AccountsNext
<1> QED
  BY <1>1, <1>2, PTL DEF Spec

(* The secrets are alike throughout.                                        *)
LEMMA SecretsAlways == Spec => [](FrontendInv /\ SecretsInv)
<1>1. Init => SecretsInv
  BY DEF Init, AccountsInit, SecretsInv
<1>2. Init => FrontendInv /\ SecretsInv
  BY <1>1, InvInit
<1>3. FrontendInv /\ SecretsInv /\ [Next]_vars => (FrontendInv /\ SecretsInv)'
  BY InvNext, SecretsNext
<1> QED
  BY <1>2, <1>3, PTL DEF Spec

(* Whoever was answered 201 by POST /auth/register can log in with that     *)
(* password for good, through restarts, seeding and other registrations,    *)
(* unless two registrations of the email overlapped (auth/service.py).      *)
THEOREM RegistrationAlwaysSticks == Spec => []RegistrationSticks
<1>1. AccountsInv => RegistrationSticks
  BY DEF AccountsInv
<1> QED
  BY <1>1, AccountsAlways, PTL

(* A token of POST /auth/login has the role that the account has, and one   *)
(* that a service lets act as an approver is of a seeded account.           *)
THEOREM TokensAlwaysTellTheTruth == Spec => []TokensTellTheTruth
<1>1. FrontendInv /\ AccountsInv => TokensTellTheTruth
  <2> SUFFICES ASSUME FrontendInv, AccountsInv, NEW token \in tokens
               PROVE  /\ users[token.sub] # NoUser /\ users[token.sub].role = token.role
                      /\ RequireRole(GetCurrentUser(token, "api"), Approver)
                            => token.sub \in DOMAIN DemoUsers
    BY DEF TokensTellTheTruth
  <2>1. token.sub \in Emails /\ users[token.sub] # NoUser /\ users[token.sub].role = token.role
    BY UserFacts DEF AccountsInv, TokensMatch, Token
  <2>2. ASSUME RequireRole(GetCurrentUser(token, "api"), Approver)
        PROVE  token.role # Submitter
    BY <2>2 DEF RequireRole, GetCurrentUser, DecodeToken, Approver, Submitter
  <2> QED
    BY <2>1, <2>2 DEF AccountsInv, RanksAreSeeded
<1> QED
  BY <1>1, AccountsAlways, PTL

(* Unless a call failed, every service that is up accepts every token that  *)
(* has not expired: each resolves the secret for itself, but to the same    *)
(* value (jwt_secret_loader.py, and the lifespan of services/auth/app.py).  *)
THEOREM LoginIsAlwaysUsable == Spec => []LoginIsUsable
<1>1. FrontendInv /\ SecretsInv => LoginIsUsable
  <2> SUFFICES ASSUME FrontendInv, SecretsInv, faults = 0, phase["api"] = "serving",
                      NEW token \in tokens, window < token.exp
               PROVE  GetCurrentUser(token, "api") # Nobody
    BY DEF LoginIsUsable
  <2>1. token \in Token /\ token.secret = secret["api"]
    BY UserFacts DEF SecretsInv, Services
  <2>2. token # NoToken
    BY <2>1, AccountsAssumption DEF Token
  <2>3. [sub |-> token.sub, role |-> token.role] # Nobody
    BY <2>1, AccountsAssumption DEF Token
  <2>4. window \in Nat /\ token.exp \in Nat
    BY <2>1, ThrottleAssumption DEF Token, FrontendInv, ThrottleTypes
  <2> QED
    BY <2>1, <2>2, <2>3, <2>4 DEF GetCurrentUser, DecodeToken
<1> QED
  BY <1>1, SecretsAlways, PTL
=============================================================================
