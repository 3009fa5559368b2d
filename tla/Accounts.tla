------------------------------ MODULE Accounts ------------------------------
(***************************************************************************)
(* Accounts and tokens: the Auth service (src/services/auth) registers      *)
(* submitters, seeds the demo approvers at its start and issues tokens;     *)
(* the other services verify them by themselves (src/shared/auth.py) with   *)
(* the secret they resolved at their own start (jwt_secret_loader.py).      *)
(* "api" stands for any of those; their code is the same.                   *)
(*                                                                          *)
(* Durable state is user:{email}.  Register and login reach an account      *)
(* after the throttle (Throttle.tla).                                       *)
(***************************************************************************)
EXTENDS Throttle

CONSTANTS
    DemoUsers,    \* demo_users.json: email -> [password, role]
    NoUser,       \* user:{email} is absent
    Salts,
    EnvSecret,    \* JWT_SECRET in the environment
    DaprSecret,   \* JWT_SECRET in the secret store
    NoSecret,
    NoToken, Nobody,
    Lifetime,     \* JWT_EXPIRY_HOURS, in windows
    MaxRequests,  \* bound: requests that are throttled
    MaxCrashes    \* bound: process crashes

\* class Role(IntEnum): the rank is the value.
Submitter == 1
Approver == 2
Admin == 3
Roles == {Submitter, Approver, Admin}

ASSUME AccountsAssumption ==
    /\ DOMAIN DemoUsers \subseteq Emails
    /\ \A e \in DOMAIN DemoUsers : DemoUsers[e] \in [password: Passwords, role: Roles]
    /\ NoUser \notin [hash: Passwords \X Salts, salt: Salts, role: Roles]
    /\ Nobody \notin [sub: Emails, role: Roles]
    /\ NoToken \notin [sub: Emails, role: Roles, secret: {EnvSecret, DaprSecret}, exp: Nat]
    /\ NoSecret \notin {EnvSecret, DaprSecret}
    /\ Lifetime \in Nat \ {0} /\ MaxRequests \in Nat /\ MaxCrashes \in Nat

VARIABLES
    users,       \* user:{email}
    phase,       \* of each service: "down", "starting" (past the seeding), "serving"
    secret,      \* the secret each service signs or verifies with
    tokens,      \* issued tokens
    registered,  \* registrations answered with 201
    raced,       \* emails two registrations of which overlapped
    requests, crashes  \* what the bounds count

accounts == <<users, tokens, registered, raced>>
services == <<phase, secret>>

Services == {"auth", "api"}
Serving(r) == IF r.kind \in {"register", "login"} THEN "auth" ELSE "api"

AccountsInit ==
    /\ users = [e \in Emails |-> NoUser]
    /\ phase = [s \in Services |-> "down"]
    /\ secret = [s \in Services |-> NoSecret]
    /\ tokens = {} /\ registered = {} /\ raced = {}
    /\ requests = 0 /\ crashes = 0

-----------------------------------------------------------------------------
(* Passwords and tokens                                                    *)

\* pbkdf2 with a salt of the user's own: equal for equal passwords and salts only.
HashPassword(password, salt) == [hash |-> <<password, salt>>, salt |-> salt]
VerifyPassword(password, user) == <<password, user.salt>> = user.hash

NewUser(password, salt, role) ==
    [hash |-> HashPassword(password, salt).hash, salt |-> salt, role |-> role]

CreateAccessToken(email) ==
    [sub |-> email, role |-> users[email].role, secret |-> secret["auth"],
     exp |-> window + Lifetime]

\* decode_token(): signed with this secret and not expired.
DecodeToken(token, key) ==
    IF token.secret # key \/ window >= token.exp
    THEN Nobody
    ELSE [sub |-> token.sub, role |-> token.role]

\* get_current_user() at a service; Nobody is a 401.
GetCurrentUser(token, s) ==
    IF token = NoToken THEN Nobody ELSE DecodeToken(token, secret[s])

RequireRole(user, minimum) == user # Nobody /\ user.role >= minimum

-----------------------------------------------------------------------------
(* Startup                                                                 *)

\* Mutant: an account that is there already is seeded over.
SeededOver(e) == TRUE
\* ensure_seeded(): only an absent key is written.
Seedable(e) == users[e] = NoUser

\* seed_demo_users(): an entry of the file, with a salt of its own.
DemoUser(e, salt) == NewUser(DemoUsers[e].password, salt, DemoUsers[e].role)

Seeded(written) ==
    \E salts \in [written -> Salts] :
        users' = [e \in Emails |-> IF e \in written THEN DemoUser(e, salts[e]) ELSE users[e]]

\* The lifespan of Auth seeds if SEED_DEMO_USERS says so. A write that fails is
\* swallowed, its user absent until some later start; a read that fails ends this one.
Seed ==
    LET absent == {e \in DOMAIN DemoUsers : Seedable(e)} IN
    /\ phase["auth"] = "down"
    /\ \/ /\ UNCHANGED users \/ Seeded(absent)
          /\ phase' = [phase EXCEPT !["auth"] = "starting"]
          /\ UNCHANGED faults
       \/ /\ \E written \in SUBSET absent : written # absent /\ Seeded(written)
          /\ UNCHANGED phase \/ phase' = [phase EXCEPT !["auth"] = "starting"]
          /\ Fault
    /\ UNCHANGED <<secret, tokens, registered, raced, requests, crashes>>

\* load_jwt_secret_from_dapr(), which docker-compose.yml enables in every service: it
\* never raises; a store that fails has no value.
LoadJwtSecret(value) ==
    \/ value = DaprSecret /\ UNCHANGED faults
    \/ value = NoSecret /\ Fault

ResolveJwtSecret(value, fallback) == IF value # NoSecret THEN value ELSE fallback

\* Mutant: the service built with the secret of the environment is never rebuilt.
AuthKeepsEnvSecret(value) == EnvSecret
\* The lifespan rebuilds Auth's service when the store has a secret.
AuthSecret(value) == IF value # NoSecret THEN value ELSE EnvSecret

Serve(s, value) ==
    /\ LoadJwtSecret(value)
    /\ phase' = [phase EXCEPT ![s] = "serving"]
    /\ UNCHANGED <<accounts, requests, crashes>>

ServeAuth(value) ==
    /\ phase["auth"] = "starting"
    /\ secret' = [secret EXCEPT !["auth"] = AuthSecret(value)]
    /\ Serve("auth", value)

\* Every other service, in its own lifespan.
ServeApi(value) ==
    /\ phase["api"] = "down"
    /\ secret' = [secret EXCEPT !["api"] = ResolveJwtSecret(value, EnvSecret)]
    /\ Serve("api", value)

\* A process is lost with its requests, and is started again.
Crash(s) ==
    LET lost == {h \in Handlers : request[h] # NoRequest /\ Serving(request[h]) = s} IN
    /\ crashes < MaxCrashes /\ crashes' = crashes + 1
    /\ phase[s] = "serving"
    /\ phase' = [phase EXCEPT ![s] = "down"]
    /\ secret' = [secret EXCEPT ![s] = NoSecret]
    /\ pc' = [h \in Handlers |-> IF h \in lost THEN "idle" ELSE pc[h]]
    /\ request' = [h \in Handlers |-> IF h \in lost THEN NoRequest ELSE request[h]]
    /\ hit' = [h \in Handlers |-> IF h \in lost THEN NoHit ELSE hit[h]]
    /\ UNCHANGED <<accounts, requests, window, counts, faults>>

-----------------------------------------------------------------------------
(* POST /auth/register, POST /auth/login, POST /invoices                   *)

Free(h, s) == phase[s] = "serving" /\ pc[h] = "idle"

Arrive(h, s) ==
    /\ Free(h, s)
    /\ requests < MaxRequests /\ requests' = requests + 1
    /\ UNCHANGED <<accounts, services, crashes, window, counts, faults>>

Request(kind, e, ip, password) ==
    [kind |-> kind, email |-> e, ip |-> ip, password |-> password]

Register(h, e, ip, password) ==
    Arrive(h, "auth") /\ BeginThrottle(h, Request("register", e, ip, password))

Login(h, e, ip, password) ==
    Arrive(h, "auth") /\ BeginThrottle(h, Request("login", e, ip, password))

\* throttle_by_user() counts the user the token speaks for.
Submit(h, token, ip) ==
    /\ GetCurrentUser(token, "api") # Nobody
    /\ Arrive(h, "api")
    /\ BeginThrottle(h, Request("submit", GetCurrentUser(token, "api").sub, ip, NoPassword))

\* Mutant: save() is an upsert, so the check before it is dropped.
UncheckedEmail(e) == FALSE
\* The email has an account: UserAlreadyExistsError.
Taken(e) == users[e] # NoUser

Registering(e) ==
    \E h \in Handlers : pc[h] = "save" /\ request[h].email = e

\* register() reads the account: 409, or it goes on to save; an error is a 500.
CheckEmail(h) ==
    LET e == request[h].email IN
    /\ pc[h] = "account" /\ request[h].kind = "register"
    /\ \/ Taken(e) /\ Leave(h) /\ UNCHANGED <<raced, faults>>
       \/ /\ ~Taken(e)
          /\ Goto(h, "save")
          /\ raced' = raced \cup {x \in {e} : Registering(x)}
          /\ UNCHANGED <<request, hit, faults>>
       \/ Fault /\ Leave(h) /\ UNCHANGED raced
    /\ UNCHANGED <<users, tokens, registered, services, requests, crashes, window, counts>>

\* repository.save(): unconditional.
Saved(e, password) ==
    \E salt \in Salts : users' = [users EXCEPT ![e] = NewUser(password, salt, Submitter)]

\* A failure of it, perhaps of the reply only, is a 500.
SaveUser(h) ==
    LET e == request[h].email
        password == request[h].password IN
    /\ pc[h] = "save"
    /\ \/ /\ Saved(e, password)
          /\ registered' = registered \cup {[email |-> e, password |-> password]}
          /\ UNCHANGED faults
       \/ Fault /\ (Saved(e, password) \/ UNCHANGED users) /\ UNCHANGED registered
    /\ Leave(h)
    /\ UNCHANGED <<tokens, raced, services, requests, crashes, window, counts>>

Authenticated(e, password) == users[e] # NoUser /\ VerifyPassword(password, users[e])

\* login(): a token, or the 401 that does not say why, or a failed read.
CheckPassword(h) ==
    LET e == request[h].email IN
    /\ pc[h] = "account" /\ request[h].kind = "login"
    /\ \/ /\ Authenticated(e, request[h].password)
          /\ tokens' = tokens \cup {CreateAccessToken(e)}
          /\ UNCHANGED faults
       \/ ~Authenticated(e, request[h].password) /\ UNCHANGED <<tokens, faults>>
       \/ Fault /\ UNCHANGED tokens
    /\ Leave(h)
    /\ UNCHANGED <<users, registered, raced, services, requests, crashes, window, counts>>
=============================================================================
