------------------------------ MODULE Frontend ------------------------------
(***************************************************************************)
(* What a user reaches over HTTP before the workflow starts and while it    *)
(* runs: registering, logging in, submitting an invoice and asking for its  *)
(* status, all of them interleaving at every await, with the throttle in    *)
(* front of the first three and tokens in front of the last two.            *)
(***************************************************************************)
EXTENDS StatusLookup

vars == <<throttle, accounts, services, requests, crashes, lookup>>

Init == ThrottleInit /\ AccountsInit /\ LookupInit

Startup ==
    \/ Seed
    \/ \E value \in {DaprSecret, NoSecret} : ServeAuth(value) \/ ServeApi(value)

Arrival(h) ==
    \E ip \in Addresses :
        \/ \E e \in Emails, password \in Passwords :
              Register(h, e, ip, password) \/ Login(h, e, ip, password)
        \/ \E token \in tokens : Submit(h, token, ip)

ThrottleStep(h) ==
    (ReadCounter(h) \/ WriteCounter(h)) /\ UNCHANGED <<accounts, services, requests, crashes>>

AccountStep(h) == CheckEmail(h) \/ SaveUser(h) \/ CheckPassword(h)

\* The slots die with the process that lends them.
Restart(s) ==
    /\ Crash(s)
    /\ slots' = IF s = "api" THEN MaxConcurrency ELSE slots
    /\ UNCHANGED <<lookups, hidden>>

Next ==
    \/ Startup /\ UNCHANGED <<lookup, window, counts, handlers>>
    \/ Tick /\ UNCHANGED <<accounts, services, requests, crashes, lookup>>
    \/ \E s \in Services : Restart(s)
    \/ \E h \in Handlers :
          \/ (Arrival(h) \/ ThrottleStep(h) \/ AccountStep(h)) /\ UNCHANGED lookup
          \/ \E token \in tokens, ip \in Addresses : Ask(h, token, ip)
          \/ ReadSubmission(h) \/ Acquire(h) \/ Reply(h) \/ CallFails(h) \/ Timeout(h)

Spec == Init /\ [][Next]_vars

\* The event loop runs every coroutine on and deadlines pass. Approval owes no
\* answer, and a slot that comes free may go to anybody who waits for it.
Fairness ==
    \A h \in Handlers :
        /\ WF_vars((ThrottleStep(h) \/ AccountStep(h)) /\ UNCHANGED lookup)
        /\ WF_vars(ReadSubmission(h)) /\ WF_vars(Timeout(h))

FairSpec == Spec /\ Fairness

-----------------------------------------------------------------------------
(* Properties                                                              *)

Steps == {"idle", "read", "count", "account", "save", "submission", "queued", "calling"}
User == [hash: Passwords \X Salts, salt: Salts, role: Roles]
Token == [sub: Emails, role: Roles, secret: {EnvSecret, DaprSecret}, exp: Nat]

\* Every variable stays in its range, a handler serves a request exactly while it
\* stands at a step of it, and the bulkhead neither leaks a slot nor lends one twice.
TypeOK ==
    /\ window \in 0..MaxWindow
    /\ \A f \in {counters, etags, created, admitted} :
          DOMAIN f \subseteq Key /\ \A k \in DOMAIN f : f[k] \in Nat
    /\ pc \in [Handlers -> Steps]
    /\ request \in [Handlers -> Requests \cup {NoRequest}]
    /\ hit \in [Handlers -> Hit]
    /\ \A h \in Handlers : (pc[h] = "idle") <=> (request[h] = NoRequest)
    /\ users \in [Emails -> User \cup {NoUser}]
    /\ phase \in [Services -> {"down", "starting", "serving"}]
    /\ secret \in [Services -> {EnvSecret, DaprSecret, NoSecret}]
    /\ tokens \subseteq Token
    /\ registered \subseteq [email: Emails, password: Passwords] /\ raced \subseteq Emails
    /\ slots + Cardinality({h \in Handlers : pc[h] = "calling"}) = MaxConcurrency
    /\ lookups \in 0..MaxLookups /\ hidden \in BOOLEAN
    /\ faults \in 0..MaxFaults /\ requests \in 0..MaxRequests /\ crashes \in 0..MaxCrashes

\* However requests race for a counter and whatever fails, each identity gets at most
\* its limit of requests through a window for every first hit that was stored: once,
\* unless first hits of the window raced. Not counted are the requests that a
\* RateLimiterError let through, raised when the store fails or when contention has
\* used up the attempts (rate_limiter.py, hit(); rate_limit.py, _throttle()).
LimitHolds ==
    \A k \in DOMAIN admitted : admitted[k] <= Limit[k.kind] * Count(created, k)

\* Whoever was told 201 can log in with that password for good, through restarts,
\* seeding and other registrations, unless two registrations of the email overlapped.
RegistrationSticks ==
    \A r \in registered :
        r.email \notin raced => Authenticated(r.email, r.password)

\* A token says what the account says: nobody acts in a role that the account lost or
\* never had, and those above submitter are the seeded accounts (auth/service.py).
TokensTellTheTruth ==
    \A token \in tokens :
        /\ users[token.sub] # NoUser /\ users[token.sub].role = token.role
        /\ RequireRole(GetCurrentUser(token, "api"), Approver) => token.sub \in DOMAIN DemoUsers

\* Unless a fetch of the secret or another call failed, every service accepts every
\* token that has not expired: they all resolve the secret alike (jwt_secret_loader.py).
LoginIsUsable ==
    faults = 0 /\ phase["api"] = "serving" =>
        \A token \in tokens : window < token.exp => GetCurrentUser(token, "api") # Nobody

\* Every status lookup comes back, though Approval may never answer any: the deadline
\* covers the wait for a slot as well as the call (shared/bulkhead.py).
EveryLookupIsAnswered ==
    \A h \in Handlers :
        pc[h] \in {"submission", "queued", "calling"} ~> pc[h] = "idle"

(* What the documentation says, checked as such                            *)

\* README.md: GET /invoices/{tracking_id} is "enriched with live approval progress if
\* escalated": what Approval held when it was asked is in the answer.
EscalatedShowsApproval == ~hidden
=============================================================================
