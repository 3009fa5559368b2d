------------------------------ MODULE Throttle ------------------------------
(***************************************************************************)
(* Throttling per identity (src/shared/rate_limiter.py, src/services/auth/  *)
(* rate_limit.py): a counter for each kind of request, identity and fixed   *)
(* window, kept in the Dapr state store and incremented by a conditional    *)
(* write.  A login or a registration is counted by its email and by its     *)
(* source address, the submission of an invoice by its user.                *)
(*                                                                          *)
(* A handler is the coroutine of one HTTP request; pc[h] is the await it    *)
(* stands at, here in one of its hits.  The etag of a key is the number of  *)
(* times it was written; a key that was never written has the empty etag,   *)
(* which is no condition: first hits of a window that race are all stored,  *)
(* each as the first.                                                       *)
(***************************************************************************)
EXTENDS Integers, Sequences, FiniteSets

CONSTANTS
    Handlers,     \* requests that may be in flight at once
    NoRequest,    \* what an idle handler serves
    Emails,
    Addresses,    \* source addresses
    Passwords,
    NoPassword,   \* of a request that carries none
    Limit,        \* requests of a kind that an identity may make in a window
    MaxRetries,   \* _MAX_RETRIES
    MaxWindow,    \* bound: the last window
    MaxFaults     \* bound: failed Dapr and HTTP calls

Throttled == {"register", "login", "submit"}
Requests == [kind: Throttled \cup {"status"}, email: Emails, ip: Addresses,
             password: Passwords \cup {NoPassword}]

\* validate_rate_limit_params(): a limit of 0 stops the service at its start.
ValidLimit(limit) == limit \in Nat /\ limit >= 1

ASSUME ThrottleAssumption ==
    /\ IsFiniteSet(Handlers)
    /\ NoRequest \notin Requests
    /\ DOMAIN Limit = Throttled /\ \A kind \in Throttled : ValidLimit(Limit[kind])
    /\ MaxRetries \in Nat \ {0} /\ MaxWindow \in Nat /\ MaxFaults \in Nat

VARIABLES
    window,    \* the current window's number, int(now // window_seconds)
    counters,  \* ratelimit:{scope}:{identity}:{bucket}, absent keys outside the domain
    etags,     \* ... and their etags
    created,   \* writes of each key that had found it absent (history)
    admitted,  \* requests counted by each key and let through (history)
    pc, request, hit,  \* the handlers' local state
    faults

handlers == <<pc, request, hit>>
counts == <<counters, etags, created, admitted>>
throttle == <<window, counts, handlers, faults>>

Key == [kind: Throttled, by: {"email", "ip", "user"}, identity: Emails \cup Addresses, bucket: Nat]

\* Of a request: the keys hit so far, the last of them being worked on; the attempt;
\* the value read and its etag, 0 when empty; whether a limiter has said no.
Hit == [keys: Seq(Key), tries: 1..MaxRetries, seen: Nat, etag: Nat, denied: BOOLEAN]
NoHit == [keys |-> <<>>, tries |-> 1, seen |-> 0, etag |-> 0, denied |-> FALSE]

Count(f, k) == IF k \in DOMAIN f THEN f[k] ELSE 0
Put(f, k, n) == [x \in DOMAIN f \cup {k} |-> IF x = k THEN n ELSE f[x]]
KeysOf(h) == {hit[h].keys[i] : i \in DOMAIN hit[h].keys}
CurrentKey(h) == hit[h].keys[Len(hit[h].keys)]

ThrottleInit ==
    /\ window = 0
    /\ counters = <<>> /\ etags = <<>> /\ created = <<>> /\ admitted = <<>>
    /\ pc = [h \in Handlers |-> "idle"]
    /\ request = [h \in Handlers |-> NoRequest]
    /\ hit = [h \in Handlers |-> NoHit]
    /\ faults = 0

Fault == faults < MaxFaults /\ faults' = faults + 1
Goto(h, step) == pc' = [pc EXCEPT ![h] = step]

\* The handler answers its request, or raises.
Leave(h) ==
    /\ Goto(h, "idle")
    /\ request' = [request EXCEPT ![h] = NoRequest]
    /\ hit' = [hit EXCEPT ![h] = NoHit]

Tick ==
    /\ window < MaxWindow
    /\ window' = window + 1
    /\ UNCHANGED <<counts, handlers, faults>>

-----------------------------------------------------------------------------
(* The order of the hits                                                   *)

Hits(r) == IF r.kind = "submit" THEN <<"user">> ELSE <<"email", "ip">>
Identity(r, by) == IF by = "ip" THEN r.ip ELSE r.email

\* The bucket is that of the moment hit() is called, before it awaits anything.
KeyFor(r, n) ==
    [kind |-> r.kind, by |-> Hits(r)[n], identity |-> Identity(r, Hits(r)[n]), bucket |-> window]

StartHit(h, r, keys, denied) ==
    /\ Goto(h, "read")
    /\ hit' = [hit EXCEPT ![h] =
           [keys |-> Append(keys, KeyFor(r, Len(keys) + 1)), tries |-> 1, seen |-> 0,
            etag |-> 0, denied |-> denied]]

\* The first hit of a request that has just arrived.
BeginThrottle(h, r) ==
    /\ request' = [request EXCEPT ![h] = r]
    /\ StartHit(h, r, <<>>, FALSE)

\* Past the throttle: the account of a login or a registration; what becomes of an
\* invoice is Intake's.
Proceed(h) ==
    IF request[h].kind = "submit"
    THEN Leave(h)
    ELSE Goto(h, "account") /\ hit' = [hit EXCEPT ![h] = NoHit] /\ UNCHANGED request

\* Mutant: only the last limiter is asked for its verdict.
RefusedByLast(h, allowed) == ~allowed
\* Every limiter must have allowed the request; otherwise 429.
Refused(h, allowed) == hit[h].denied \/ ~allowed

\* hit() returns: the next limiter is hit, whatever this one said, or the last has been.
HitReturns(h, allowed) ==
    IF Len(hit[h].keys) < Len(Hits(request[h]))
    THEN /\ StartHit(h, request[h], hit[h].keys, ~allowed)
         /\ UNCHANGED <<request, admitted>>
    ELSE IF Refused(h, allowed)
    THEN Leave(h) /\ UNCHANGED admitted
    ELSE /\ Proceed(h)
         /\ admitted' = [k \in DOMAIN admitted \cup KeysOf(h) |->
                IF k \in KeysOf(h) THEN Count(admitted, k) + 1 ELSE admitted[k]]

\* RateLimiterError, from any hit, because the store failed it or its attempts were
\* used up: the request goes on, whatever was said before.
FailOpen(h) == Proceed(h) /\ UNCHANGED admitted

-----------------------------------------------------------------------------
(* hit()                                                                   *)

\* Mutant: one request too many is let through.
OverLimitLate(h, current) == current > Limit[request[h].kind]
OverLimit(h, current) == current >= Limit[request[h].kind]

\* get_state(): the counter; one that cannot be read is a RateLimiterError.
ReadCounter(h) ==
    LET current == Count(counters, CurrentKey(h)) IN
    /\ pc[h] = "read"
    /\ \/ OverLimit(h, current) /\ HitReturns(h, FALSE) /\ UNCHANGED faults
       \/ /\ ~OverLimit(h, current)
          /\ Goto(h, "count")
          /\ hit' = [hit EXCEPT ![h].seen = current, ![h].etag = Count(etags, CurrentKey(h))]
          /\ UNCHANGED <<request, admitted, faults>>
       \/ Fault /\ FailOpen(h)
    /\ UNCHANGED <<window, counters, etags, created>>

\* except grpc.RpcError: read again, or give up with a RateLimiterError.
RetryHit(h) ==
    IF hit[h].tries < MaxRetries
    THEN /\ Goto(h, "read")
         /\ hit' = [hit EXCEPT ![h].tries = @ + 1, ![h].seen = 0, ![h].etag = 0]
         /\ UNCHANGED <<request, admitted>>
    ELSE FailOpen(h)

\* The etag read was empty, or is still the stored one.
EtagMatches(h) == hit[h].etag \in {0, Count(etags, CurrentKey(h))}

Incremented(h) ==
    LET k == CurrentKey(h) IN
    /\ counters' = Put(counters, k, hit[h].seen + 1)
    /\ etags' = Put(etags, k, Count(etags, k) + 1)
    /\ created' = Put(created, k, Count(created, k) + IF hit[h].etag = 0 THEN 1 ELSE 0)

\* execute_state_transaction(): counted; or counted and the reply lost, which looks
\* like a stale etag; or the etag is stale; or the call never arrives.
WriteCounter(h) ==
    /\ pc[h] = "count"
    /\ \/ EtagMatches(h) /\ Incremented(h) /\ HitReturns(h, TRUE) /\ UNCHANGED faults
       \/ EtagMatches(h) /\ Incremented(h) /\ Fault /\ RetryHit(h)
       \/ ~EtagMatches(h) /\ UNCHANGED <<counters, etags, created, faults>> /\ RetryHit(h)
       \/ UNCHANGED <<counters, etags, created>> /\ Fault /\ RetryHit(h)
    /\ UNCHANGED window
=============================================================================
