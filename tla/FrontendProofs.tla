--------------------------- MODULE FrontendProofs ---------------------------
(***************************************************************************)
(* TLAPS proofs about Frontend: its types, the bulkhead of the status       *)
(* lookup and the limits of the throttle, for any number of concurrent      *)
(* requests, identities, windows, retries and faults.                       *)
(*                                                                          *)
(* LimitHolds is not inductive.  Between the hit of its email and that of   *)
(* its address a request holds a count that no admission shows yet: Booked  *)
(* says that the writes of a key, its etag, cover the requests let through  *)
(* and those.  Counted bounds the writes: a counter goes from one creation  *)
(* to its limit once, because who writes on the etag read has seen the      *)
(* value that is stored (Snapshot).                                         *)
(***************************************************************************)
EXTENDS Frontend, FiniteSetTheorems, TLAPS

Hitting == {"read", "count"}

\* A request at step p in its second hit, let through by its first, which counted it on k.
Pays(p, x, k) == p \in Hitting /\ Len(x.keys) = 2 /\ ~x.denied /\ x.keys[1] = k

Owed(k) == {h \in Handlers : Pays(pc[h], hit[h], k)}

Booked ==
    \A k \in Key : Count(admitted, k) + Cardinality(Owed(k)) <= Count(etags, k)

\* The writes of a key, by how often it was created and how far it has been counted.
Counted(k) ==
    /\ Count(counters, k) <= Limit[k.kind]
    /\ Count(etags, k) = 0 => Count(counters, k) = 0
    /\ Count(etags, k) # 0 =>
          Count(etags, k) + Limit[k.kind] <= Limit[k.kind] * Count(created, k) + Count(counters, k)

\* What a hit has read of k: nothing, what is stored, or something older.
Fresh(versions, values, x, k) ==
    /\ x.etag <= Count(versions, k)
    /\ x.etag = Count(versions, k) => x.seen = Count(values, k)
    /\ x.etag = 0 => x.seen = 0

Snapshot(versions, values, p, x) ==
    p = "count" => Fresh(versions, values, x, x.keys[Len(x.keys)])

\* A request that is being hit has reached some of its limiters, in their order, and
\* only counts below the limit.
HitOK(p, r, x) ==
    p \in Hitting =>
        /\ r.kind \in Throttled
        /\ Len(x.keys) \in 1..Len(Hits(r))
        /\ \A i \in 1..Len(x.keys) : x.keys[i].kind = r.kind /\ x.keys[i].by = Hits(r)[i]
        /\ p = "count" => x.seen < Limit[r.kind]

\* Auth's requests carry a password, and die with the service.
AtAuth(r) == r.kind \in {"register", "login"}
RequestOK(p, r) ==
    /\ p # "idle" /\ AtAuth(r) => r.password \in Passwords /\ phase["auth"] = "serving"
    /\ p \in {"account", "save"} => AtAuth(r)
    /\ p \in {"submission", "queued", "calling"} => r.kind = "status"

\* A handler at step p of request r, with x of its hits.
HandlerOK(p, r, x) ==
    /\ p \in Steps /\ r \in Requests \cup {NoRequest} /\ x \in Hit
    /\ (p = "idle") <=> (r = NoRequest)
    /\ HitOK(p, r, x) /\ RequestOK(p, r)

IsCounters(f) == DOMAIN f \subseteq Key /\ \A k \in DOMAIN f : f[k] \in Nat

\* TypeOK in three parts, one for each of the modules that Frontend puts together.
ThrottleTypes ==
    /\ window \in 0..MaxWindow
    /\ IsCounters(counters) /\ IsCounters(etags) /\ IsCounters(created) /\ IsCounters(admitted)
    /\ pc = [h \in Handlers |-> pc[h]]
    /\ request = [h \in Handlers |-> request[h]]
    /\ hit = [h \in Handlers |-> hit[h]]
    /\ faults \in 0..MaxFaults
AccountTypes ==
    /\ users \in [Emails -> User \cup {NoUser}]
    /\ phase \in [Services -> {"down", "starting", "serving"}]
    /\ secret \in [Services -> {EnvSecret, DaprSecret, NoSecret}]
    /\ tokens \subseteq Token
    /\ registered \subseteq [email: Emails, password: Passwords] /\ raced \subseteq Emails
    /\ requests \in 0..MaxRequests /\ crashes \in 0..MaxCrashes
    /\ phase["auth"] = "serving" => secret["auth"] \in {EnvSecret, DaprSecret}
Calling == {h \in Handlers : pc[h] = "calling"}
LookupTypes ==
    /\ slots \in Nat /\ slots + Cardinality(Calling) = MaxConcurrency
    /\ lookups \in 0..MaxLookups /\ hidden \in BOOLEAN

FrontendInv ==
    /\ ThrottleTypes /\ AccountTypes /\ LookupTypes
    /\ \A h \in Handlers : HandlerOK(pc[h], request[h], hit[h])
    /\ \A h \in Handlers : Snapshot(etags, counters, pc[h], hit[h])
    /\ Booked /\ \A k \in Key : Counted(k)

-----------------------------------------------------------------------------
(* Counters and sets of handlers                                           *)

(* A counter reads as a number, absent ones as 0.                           *)
LEMMA CountIsNat ==
    ASSUME NEW f, IsCounters(f), NEW k
    PROVE  Count(f, k) \in Nat
BY DEF IsCounters, Count

(* Writing one counter changes that one only.                               *)
LEMMA PutCounts ==
    ASSUME NEW f, IsCounters(f), NEW k \in Key, NEW n \in Nat
    PROVE  /\ IsCounters(Put(f, k, n))
           /\ Count(Put(f, k, n), k) = n
           /\ \A x \in Key \ {k} : Count(Put(f, k, n), x) = Count(f, x)
BY DEF IsCounters, Put, Count

(* validate_rate_limit_params() lets only positive limits through.          *)
LEMMA LimitsAreNumbers == \A kind \in Throttled : Limit[kind] \in Nat /\ Limit[kind] >= 1
BY ThrottleAssumption DEF ValidLimit

(* Sets of handlers are finite.                                             *)
LEMMA HandlerSets ==
    ASSUME NEW S, S \subseteq Handlers
    PROVE  IsFiniteSet(S) /\ Cardinality(S) \in Nat
BY ThrottleAssumption, FS_Subset, FS_CardinalityType

(* Two sets of handlers that differ in h at most.                           *)
LEMMA OneHandler ==
    ASSUME NEW S, NEW T, S \subseteq Handlers, T \subseteq Handlers,
           NEW h \in Handlers, S \ {h} = T \ {h}
    PROVE  /\ (h \in S /\ h \in T) \/ (h \notin S /\ h \notin T)
                => Cardinality(T) = Cardinality(S)
           /\ h \in S /\ h \notin T => Cardinality(T) = Cardinality(S) - 1
           /\ h \notin S /\ h \in T => Cardinality(T) = Cardinality(S) + 1
<1>1. IsFiniteSet(S) /\ IsFiniteSet(T) /\ Cardinality(S) \in Nat /\ Cardinality(T) \in Nat
  BY HandlerSets
<1>2. (h \in S /\ h \in T) \/ (h \notin S /\ h \notin T) => S = T
  OBVIOUS
<1>3. ASSUME h \in S, h \notin T PROVE T = S \ {h}
  BY <1>3
<1>4. ASSUME h \notin S, h \in T PROVE T = S \cup {h}
  BY <1>4
<1> QED
  BY <1>1, <1>2, <1>3, <1>4, FS_AddElement, FS_RemoveElement

-----------------------------------------------------------------------------
(* The services start with nobody counted, served or lent a slot.           *)
LEMMA InvInit == Init => FrontendInv
<1> SUFFICES ASSUME Init PROVE FrontendInv
  OBVIOUS
<1> USE DEF Init, ThrottleInit, AccountsInit, LookupInit
<1>1. NoHit \in Hit
  BY ThrottleAssumption DEF NoHit, Hit
<1>2. ThrottleTypes
  <2>1. IsCounters(counters) /\ IsCounters(etags) /\ IsCounters(created) /\ IsCounters(admitted)
    BY DEF IsCounters
  <2> QED
    BY <2>1, ThrottleAssumption DEF ThrottleTypes
<1>3. AccountTypes
  BY AccountsAssumption DEF AccountTypes, Services
<1>4. LookupTypes
  <2>1. Calling = {}
    BY DEF Calling
  <2>2. hidden \in BOOLEAN
    OBVIOUS
  <2> QED
    BY <2>1, <2>2, LookupAssumption, FS_EmptySet DEF LookupTypes
<1>5. \A h \in Handlers : HandlerOK(pc[h], request[h], hit[h])
  BY <1>1 DEF HandlerOK, Steps, HitOK, Hitting, RequestOK
<1>6. Booked
  <2> SUFFICES ASSUME NEW k \in Key
               PROVE  Count(admitted, k) + Cardinality(Owed(k)) <= Count(etags, k)
    BY DEF Booked
  <2>1. Owed(k) = {}
    BY DEF Owed, Pays, Hitting
  <2>2. Count(admitted, k) = 0 /\ Count(etags, k) = 0
    BY DEF Count
  <2> QED
    BY <2>1, <2>2, FS_EmptySet
<1>7. \A k \in Key : Counted(k)
  <2> SUFFICES ASSUME NEW k \in Key PROVE Counted(k)
    OBVIOUS
  <2>1. Count(counters, k) = 0 /\ Count(etags, k) = 0
    BY DEF Count
  <2>2. Limit[k.kind] \in Nat
    BY LimitsAreNumbers DEF Key
  <2> QED
    BY <2>1, <2>2 DEF Counted
<1>8. \A h \in Handlers : Snapshot(etags, counters, pc[h], hit[h])
  BY DEF Snapshot
<1> QED
  BY <1>2, <1>3, <1>4, <1>5, <1>6, <1>7, <1>8 DEF FrontendInv

-----------------------------------------------------------------------------
(* A step of one handler                                                   *)

Becomes(h, p, r, x) ==
    /\ pc' = [pc EXCEPT ![h] = p]
    /\ request' = [request EXCEPT ![h] = r]
    /\ hit' = [hit EXCEPT ![h] = x]

(* A handler that moves to a good place leaves all the others in theirs.    *)
LEMMA HandlerSteps ==
    ASSUME FrontendInv, NEW h \in Handlers, NEW p, NEW r, NEW x,
           Becomes(h, p, r, x), HandlerOK(p, r, x), phase' = phase
    PROVE  /\ pc' = [g \in Handlers |-> pc'[g]]
           /\ request' = [g \in Handlers |-> request'[g]]
           /\ hit' = [g \in Handlers |-> hit'[g]]
           /\ pc'[h] = p /\ request'[h] = r /\ hit'[h] = x
           /\ \A g \in Handlers : HandlerOK(pc[g], request[g], hit[g])'
<1>1. /\ pc' = [g \in Handlers |-> IF g = h THEN p ELSE pc[g]]
      /\ request' = [g \in Handlers |-> IF g = h THEN r ELSE request[g]]
      /\ hit' = [g \in Handlers |-> IF g = h THEN x ELSE hit[g]]
  BY DEF Becomes, FrontendInv, ThrottleTypes
<1>2. \A g \in Handlers : HandlerOK(pc[g], request[g], hit[g])'
  BY <1>1 DEF FrontendInv, HandlerOK, RequestOK, HitOK
<1> QED
  BY <1>1, <1>2

(* ... and changes the sets of owing and calling handlers by itself at most. *)
LEMMA SetSteps ==
    ASSUME FrontendInv, NEW h \in Handlers, NEW p, NEW r, NEW x, Becomes(h, p, r, x)
    PROVE  /\ \A k : Owed(k) \ {h} = Owed(k)' \ {h} /\ (h \in Owed(k)' <=> Pays(p, x, k))
           /\ Calling \ {h} = Calling' \ {h} /\ (h \in Calling' <=> p = "calling")
<1>1. /\ pc' = [g \in Handlers |-> IF g = h THEN p ELSE pc[g]]
      /\ hit' = [g \in Handlers |-> IF g = h THEN x ELSE hit[g]]
  BY DEF Becomes, FrontendInv, ThrottleTypes
<1> QED
  BY <1>1 DEF Owed, Pays, Calling

(* What the store holds of each key stays, or is written once more.         *)
StoreGrown ==
    /\ IsCounters(counters)' /\ IsCounters(etags)' /\ IsCounters(created)'
    /\ \A k \in Key :
          /\ Counted(k)'
          /\ \/ Count(etags, k)' = Count(etags, k) /\ Count(counters, k)' = Count(counters, k)
             \/ Count(etags, k)' = Count(etags, k) + 1

(* ... and nobody is admitted.                                              *)
Grown == StoreGrown /\ admitted' = admitted

(* The counts of a key are numbers.                                         *)
LEMMA CountsAreNumbers ==
    ASSUME FrontendInv, NEW k \in Key
    PROVE  /\ Count(counters, k) \in Nat /\ Count(etags, k) \in Nat
           /\ Count(created, k) \in Nat /\ Count(admitted, k) \in Nat
           /\ Limit[k.kind] \in Nat /\ Limit[k.kind] >= 1
<1>1. k.kind \in Throttled
  BY DEF Key
<1> QED
  BY <1>1, CountIsNat, LimitsAreNumbers DEF FrontendInv, ThrottleTypes

(* What was read of a key stays what is stored, or becomes older.           *)
LEMMA FreshStays ==
    ASSUME FrontendInv, StoreGrown, NEW x \in Hit, NEW k \in Key, Fresh(etags, counters, x, k)
    PROVE  Fresh(etags', counters', x, k)
<1>1. Count(etags, k) \in Nat /\ x.etag \in Nat
  BY CountsAreNumbers DEF Hit
<1>2. \/ Count(etags, k)' = Count(etags, k) /\ Count(counters, k)' = Count(counters, k)
      \/ Count(etags, k)' = Count(etags, k) + 1
  BY DEF StoreGrown
<1> QED
  BY <1>1, <1>2 DEF Fresh

(* A request at work on a counter has its key.                              *)
LEMMA LastKey ==
    ASSUME NEW r, NEW x, HandlerOK("count", r, x)
    PROVE  x \in Hit /\ x.keys[Len(x.keys)] \in Key
<1>1. x \in Hit /\ Len(x.keys) \in 1..Len(Hits(r))
  BY DEF HandlerOK, HitOK, Hitting
<1>2. x.keys \in Seq(Key) /\ Len(Hits(r)) \in 1..2
  BY <1>1 DEF Hit, Hits
<1>3. Len(x.keys) \in 1..Len(x.keys)
  BY <1>1, <1>2
<1> QED
  BY <1>1, <1>2, <1>3

(* A step of h leaves what the others have read as fresh as it was, or old. *)
LEMMA SnapshotSteps ==
    ASSUME FrontendInv, StoreGrown, NEW h \in Handlers, NEW p, NEW r, NEW x,
           Becomes(h, p, r, x), Snapshot(etags', counters', p, x)
    PROVE  \A g \in Handlers : Snapshot(etags, counters, pc[g], hit[g])'
<1> SUFFICES ASSUME NEW g \in Handlers, pc'[g] = "count"
             PROVE  Fresh(etags', counters', hit'[g], hit'[g].keys[Len(hit'[g].keys)])
  BY DEF Snapshot
<1>1. /\ pc' = [i \in Handlers |-> IF i = h THEN p ELSE pc[i]]
      /\ hit' = [i \in Handlers |-> IF i = h THEN x ELSE hit[i]]
  BY DEF Becomes, FrontendInv, ThrottleTypes
<1>2. CASE g = h
  BY <1>1, <1>2 DEF Snapshot
<1>3. CASE g # h
  <2>1. pc[g] = "count" /\ hit'[g] = hit[g]
    BY <1>1, <1>3
  <2>2. HandlerOK("count", request[g], hit[g]) /\ Snapshot(etags, counters, pc[g], hit[g])
    BY <2>1 DEF FrontendInv
  <2>3. PICK y, k : y = hit[g] /\ k = hit[g].keys[Len(hit[g].keys)]
    OBVIOUS
  <2>4. y \in Hit /\ k \in Key /\ Fresh(etags, counters, y, k)
    BY <2>1, <2>2, <2>3, LastKey DEF Snapshot
  <2>5. Fresh(etags', counters', y, k)
    BY <2>4, FreshStays
  <2> QED
    BY <2>1, <2>3, <2>5
<1> QED
  BY <1>2, <1>3

(* A step after which nobody new owes a count keeps the books balanced.     *)
LEMMA BookedSteps ==
    ASSUME FrontendInv, Grown, \A k \in Key : Owed(k)' \subseteq Owed(k)
    PROVE  Booked'
<1> SUFFICES ASSUME NEW k \in Key
             PROVE  Count(admitted, k)' + Cardinality(Owed(k)') <= Count(etags, k)'
  BY DEF Booked
<1>1. Cardinality(Owed(k)') <= Cardinality(Owed(k))
  <2>1. Owed(k) \subseteq Handlers
    BY DEF Owed
  <2> QED
    BY <2>1, HandlerSets, FS_Subset
<1>2. Cardinality(Owed(k)) \in Nat /\ Cardinality(Owed(k)') \in Nat
  <2>1. Owed(k) \subseteq Handlers /\ Owed(k)' \subseteq Handlers
    BY DEF Owed
  <2> QED
    BY <2>1, HandlerSets
<1>3. /\ Count(admitted, k) \in Nat /\ Count(etags, k) \in Nat
      /\ Count(etags, k)' \in {Count(etags, k), Count(etags, k) + 1}
  BY CountsAreNumbers DEF Grown, StoreGrown
<1>4. Count(admitted, k)' = Count(admitted, k)
  BY DEF Grown, Count
<1>5. Count(admitted, k) + Cardinality(Owed(k)) <= Count(etags, k)
  BY DEF FrontendInv, Booked
<1> QED
  BY <1>1, <1>2, <1>3, <1>4, <1>5

(* A step of one handler keeps the invariant if it leaves the handler well  *)
(* placed, the books balanced and the slots right.                          *)
LEMMA StepInv ==
    ASSUME FrontendInv, NEW h \in Handlers, NEW p, NEW r, NEW x,
           Becomes(h, p, r, x), HandlerOK(p, r, x), phase' = phase,
           AccountTypes', window' = window, faults' \in 0..MaxFaults,
           StoreGrown, IsCounters(admitted)', Booked', Snapshot(etags', counters', p, x),
           slots' \in Nat,
           \/ slots' = slots /\ (p = "calling" <=> pc[h] = "calling")
           \/ slots' = slots - 1 /\ p = "calling" /\ pc[h] # "calling"
           \/ slots' = slots + 1 /\ p # "calling" /\ pc[h] = "calling",
           lookups' \in 0..MaxLookups, hidden' \in BOOLEAN
    PROVE  FrontendInv'
<1>1. ThrottleTypes'
  BY HandlerSteps DEF FrontendInv, ThrottleTypes, StoreGrown
<1>2. LookupTypes'
  <2>1. Calling \subseteq Handlers /\ Calling' \subseteq Handlers
    BY DEF Calling
  <2>2. Calling \ {h} = Calling' \ {h} /\ (h \in Calling' <=> p = "calling")
    BY SetSteps
  <2>3. h \in Calling <=> pc[h] = "calling"
    BY DEF Calling
  <2>4. Cardinality(Calling) \in Nat /\ Cardinality(Calling') \in Nat
    BY <2>1, HandlerSets
  <2>5. /\ (h \in Calling /\ h \in Calling') \/ (h \notin Calling /\ h \notin Calling')
               => Cardinality(Calling') = Cardinality(Calling)
        /\ h \in Calling /\ h \notin Calling' => Cardinality(Calling') = Cardinality(Calling) - 1
        /\ h \notin Calling /\ h \in Calling' => Cardinality(Calling') = Cardinality(Calling) + 1
    BY <2>1, <2>2, OneHandler
  <2>6. slots \in Nat /\ slots + Cardinality(Calling) = MaxConcurrency
    BY DEF FrontendInv, LookupTypes
  <2>7. slots' + Cardinality(Calling') = MaxConcurrency
    BY <2>2, <2>3, <2>4, <2>5, <2>6
  <2> QED
    BY <2>7, Zenon DEF LookupTypes
<1>3. \A g \in Handlers : HandlerOK(pc[g], request[g], hit[g])'
  BY HandlerSteps
<1>4. \A g \in Handlers : Snapshot(etags, counters, pc[g], hit[g])'
  BY SnapshotSteps
<1>5. \A k \in Key : Counted(k)'
  BY DEF StoreGrown
<1> QED
  BY <1>1, <1>2, <1>3, <1>4, <1>5, Zenon DEF FrontendInv

(* The books of a step that admits nobody and after which h owes nothing.   *)
LEMMA QuietBooks ==
    ASSUME FrontendInv, NEW h \in Handlers, NEW p, NEW r, NEW x, Becomes(h, p, r, x),
           Grown, \A k \in Key : Pays(p, x, k) => h \in Owed(k)
    PROVE  Booked'
<1>1. \A k \in Key : Owed(k) \ {h} = Owed(k)' \ {h} /\ (h \in Owed(k)' <=> Pays(p, x, k))
  BY SetSteps
<1>2. \A k \in Key : Owed(k)' \subseteq Owed(k)
  BY <1>1
<1> QED
  BY <1>2, BookedSteps

(* A step that touches no counter keeps them as they are.                   *)
LEMMA SameCounters ==
    ASSUME FrontendInv, UNCHANGED counts
    PROVE  Grown /\ StoreGrown /\ IsCounters(admitted)'
<1>1. counters' = counters /\ etags' = etags /\ created' = created /\ admitted' = admitted
  BY DEF counts
<1>2. /\ IsCounters(counters)' /\ IsCounters(etags)' /\ IsCounters(created)'
      /\ IsCounters(admitted)'
  BY <1>1 DEF FrontendInv, ThrottleTypes, IsCounters
<1>3. \A k \in Key : /\ Count(counters, k)' = Count(counters, k)
                     /\ Count(etags, k)' = Count(etags, k)
                     /\ Count(created, k)' = Count(created, k)
  BY <1>1 DEF Count
<1>4. \A k \in Key : Counted(k)'
  BY <1>3 DEF FrontendInv, Counted
<1> QED
  BY <1>1, <1>2, <1>3, <1>4 DEF Grown, StoreGrown

(* A handler that has answered is idle and owes nothing.                    *)
LEMMA LeaveBecomes ==
    ASSUME NEW h \in Handlers, Leave(h)
    PROVE  /\ Becomes(h, "idle", NoRequest, NoHit)
           /\ HandlerOK("idle", NoRequest, NoHit)
           /\ \A k : ~Pays("idle", NoHit, k)
<1>1. NoHit \in Hit
  BY ThrottleAssumption DEF NoHit, Hit
<1> QED
  BY <1>1 DEF Leave, Goto, Becomes, HandlerOK, Steps, HitOK, RequestOK, Pays, Hitting

(* A handler goes on with the same request and the same hits.               *)
LEMMA GotoBecomes ==
    ASSUME FrontendInv, NEW h \in Handlers, NEW p, Goto(h, p), UNCHANGED <<request, hit>>
    PROVE  Becomes(h, p, request[h], hit[h])
BY DEF FrontendInv, ThrottleTypes, Goto, Becomes

(* Failures stay within their bound.                                        *)
LEMMA FaultIsCounted ==
    ASSUME FrontendInv, Fault \/ UNCHANGED faults
    PROVE  faults' \in 0..MaxFaults
BY ThrottleAssumption DEF FrontendInv, ThrottleTypes, Fault

(* A step that touches no account keeps their types.                        *)
LEMMA SameAccounts ==
    ASSUME FrontendInv, UNCHANGED <<accounts, services, requests, crashes>>
    PROVE  AccountTypes'
BY DEF FrontendInv, AccountTypes, accounts, services

(* A step that touches no lookup keeps the slots.                           *)
LEMMA SameLookup ==
    ASSUME FrontendInv, UNCHANGED lookup
    PROVE  slots' = slots /\ slots' \in Nat /\ lookups' \in 0..MaxLookups /\ hidden' \in BOOLEAN
BY Zenon DEF FrontendInv, LookupTypes, lookup

-----------------------------------------------------------------------------
(* The account of a login or a registration                                *)

(* What registration and seeding write is a user.                           *)
LEMMA NewUserType ==
    ASSUME NEW password \in Passwords, NEW salt \in Salts, NEW role \in Roles
    PROVE  NewUser(password, salt, role) \in User
BY DEF NewUser, HashPassword, User

(* A step that leaves the throttle and the lookup alone.                    *)
LEMMA AccountStepInv ==
    ASSUME FrontendInv, NEW h \in Handlers, NEW p, NEW r, NEW x, Becomes(h, p, r, x),
           HandlerOK(p, r, x), p \notin Hitting, p # "calling", pc[h] # "calling",
           AccountTypes', Fault \/ UNCHANGED faults,
           UNCHANGED <<services, window, counts, lookup>>
    PROVE  FrontendInv'
<1>1. Grown /\ StoreGrown /\ IsCounters(admitted)'
  BY SameCounters
<1>2. Booked'
  BY <1>1, QuietBooks DEF Pays
<1>3. faults' \in 0..MaxFaults
  BY FaultIsCounted
<1>4. slots' = slots /\ slots' \in Nat /\ lookups' \in 0..MaxLookups /\ hidden' \in BOOLEAN
  BY SameLookup
<1>5. phase' = phase /\ window' = window
  BY DEF services
<1>6. Snapshot(etags', counters', p, x)
  BY DEF Snapshot, Hitting
<1> QED
  BY <1>1, <1>2, <1>3, <1>4, <1>5, <1>6, StepInv, Zenon

(* Past the throttle a handler serves a login or a registration at a live Auth. *)
LEMMA AtAccount ==
    ASSUME FrontendInv, NEW h \in Handlers, pc[h] \in {"account", "save"}
    PROVE  /\ request[h] \in Requests /\ request[h].email \in Emails
           /\ AtAuth(request[h]) /\ request[h].password \in Passwords
           /\ phase["auth"] = "serving" /\ hit[h] \in Hit
<1>1. HandlerOK(pc[h], request[h], hit[h])
  BY DEF FrontendInv
<1>2. request[h] \in Requests /\ hit[h] \in Hit
  BY <1>1 DEF HandlerOK
<1>3. AtAuth(request[h]) /\ request[h].password \in Passwords /\ phase["auth"] = "serving"
  BY <1>1 DEF HandlerOK, RequestOK
<1> QED
  BY <1>2, <1>3 DEF Requests

(* register() reads the account.                                            *)
LEMMA CheckEmailInv ==
    ASSUME FrontendInv, NEW h \in Handlers, CheckEmail(h), UNCHANGED lookup
    PROVE  FrontendInv'
<1>1. pc[h] = "account" /\ UNCHANGED <<services, window, counts, lookup>>
  BY DEF CheckEmail
<1>2. Fault \/ UNCHANGED faults
  BY DEF CheckEmail
<1>3. AccountTypes'
  <2>1. raced' \subseteq Emails
    BY <1>1, AtAccount DEF CheckEmail, FrontendInv, AccountTypes
  <2> QED
    BY <2>1 DEF CheckEmail, services, FrontendInv, AccountTypes
<1>4. CASE Leave(h)
  BY <1>1, <1>2, <1>3, <1>4, LeaveBecomes, AccountStepInv DEF Hitting
<1>5. CASE Goto(h, "save") /\ UNCHANGED <<request, hit>>
  <2>1. Becomes(h, "save", request[h], hit[h])
    BY <1>5, GotoBecomes
  <2>2. HandlerOK("save", request[h], hit[h])
    BY <1>1, AtAccount, ThrottleAssumption DEF HandlerOK, RequestOK, HitOK, Hitting, Steps
  <2> QED
    BY <1>1, <1>2, <1>3, <2>1, <2>2, AccountStepInv DEF Hitting
<1> QED
  BY <1>4, <1>5 DEF CheckEmail

(* register() saves the account.                                            *)
LEMMA SaveUserInv ==
    ASSUME FrontendInv, NEW h \in Handlers, SaveUser(h), UNCHANGED lookup
    PROVE  FrontendInv'
<1>1. /\ pc[h] = "save" /\ UNCHANGED <<services, window, counts, lookup>>
      /\ Fault \/ UNCHANGED faults
      /\ Leave(h)
  BY DEF SaveUser
<1>2. request[h].email \in Emails /\ request[h].password \in Passwords
  BY <1>1, AtAccount
<1>3. users' \in [Emails -> User \cup {NoUser}]
  <2>1. users \in [Emails -> User \cup {NoUser}]
    BY DEF FrontendInv, AccountTypes
  <2>2. CASE Saved(request[h].email, request[h].password)
    <3>1. PICK salt \in Salts : users' = [users EXCEPT ![request[h].email] =
                                              NewUser(request[h].password, salt, Submitter)]
      BY <2>2 DEF Saved
    <3>2. NewUser(request[h].password, salt, Submitter) \in User
      BY <1>2, NewUserType DEF Roles
    <3> QED
      BY <2>1, <3>1, <3>2
  <2>3. CASE UNCHANGED users
    BY <2>1, <2>3
  <2> QED
    BY <2>2, <2>3 DEF SaveUser
<1>4. registered' \subseteq [email: Emails, password: Passwords]
  BY <1>2 DEF SaveUser, FrontendInv, AccountTypes
<1>5. AccountTypes'
  BY <1>3, <1>4 DEF SaveUser, services, FrontendInv, AccountTypes
<1> QED
  BY <1>1, <1>5, LeaveBecomes, AccountStepInv DEF Hitting

(* login() verifies the password and issues a token.                        *)
LEMMA CheckPasswordInv ==
    ASSUME FrontendInv, NEW h \in Handlers, CheckPassword(h), UNCHANGED lookup
    PROVE  FrontendInv'
<1>1. /\ pc[h] = "account" /\ UNCHANGED <<services, window, counts, lookup>>
      /\ Fault \/ UNCHANGED faults
      /\ Leave(h)
  BY DEF CheckPassword
<1>2. request[h].email \in Emails /\ phase["auth"] = "serving"
  BY <1>1, AtAccount
<1>3. tokens' \subseteq Token
  <2>1. tokens \subseteq Token /\ users \in [Emails -> User \cup {NoUser}]
    BY DEF FrontendInv, AccountTypes
  <2>2. ASSUME users[request[h].email] # NoUser
        PROVE  CreateAccessToken(request[h].email) \in Token
    <3>1. users[request[h].email].role \in Roles
      BY <1>2, <2>1, <2>2 DEF User
    <3>2. secret["auth"] \in {EnvSecret, DaprSecret}
      BY <1>2 DEF FrontendInv, AccountTypes
    <3>3. window + Lifetime \in Nat
      BY AccountsAssumption, ThrottleAssumption DEF FrontendInv, ThrottleTypes
    <3> QED
      BY <1>2, <3>1, <3>2, <3>3 DEF CreateAccessToken, Token
  <2> QED
    BY <2>1, <2>2 DEF CheckPassword, Authenticated
<1>4. AccountTypes'
  BY <1>3 DEF CheckPassword, services, FrontendInv, AccountTypes
<1> QED
  BY <1>1, <1>4, LeaveBecomes, AccountStepInv DEF Hitting

-----------------------------------------------------------------------------
(* The status lookup                                                       *)

(* A token that a service accepts speaks for a known email.                 *)
LEMMA UserOfToken ==
    ASSUME FrontendInv, NEW token \in tokens, GetCurrentUser(token, "api") # Nobody
    PROVE  GetCurrentUser(token, "api").sub \in Emails
<1>1. token.sub \in Emails
  BY DEF FrontendInv, AccountTypes, Token
<1> QED
  BY <1>1 DEF GetCurrentUser, DecodeToken

(* A step that touches neither the throttle nor any account.                *)
LEMMA LookupStepInv ==
    ASSUME FrontendInv, NEW h \in Handlers, NEW p, NEW r, NEW x, Becomes(h, p, r, x),
           HandlerOK(p, r, x), p \notin Hitting, Fault \/ UNCHANGED faults, UNCHANGED unasked,
           slots' \in Nat,
           \/ slots' = slots /\ (p = "calling" <=> pc[h] = "calling")
           \/ slots' = slots - 1 /\ p = "calling" /\ pc[h] # "calling"
           \/ slots' = slots + 1 /\ p # "calling" /\ pc[h] = "calling",
           lookups' \in 0..MaxLookups, hidden' \in BOOLEAN
    PROVE  FrontendInv'
<1>1. UNCHANGED <<accounts, services, requests, crashes, window, counts>>
  BY DEF unasked
<1>2. Grown /\ StoreGrown /\ IsCounters(admitted)'
  BY <1>1, SameCounters
<1>3. Booked'
  BY <1>2, QuietBooks DEF Pays
<1>4. faults' \in 0..MaxFaults
  BY FaultIsCounted
<1>5. AccountTypes'
  BY <1>1, SameAccounts
<1>6. phase' = phase /\ window' = window
  BY <1>1 DEF services
<1>7. Snapshot(etags', counters', p, x)
  BY DEF Snapshot, Hitting
<1> QED
  BY <1>2, <1>3, <1>4, <1>5, <1>6, <1>7, StepInv, Zenon

(* What the invariant says of slots, lookups and handlers.                  *)
LEMMA LookupFacts ==
    ASSUME FrontendInv
    PROVE  /\ slots \in Nat /\ lookups \in 0..MaxLookups /\ hidden \in BOOLEAN
           /\ \A h \in Handlers : HandlerOK(pc[h], request[h], hit[h])
BY Zenon DEF FrontendInv, LookupTypes

(* A step on to another await of the lookup.                                *)
LEMMA LookupGoesOn ==
    ASSUME NEW p, p \in {"submission", "queued", "calling"},
           NEW r \in Requests, r.kind = "status", NEW x \in Hit
    PROVE  HandlerOK(p, r, x) /\ p \notin Hitting
BY ThrottleAssumption DEF HandlerOK, RequestOK, AtAuth, HitOK, Hitting, Steps

(* A status request arrives.                                                *)
LEMMA AskInv ==
    ASSUME FrontendInv, NEW h \in Handlers, NEW token \in tokens, NEW ip \in Addresses,
           Ask(h, token, ip)
    PROVE  FrontendInv'
<1> DEFINE r == Request("status", GetCurrentUser(token, "api").sub, ip, NoPassword)
<1>1. r \in Requests /\ r.kind = "status"
  BY UserOfToken DEF Ask, Request, Requests
<1>2. hit[h] \in Hit /\ pc[h] = "idle"
  BY LookupFacts DEF HandlerOK, Ask, Free
<1>3. Becomes(h, "submission", r, hit[h])
  BY DEF Ask, Goto, Becomes, FrontendInv, ThrottleTypes
<1>4. lookups' \in 0..MaxLookups
  BY LookupFacts, LookupAssumption DEF Ask
<1>5. UNCHANGED <<unasked, slots, hidden, faults>>
  BY DEF Ask
<1>6. slots' \in Nat /\ slots' = slots /\ hidden' \in BOOLEAN
  BY <1>5, LookupFacts, Zenon
<1> HIDE DEF r
<1>7. HandlerOK("submission", r, hit[h]) /\ "submission" \notin Hitting
  BY <1>1, <1>2, LookupGoesOn
<1> QED
  BY <1>2, <1>3, <1>4, <1>5, <1>6, <1>7, LookupStepInv

(* It reads the submission, and is answered or asks Approval.               *)
LEMMA ReadSubmissionInv ==
    ASSUME FrontendInv, NEW h \in Handlers, ReadSubmission(h)
    PROVE  FrontendInv'
<1>1. pc[h] = "submission" /\ UNCHANGED <<unasked, lookup, faults>>
  BY DEF ReadSubmission
<1>2. slots' \in Nat /\ slots' = slots /\ lookups' \in 0..MaxLookups /\ hidden' \in BOOLEAN
  BY <1>1, SameLookup
<1>3. CASE Leave(h)
  BY <1>1, <1>2, <1>3, LeaveBecomes, LookupStepInv DEF Hitting
<1>4. CASE Goto(h, "queued") /\ UNCHANGED <<request, hit>>
  <2>1. Becomes(h, "queued", request[h], hit[h])
    BY <1>4, GotoBecomes
  <2>2. request[h] \in Requests /\ hit[h] \in Hit /\ request[h].kind = "status"
    BY <1>1, LookupFacts DEF HandlerOK, RequestOK
  <2>3. HandlerOK("queued", request[h], hit[h]) /\ "queued" \notin Hitting
    BY <2>2, LookupGoesOn
  <2> QED
    BY <1>1, <1>2, <2>1, <2>3, LookupStepInv
<1> QED
  BY <1>3, <1>4 DEF ReadSubmission

(* It takes a slot of the bulkhead.                                         *)
LEMMA AcquireInv ==
    ASSUME FrontendInv, NEW h \in Handlers, Acquire(h)
    PROVE  FrontendInv'
<1>1. pc[h] = "queued" /\ UNCHANGED <<unasked, lookups, hidden, faults>>
  BY DEF Acquire
<1>2. lookups' \in 0..MaxLookups /\ hidden' \in BOOLEAN
  BY <1>1, LookupFacts, Zenon
<1>3. slots' \in Nat /\ slots' = slots - 1
  BY LookupFacts DEF Acquire
<1>4. Becomes(h, "calling", request[h], hit[h])
  BY GotoBecomes DEF Acquire
<1>5. request[h] \in Requests /\ hit[h] \in Hit /\ request[h].kind = "status"
  BY <1>1, LookupFacts DEF HandlerOK, RequestOK
<1>6. HandlerOK("calling", request[h], hit[h]) /\ "calling" \notin Hitting
  BY <1>5, LookupGoesOn
<1> QED
  BY <1>1, <1>2, <1>3, <1>4, <1>6, LookupStepInv

(* However the lookup ends, the slot it held is given back.                 *)
LEMMA ReturnedInv ==
    ASSUME FrontendInv, NEW h \in Handlers, Returned(h), Fault \/ UNCHANGED faults,
           hidden' \in BOOLEAN
    PROVE  FrontendInv'
<1>1. UNCHANGED <<unasked, lookups>> /\ Leave(h)
  BY DEF Returned
<1>2. lookups' \in 0..MaxLookups /\ slots \in Nat
  BY <1>1, LookupFacts
<1>3. CASE pc[h] = "calling"
  <2>1. slots' \in Nat /\ slots' = slots + 1
    BY <1>2, <1>3 DEF Returned, Held
  <2> QED
    BY <1>1, <1>2, <1>3, <2>1, LeaveBecomes, LookupStepInv DEF Hitting
<1>4. CASE pc[h] # "calling"
  <2>1. slots' \in Nat /\ slots' = slots
    BY <1>2, <1>4 DEF Returned, Held
  <2> QED
    BY <1>1, <1>2, <1>4, <2>1, LeaveBecomes, LookupStepInv DEF Hitting
<1> QED
  BY <1>3, <1>4

(* The call returns, fails or runs out of time, perhaps waiting for its slot. *)
LEMMA LookupEndsInv ==
    ASSUME FrontendInv, NEW h \in Handlers, Reply(h) \/ CallFails(h) \/ Timeout(h)
    PROVE  FrontendInv'
<1>1. Returned(h) /\ (Fault \/ UNCHANGED faults)
  BY DEF Reply, CallFails, Timeout
<1>2. hidden' \in BOOLEAN
  <2>1. CASE Reply(h)
    BY <2>1, Zenon DEF Reply
  <2>2. CASE UNCHANGED hidden
    BY <2>2, LookupFacts, Zenon
  <2> QED
    BY <2>1, <2>2 DEF CallFails, Timeout
<1> QED
  BY <1>1, <1>2, ReturnedInv

-----------------------------------------------------------------------------
(* Hits                                                                    *)

(* The n-th limiter of a request counts it on a key of its own kind.        *)
LEMMA KeyForType ==
    ASSUME FrontendInv, NEW r \in Requests, r.kind \in Throttled, NEW n \in 1..Len(Hits(r))
    PROVE  KeyFor(r, n) \in Key /\ KeyFor(r, n).kind = r.kind /\ KeyFor(r, n).by = Hits(r)[n]
<1>1. window \in Nat
  BY ThrottleAssumption DEF FrontendInv, ThrottleTypes
<1>2. Hits(r)[n] \in {"email", "ip", "user"}
  BY DEF Hits
<1>3. Identity(r, Hits(r)[n]) \in Emails \cup Addresses
  BY DEF Identity, Requests
<1> QED
  BY <1>1, <1>2, <1>3 DEF KeyFor, Key

(* The keys of r once its next hit has started.                             *)
NextKeys(r, keys) == Append(keys, KeyFor(r, Len(keys) + 1))

(* A further hit appends the key of the next limiter.                       *)
LEMMA NextKeysType ==
    ASSUME FrontendInv, NEW r \in Requests, r.kind \in Throttled, NEW keys \in Seq(Key),
           Len(keys) < Len(Hits(r)),
           \A i \in 1..Len(keys) : keys[i].kind = r.kind /\ keys[i].by = Hits(r)[i]
    PROVE  /\ NextKeys(r, keys) \in Seq(Key) /\ Len(NextKeys(r, keys)) = Len(keys) + 1
           /\ \A i \in 1..Len(keys) : NextKeys(r, keys)[i] = keys[i]
           /\ \A i \in 1..Len(keys) + 1 : /\ NextKeys(r, keys)[i].kind = r.kind
                                          /\ NextKeys(r, keys)[i].by = Hits(r)[i]
<1> DEFINE key == KeyFor(r, Len(keys) + 1)
<1>1. Len(Hits(r)) \in Nat /\ Len(keys) \in Nat
  BY DEF Hits
<1>2. key \in Key /\ key.kind = r.kind /\ key.by = Hits(r)[Len(keys) + 1]
  BY <1>1, KeyForType
<1> HIDE DEF key
<1>3. /\ Append(keys, key) \in Seq(Key) /\ Len(Append(keys, key)) = Len(keys) + 1
      /\ \A i \in 1..Len(keys) : Append(keys, key)[i] = keys[i]
      /\ Append(keys, key)[Len(keys) + 1] = key
  BY <1>1, <1>2
<1>4. NextKeys(r, keys) = Append(keys, key)
  BY DEF NextKeys, key
<1> QED
  BY <1>1, <1>2, <1>3, <1>4

(* A hit that starts with these keys is well placed.                        *)
LEMMA StartedOK ==
    ASSUME NEW r \in Requests, r.kind \in Throttled, NEW x, x.keys \in Seq(Key),
           Len(x.keys) \in 1..Len(Hits(r)),
           \A i \in 1..Len(x.keys) : x.keys[i].kind = r.kind /\ x.keys[i].by = Hits(r)[i]
    PROVE  HitOK("read", r, x)
BY DEF HitOK

(* The first hit has one key.                                               *)
LEMMA FirstKeys ==
    ASSUME FrontendInv, NEW r \in Requests, r.kind \in Throttled
    PROVE  /\ NextKeys(r, <<>>) \in Seq(Key) /\ Len(NextKeys(r, <<>>)) = 1
           /\ NextKeys(r, <<>>)[1].kind = r.kind
           /\ NextKeys(r, <<>>)[1].by = Hits(r)[1]
<1>1. 1 \in 1..Len(Hits(r))
  BY DEF Hits
<1>2. KeyFor(r, 1) \in Key /\ KeyFor(r, 1).kind = r.kind /\ KeyFor(r, 1).by = Hits(r)[1]
  BY <1>1, KeyForType
<1>3. NextKeys(r, <<>>) = <<KeyFor(r, 1)>>
  BY DEF NextKeys
<1>4. ASSUME NEW key \in Key
      PROVE  <<key>> \in Seq(Key) /\ Len(<<key>>) = 1 /\ <<key>>[1] = key
  OBVIOUS
<1> QED
  BY <1>2, <1>3, <1>4, Zenon

(* A request that arrives starts its first hit.                             *)
LEMMA BeginThrottleInv ==
    ASSUME FrontendInv, NEW h \in Handlers, NEW r \in Requests, r.kind \in Throttled,
           AtAuth(r) => r.password \in Passwords /\ phase["auth"] = "serving",
           NEW s, Arrive(h, s), BeginThrottle(h, r), UNCHANGED lookup
    PROVE  FrontendInv'
<1> DEFINE x == [keys |-> NextKeys(r, <<>>), tries |-> 1, seen |-> 0, etag |-> 0, denied |-> FALSE]
<1>1. x \in Hit /\ Len(x.keys) = 1 /\ HitOK("read", r, x)
  <2>1. x \in Hit /\ Len(x.keys) = 1
    BY FirstKeys, ThrottleAssumption DEF Hit
  <2>2. 1 <= Len(Hits(r)) /\ Len(Hits(r)) \in Nat
    BY DEF Hits
  <2>3. x.keys \in Seq(Key) /\ x.keys[1].kind = r.kind /\ x.keys[1].by = Hits(r)[1]
    BY FirstKeys
  <2> HIDE DEF x
  <2>4. Len(x.keys) \in 1..Len(Hits(r))
    BY <2>1, <2>2
  <2>5. \A i \in 1..Len(x.keys) : x.keys[i].kind = r.kind /\ x.keys[i].by = Hits(r)[i]
    BY <2>1, <2>3
  <2> QED
    BY <2>1, <2>3, <2>4, <2>5, StartedOK
<1>2. Becomes(h, "read", r, x)
  BY DEF BeginThrottle, StartHit, Goto, NextKeys, Becomes
<1> HIDE DEF x
<1>3. HandlerOK("read", r, x)
  BY <1>1, ThrottleAssumption DEF HandlerOK, RequestOK, Steps
<1>4. \A k \in Key : ~Pays("read", x, k)
  BY <1>1 DEF Pays
<1>5. UNCHANGED <<accounts, services, crashes, window, counts, faults>>
  BY DEF Arrive
<1>6. Grown /\ StoreGrown /\ IsCounters(admitted)'
  BY <1>5, SameCounters
<1>7. Booked'
  BY <1>2, <1>4, <1>6, QuietBooks
<1>8. AccountTypes'
  <2>1. requests' \in 0..MaxRequests
    BY AccountsAssumption DEF Arrive, FrontendInv, AccountTypes
  <2> QED
    BY <1>5, <2>1 DEF FrontendInv, AccountTypes, accounts, services
<1>9. faults' \in 0..MaxFaults
  BY <1>5, FaultIsCounted
<1>10. slots' = slots /\ slots' \in Nat /\ lookups' \in 0..MaxLookups /\ hidden' \in BOOLEAN
  BY SameLookup
<1>11. phase' = phase /\ window' = window
  BY <1>5 DEF services
<1>12. pc[h] # "calling"
  BY DEF Arrive, Free
<1>13. Snapshot(etags', counters', "read", x)
  BY DEF Snapshot
<1> QED
  BY <1>2, <1>3, <1>6, <1>7, <1>8, <1>9, <1>10, <1>11, <1>12, <1>13, StepInv

(* A registration, a login or a submission arrives.                         *)
LEMMA ArrivalInv ==
    ASSUME FrontendInv, NEW h \in Handlers, Arrival(h), UNCHANGED lookup
    PROVE  FrontendInv'
<1>1. ASSUME NEW ip \in Addresses, NEW e \in Emails, NEW password \in Passwords,
             NEW kind \in {"register", "login"},
             Arrive(h, "auth"), BeginThrottle(h, Request(kind, e, ip, password))
      PROVE  FrontendInv'
  <2> DEFINE r == Request(kind, e, ip, password)
  <2>1. r \in Requests /\ r.kind \in Throttled /\ r.password \in Passwords
    BY <1>1 DEF Request, Requests, Throttled
  <2>2. phase["auth"] = "serving"
    BY <1>1 DEF Arrive, Free
  <2> HIDE DEF r
  <2> QED
    BY <1>1, <2>1, <2>2, BeginThrottleInv DEF r
<1>2. ASSUME NEW ip \in Addresses, NEW token \in tokens, Submit(h, token, ip)
      PROVE  FrontendInv'
  <2> DEFINE r == Request("submit", GetCurrentUser(token, "api").sub, ip, NoPassword)
  <2>1. r \in Requests /\ r.kind \in Throttled /\ ~AtAuth(r)
    BY <1>2, UserOfToken DEF Submit, Request, Requests, Throttled, AtAuth
  <2>2. Arrive(h, "api") /\ BeginThrottle(h, r)
    BY <1>2 DEF Submit
  <2> HIDE DEF r
  <2> QED
    BY <2>1, <2>2, BeginThrottleInv
<1> QED
  BY <1>1, <1>2 DEF Arrival, Register, Login

-----------------------------------------------------------------------------
(* Steps of a hit                                                          *)

(* What the invariant says of a request that is being hit.                  *)
LEMMA HittingFacts ==
    ASSUME FrontendInv, NEW h \in Handlers, pc[h] \in Hitting
    PROVE  /\ request[h] \in Requests /\ request[h].kind \in Throttled
           /\ hit[h] \in Hit /\ hit[h].keys \in Seq(Key)
           /\ hit[h].seen \in Nat /\ hit[h].etag \in Nat
           /\ hit[h].tries \in 1..MaxRetries
           /\ Len(hit[h].keys) \in 1..Len(Hits(request[h])) /\ Len(Hits(request[h])) \in 1..2
           /\ \A i \in 1..Len(hit[h].keys) : /\ hit[h].keys[i] \in Key
                                             /\ hit[h].keys[i].kind = request[h].kind
                                             /\ hit[h].keys[i].by = Hits(request[h])[i]
           /\ CurrentKey(h) \in Key /\ CurrentKey(h).kind = request[h].kind
           /\ pc[h] = "count" => hit[h].seen < Limit[request[h].kind]
           /\ AtAuth(request[h]) =>
                 request[h].password \in Passwords /\ phase["auth"] = "serving"
<1>1. HandlerOK(pc[h], request[h], hit[h])
  BY DEF FrontendInv
<1>2. pc[h] \in {"read", "count"}
  BY DEF Hitting
<1>3. request[h] \in Requests /\ hit[h] \in Hit
  BY <1>1, <1>2 DEF HandlerOK
<1>4. /\ request[h].kind \in Throttled
      /\ Len(hit[h].keys) \in 1..Len(Hits(request[h]))
      /\ \A i \in 1..Len(hit[h].keys) : /\ hit[h].keys[i].kind = request[h].kind
                                        /\ hit[h].keys[i].by = Hits(request[h])[i]
      /\ pc[h] = "count" => hit[h].seen < Limit[request[h].kind]
  BY <1>1 DEF HandlerOK, HitOK
<1>5. /\ hit[h].keys \in Seq(Key) /\ hit[h].seen \in Nat /\ hit[h].etag \in Nat
      /\ hit[h].tries \in 1..MaxRetries
  BY <1>3 DEF Hit
<1>6. Len(Hits(request[h])) \in 1..2
  BY DEF Hits
<1>7. Len(hit[h].keys) \in 1..Len(hit[h].keys)
  BY <1>4, <1>6
<1>8. \A i \in 1..Len(hit[h].keys) : hit[h].keys[i] \in Key
  BY <1>5
<1>9. CurrentKey(h) \in Key /\ CurrentKey(h).kind = request[h].kind
  BY <1>4, <1>7, <1>8 DEF CurrentKey
<1>10. AtAuth(request[h]) => request[h].password \in Passwords /\ phase["auth"] = "serving"
  BY <1>1, <1>2 DEF HandlerOK, RequestOK
<1> QED
  BY <1>3, <1>4, <1>5, <1>6, <1>8, <1>9, <1>10

(* A step that leaves accounts and lookups alone.                           *)
LEMMA HitStepInv ==
    ASSUME FrontendInv, NEW h \in Handlers, pc[h] \in Hitting, NEW p, NEW r, NEW x,
           Becomes(h, p, r, x), HandlerOK(p, r, x), p # "calling", Snapshot(etags', counters', p, x),
           Booked', StoreGrown, IsCounters(admitted)', Fault \/ UNCHANGED faults,
           UNCHANGED <<window, accounts, services, requests, crashes, lookup>>
    PROVE  FrontendInv'
<1>1. AccountTypes'
  BY SameAccounts
<1>2. faults' \in 0..MaxFaults
  BY FaultIsCounted
<1>3. slots' = slots /\ slots' \in Nat /\ lookups' \in 0..MaxLookups /\ hidden' \in BOOLEAN
  BY SameLookup
<1>4. phase' = phase /\ window' = window
  BY DEF services
<1>5. pc[h] # "calling"
  BY DEF Hitting
<1> QED
  BY <1>1, <1>2, <1>3, <1>4, <1>5, StepInv, Zenon

(* Past the throttle an invoice leaves for Intake, the others go on to Auth. *)
LEMMA ProceedBecomes ==
    ASSUME FrontendInv, NEW h \in Handlers, pc[h] \in Hitting, Proceed(h)
    PROVE  \E p, r, x : /\ Becomes(h, p, r, x) /\ HandlerOK(p, r, x)
                        /\ p # "calling" /\ p \notin Hitting
<1>1. CASE request[h].kind = "submit"
  <2>1. Leave(h)
    BY <1>1 DEF Proceed
  <2>2. Becomes(h, "idle", NoRequest, NoHit) /\ HandlerOK("idle", NoRequest, NoHit)
    BY <2>1, LeaveBecomes
  <2> QED
    BY <2>2 DEF Hitting
<1>2. CASE request[h].kind # "submit"
  <2>1. Becomes(h, "account", request[h], NoHit)
    BY <1>2 DEF Proceed, Goto, Becomes, FrontendInv, ThrottleTypes
  <2>2. NoHit \in Hit
    BY ThrottleAssumption DEF NoHit, Hit
  <2>3. AtAuth(request[h])
    BY <1>2, HittingFacts DEF AtAuth, Throttled
  <2>4. HandlerOK("account", request[h], NoHit)
    BY <2>2, <2>3, HittingFacts, ThrottleAssumption
       DEF HandlerOK, RequestOK, HitOK, Hitting, Steps
  <2> QED
    BY <2>1, <2>4 DEF Hitting
<1> QED
  BY <1>1, <1>2

(* A RateLimiterError lets the request through uncounted.                   *)
LEMMA FailOpenInv ==
    ASSUME FrontendInv, NEW h \in Handlers, pc[h] \in Hitting, FailOpen(h), Grown,
           Fault \/ UNCHANGED faults,
           UNCHANGED <<window, accounts, services, requests, crashes, lookup>>
    PROVE  FrontendInv'
<1>1. PICK p, r, x : Becomes(h, p, r, x) /\ HandlerOK(p, r, x) /\ p # "calling" /\ p \notin Hitting
  BY ProceedBecomes DEF FailOpen
<1>2. Booked'
  BY <1>1, QuietBooks DEF Pays
<1>3. StoreGrown /\ IsCounters(admitted)' /\ Snapshot(etags', counters', p, x)
  BY <1>1 DEF Grown, IsCounters, FrontendInv, ThrottleTypes, Snapshot, Hitting
<1> QED
  BY <1>1, <1>2, <1>3, HitStepInv

(* A failed or stale write is tried again, or lets the request through.     *)
LEMMA RetryHitInv ==
    ASSUME FrontendInv, NEW h \in Handlers, pc[h] = "count", RetryHit(h), Grown,
           Fault \/ UNCHANGED faults,
           UNCHANGED <<window, accounts, services, requests, crashes, lookup>>
    PROVE  FrontendInv'
<1>1. pc[h] \in Hitting
  BY DEF Hitting
<1>2. CASE FailOpen(h)
  BY <1>1, <1>2, FailOpenInv
<1>3. CASE /\ hit[h].tries < MaxRetries /\ Goto(h, "read")
           /\ hit' = [hit EXCEPT ![h].tries = @ + 1, ![h].seen = 0, ![h].etag = 0]
           /\ UNCHANGED <<request, admitted>>
  <2> DEFINE x == [hit[h] EXCEPT !.tries = @ + 1, !.seen = 0, !.etag = 0]
  <2>1. Becomes(h, "read", request[h], x)
    BY <1>3 DEF Goto, Becomes, FrontendInv, ThrottleTypes
  <2>2. x \in Hit /\ x.keys = hit[h].keys /\ x.denied = hit[h].denied
    <3>1. /\ hit[h] \in Hit /\ hit[h].tries + 1 \in 1..MaxRetries
          /\ 0 \in Nat
      BY <1>1, <1>3, HittingFacts, ThrottleAssumption
    <3>2. \A y \in Hit, t \in 1..MaxRetries, n \in Nat :
              /\ [y EXCEPT !.tries = t, !.seen = n, !.etag = n] \in Hit
              /\ [y EXCEPT !.tries = t, !.seen = n, !.etag = n].keys = y.keys
              /\ [y EXCEPT !.tries = t, !.seen = n, !.etag = n].denied = y.denied
      BY DEF Hit
    <3> QED
      BY <3>1, <3>2, Zenon
  <2> HIDE DEF x
  <2>3. HitOK("read", request[h], x)
    BY <1>1, <2>2, HittingFacts DEF HitOK
  <2>4. HandlerOK("read", request[h], x)
    BY <1>1, <2>2, <2>3, HittingFacts, ThrottleAssumption DEF HandlerOK, RequestOK, Steps
  <2>5. \A k \in Key : Pays("read", x, k) => h \in Owed(k)
    BY <1>1, <2>2 DEF Pays, Owed
  <2>6. Booked'
    BY <2>1, <2>5, QuietBooks
  <2>7. StoreGrown /\ IsCounters(admitted)' /\ Snapshot(etags', counters', "read", x)
    BY DEF Grown, IsCounters, FrontendInv, ThrottleTypes, Snapshot
  <2> QED
    BY <1>1, <2>1, <2>4, <2>6, <2>7, HitStepInv
<1> QED
  BY <1>2, <1>3 DEF RetryHit

-----------------------------------------------------------------------------
(* Steps that count                                                        *)

(* The number of those who owe a count changes with h only.                 *)
LEMMA OwedSteps ==
    ASSUME FrontendInv, NEW h \in Handlers, NEW p, NEW r, NEW x, Becomes(h, p, r, x), NEW k
    PROVE  /\ Cardinality(Owed(k)) \in Nat /\ Cardinality(Owed(k)') \in Nat
           /\ (h \in Owed(k) <=> Pays(p, x, k)) => Cardinality(Owed(k)') = Cardinality(Owed(k))
           /\ h \in Owed(k) /\ ~Pays(p, x, k)
                => Cardinality(Owed(k)') = Cardinality(Owed(k)) - 1
           /\ h \notin Owed(k) /\ Pays(p, x, k)
                => Cardinality(Owed(k)') = Cardinality(Owed(k)) + 1
<1>1. Owed(k) \subseteq Handlers /\ Owed(k)' \subseteq Handlers
  BY DEF Owed
<1>2. Owed(k) \ {h} = Owed(k)' \ {h} /\ (h \in Owed(k)' <=> Pays(p, x, k))
  BY SetSteps
<1>3. Cardinality(Owed(k)) \in Nat /\ Cardinality(Owed(k)') \in Nat
  BY <1>1, HandlerSets
<1> QED
  BY <1>1, <1>2, <1>3, OneHandler

(* Products of numbers, as the prover needs them.                           *)
LEMMA ProductIsNat == \A l, c \in Nat : l * c \in Nat /\ l * (c + 1) = l * c + l
OBVIOUS

(* A key is written at most its limit times for each of its creations.      *)
LEMMA WritesAreBounded ==
    ASSUME FrontendInv, NEW k \in Key, Counted(k)
    PROVE  Count(etags, k) <= Limit[k.kind] * Count(created, k)
<1>1. PICK l, c, e, n : /\ l = Limit[k.kind] /\ c = Count(created, k)
                        /\ e = Count(etags, k) /\ n = Count(counters, k)
  OBVIOUS
<1>2. l \in Nat /\ c \in Nat /\ e \in Nat /\ n \in Nat
  BY <1>1, CountsAreNumbers
<1>3. PICK m \in Nat : m = l * c
  BY <1>2, ProductIsNat
<1>4. n <= l /\ (e # 0 => e + l <= m + n)
  BY <1>1, <1>3 DEF Counted
<1>5. e <= m
  BY <1>2, <1>3, <1>4
<1> QED
  BY <1>1, <1>3, <1>5

(* A write that is accepted makes a new etag; a creation starts the count   *)
(* again, an update goes on from what is stored.                            *)
LEMMA CounterGrows ==
    ASSUME FrontendInv, NEW h \in Handlers, pc[h] = "count", EtagMatches(h), Incremented(h)
    PROVE  /\ IsCounters(counters') /\ IsCounters(etags') /\ IsCounters(created')
           /\ Count(etags', CurrentKey(h)) = Count(etags, CurrentKey(h)) + 1
           /\ \A k \in Key : k = CurrentKey(h) => Counted(k)'
           /\ \A k \in Key \ {CurrentKey(h)} : /\ Count(counters', k) = Count(counters, k)
                                               /\ Count(etags', k) = Count(etags, k)
                                               /\ Count(created', k) = Count(created, k)
<1>1. pc[h] \in Hitting
  BY DEF Hitting
<1>2. PICK k \in Key : k = CurrentKey(h)
  BY <1>1, HittingFacts
<1>3. PICK l, c, e, n : /\ l = Limit[k.kind] /\ c = Count(created, k)
                        /\ e = Count(etags, k) /\ n = Count(counters, k)
  OBVIOUS
<1>4. /\ l \in Nat /\ l >= 1 /\ c \in Nat /\ e \in Nat /\ n \in Nat
      /\ hit[h].seen \in Nat /\ hit[h].etag \in Nat /\ hit[h].seen < l
  BY <1>1, <1>2, <1>3, CountsAreNumbers, HittingFacts
<1>5. PICK d \in {0, 1} : d = IF hit[h].etag = 0 THEN 1 ELSE 0
  OBVIOUS
<1>6. /\ counters' = Put(counters, k, hit[h].seen + 1)
      /\ etags' = Put(etags, k, e + 1) /\ created' = Put(created, k, c + d)
  BY <1>2, <1>3, <1>5 DEF Incremented
<1>7. IsCounters(counters) /\ IsCounters(etags) /\ IsCounters(created)
  BY DEF FrontendInv, ThrottleTypes
<1>8. /\ IsCounters(counters') /\ Count(counters', k) = hit[h].seen + 1
      /\ \A i \in Key \ {k} : Count(counters', i) = Count(counters, i)
  BY <1>4, <1>6, <1>7, PutCounts
<1>9. /\ IsCounters(etags') /\ Count(etags', k) = e + 1
      /\ \A i \in Key \ {k} : Count(etags', i) = Count(etags, i)
  BY <1>4, <1>6, <1>7, PutCounts
<1>10. /\ IsCounters(created') /\ Count(created', k) = c + d
       /\ \A i \in Key \ {k} : Count(created', i) = Count(created, i)
  <2>1. c + d \in Nat
    BY <1>4
  <2> QED
    BY <1>6, <1>7, <2>1, PutCounts
<1>11. Fresh(etags, counters, hit[h], k) /\ Counted(k)
  BY <1>2 DEF FrontendInv, Snapshot, CurrentKey
<1>12. hit[h].etag = 0 \/ hit[h].etag = e
  BY <1>2, <1>3 DEF EtagMatches
<1>13. PICK m \in Nat : m = l * c
  BY <1>4, ProductIsNat
<1>14. n <= l /\ (e = 0 => n = 0) /\ (e # 0 => e + l <= m + n)
  BY <1>3, <1>11, <1>13 DEF Counted
<1>15. e + 1 + l <= l * (c + d) + hit[h].seen + 1
  <2>1. CASE hit[h].etag = 0
    <3>1. d = 1 /\ hit[h].seen = 0
      BY <1>5, <1>11, <2>1 DEF Fresh
    <3>2. l * (c + d) = m + l
      BY <1>4, <1>13, <3>1, ProductIsNat
    <3> QED
      BY <1>4, <1>13, <1>14, <3>1, <3>2
  <2>2. CASE hit[h].etag # 0
    <3>1. d = 0 /\ hit[h].seen = n /\ e # 0
      BY <1>3, <1>5, <1>11, <1>12, <2>2 DEF Fresh
    <3>2. l * (c + d) = m
      BY <1>4, <1>13, <3>1
    <3> QED
      BY <1>4, <1>13, <1>14, <3>1, <3>2
  <2> QED
    BY <2>1, <2>2
<1>16. Counted(k)'
  <2>1. hit[h].seen + 1 <= l /\ e + 1 # 0
    BY <1>4
  <2>2. /\ Count(counters, k)' = hit[h].seen + 1 /\ Count(etags, k)' = e + 1
        /\ Count(created, k)' = c + d
    BY <1>8, <1>9, <1>10 DEF Count
  <2>3. e + 1 + l <= l * (c + d) + (hit[h].seen + 1)
    <3>1. PICK q \in Nat : q = l * (c + d)
      BY <1>4, <1>5, ProductIsNat
    <3> QED
      BY <1>4, <1>15, <3>1
  <2> QED
    BY <1>3, <2>1, <2>2, <2>3 DEF Counted
<1>17. \A i \in Key : i = CurrentKey(h) => Counted(i)'
  BY <1>2, <1>16
<1> QED
  BY <1>2, <1>3, <1>8, <1>9, <1>10, <1>17

(* ... so the store only grows.                                             *)
LEMMA IncrementGrows ==
    ASSUME FrontendInv, NEW h \in Handlers, pc[h] = "count", EtagMatches(h), Incremented(h)
    PROVE  StoreGrown
<1>1. \A k \in Key \ {CurrentKey(h)} : Counted(k)'
  BY CounterGrows DEF FrontendInv, Counted, Count
<1>2. IsCounters(counters)' /\ IsCounters(etags)' /\ IsCounters(created)'
  BY CounterGrows DEF IsCounters
<1>3. \A k \in Key :
        \/ Count(etags, k)' = Count(etags, k) /\ Count(counters, k)' = Count(counters, k)
        \/ Count(etags, k)' = Count(etags, k) + 1
  BY CounterGrows DEF Count
<1>4. \A k \in Key : Counted(k)'
  BY <1>1, CounterGrows
<1> QED
  BY <1>2, <1>3, <1>4 DEF StoreGrown

(* Admission counts on every key the request was hit on, and on no other.   *)
LEMMA AdmittedCounts ==
    ASSUME FrontendInv, NEW h \in Handlers, pc[h] \in Hitting,
           admitted' = [k \in DOMAIN admitted \cup KeysOf(h) |->
               IF k \in KeysOf(h) THEN Count(admitted, k) + 1 ELSE admitted[k]]
    PROVE  /\ IsCounters(admitted')
           /\ \A k \in KeysOf(h) : Count(admitted', k) = Count(admitted, k) + 1
           /\ \A k \in Key \ KeysOf(h) : Count(admitted', k) = Count(admitted, k)
<1>1. KeysOf(h) \subseteq Key
  BY HittingFacts DEF KeysOf
<1>2. IsCounters(admitted)
  BY DEF FrontendInv, ThrottleTypes
<1>3. \A k \in KeysOf(h) : Count(admitted, k) + 1 \in Nat
  BY <1>2, CountIsNat
<1>4. IsCounters(admitted')
  BY <1>1, <1>2, <1>3 DEF IsCounters
<1> QED
  BY <1>4 DEF Count

(* The first of two limiters says yes: the request now owes that count.     *)
LEMMA FirstAllowed ==
    ASSUME FrontendInv, NEW h \in Handlers, pc[h] = "count", EtagMatches(h), Incremented(h),
           Len(hit[h].keys) = 1, admitted' = admitted,
           NEW p, NEW r, NEW x, Becomes(h, p, r, x),
           \A k : Pays(p, x, k) => k = CurrentKey(h)
    PROVE  Booked'
<1> SUFFICES ASSUME NEW k \in Key
             PROVE  Count(admitted', k) + Cardinality(Owed(k)') <= Count(etags', k)
  BY DEF Booked, Count
<1>1. /\ Count(admitted, k) \in Nat /\ Count(etags, k) \in Nat
      /\ Count(admitted, k) + Cardinality(Owed(k)) <= Count(etags, k)
      /\ Count(admitted', k) = Count(admitted, k)
  BY CountsAreNumbers DEF FrontendInv, Booked
<1>2. h \notin Owed(k)
  BY DEF Owed, Pays
<1>3. CASE k = CurrentKey(h)
  <2>1. /\ Cardinality(Owed(k)) \in Nat /\ Cardinality(Owed(k)') \in Nat
        /\ Cardinality(Owed(k)') <= Cardinality(Owed(k)) + 1
    BY <1>2, OwedSteps
  <2> QED
    BY <1>1, <1>3, <2>1, CounterGrows
<1>4. CASE k # CurrentKey(h)
  <2>1. Cardinality(Owed(k)) \in Nat /\ Cardinality(Owed(k)') = Cardinality(Owed(k))
    BY <1>2, <1>4, OwedSteps
  <2> QED
    BY <1>1, <1>4, <2>1, CounterGrows
<1> QED
  BY <1>3, <1>4

(* The last limiter says yes, too: what the request owed is now admitted.   *)
LEMMA LastAllowed ==
    ASSUME FrontendInv, NEW h \in Handlers, pc[h] = "count", EtagMatches(h), Incremented(h),
           Len(hit[h].keys) = Len(Hits(request[h])), ~hit[h].denied,
           admitted' = [k \in DOMAIN admitted \cup KeysOf(h) |->
               IF k \in KeysOf(h) THEN Count(admitted, k) + 1 ELSE admitted[k]],
           NEW p, NEW r, NEW x, Becomes(h, p, r, x), p \notin Hitting
    PROVE  Booked'
<1>1. pc[h] \in Hitting
  BY DEF Hitting
<1> SUFFICES ASSUME NEW k \in Key
             PROVE  Count(admitted', k) + Cardinality(Owed(k)') <= Count(etags', k)
  BY DEF Booked, Count
<1>2. /\ Count(admitted, k) \in Nat /\ Count(etags, k) \in Nat
      /\ Count(admitted, k) + Cardinality(Owed(k)) <= Count(etags, k)
  BY CountsAreNumbers DEF FrontendInv, Booked
<1>3. ~Pays(p, x, k)
  BY DEF Pays
<1>4. /\ Cardinality(Owed(k)) \in Nat /\ Cardinality(Owed(k)') \in Nat
      /\ Cardinality(Owed(k)') <= Cardinality(Owed(k))
      /\ h \in Owed(k) => Cardinality(Owed(k)') = Cardinality(Owed(k)) - 1
  BY <1>3, OwedSteps
<1>5. CASE k \notin KeysOf(h)
  <2>1. Count(admitted', k) = Count(admitted, k)
    BY <1>1, <1>5, AdmittedCounts
  <2>2. k # CurrentKey(h)
    BY <1>1, <1>5, HittingFacts DEF CurrentKey, KeysOf
  <2> QED
    BY <1>2, <1>4, <2>1, <2>2, CounterGrows
<1>6. CASE k = CurrentKey(h)
  <2>1. k \in KeysOf(h)
    BY <1>1, <1>6, HittingFacts DEF CurrentKey, KeysOf
  <2>2. Count(admitted', k) = Count(admitted, k) + 1
    BY <1>1, <2>1, AdmittedCounts
  <2> QED
    BY <1>2, <1>4, <1>6, <2>2, CounterGrows
<1>7. CASE k \in KeysOf(h) /\ k # CurrentKey(h)
  <2>1. Len(hit[h].keys) = 2 /\ k = hit[h].keys[1]
    BY <1>1, <1>7, HittingFacts DEF CurrentKey, KeysOf
  <2>2. h \in Owed(k)
    BY <1>1, <2>1 DEF Owed, Pays
  <2>3. Count(admitted', k) = Count(admitted, k) + 1
    BY <1>1, <1>7, AdmittedCounts
  <2> QED
    BY <1>2, <1>4, <1>7, <2>2, <2>3, CounterGrows
<1> QED
  BY <1>5, <1>6, <1>7

(* Only a login or a registration has a second limiter.                     *)
LEMMA TwoHits ==
    ASSUME FrontendInv, NEW h \in Handlers, pc[h] \in Hitting,
           Len(hit[h].keys) < Len(Hits(request[h]))
    PROVE  Len(hit[h].keys) = 1 /\ Len(Hits(request[h])) = 2
<1>1. Len(Hits(request[h])) \in 1..2
  BY HittingFacts
<1>2. Len(hit[h].keys) \in 1..Len(Hits(request[h]))
  BY HittingFacts
<1> DEFINE n == Len(hit[h].keys)
           m == Len(Hits(request[h]))
<1> HIDE DEF n, m
<1>3. m \in 1..2 /\ n \in 1..m /\ n < m
  BY <1>1, <1>2 DEF n, m
<1>4. n = 1 /\ m = 2
  BY <1>3
<1> QED
  BY <1>4 DEF n, m

(* The next hit of a request.                                               *)
LEMMA StartHitBecomes ==
    ASSUME FrontendInv, NEW h \in Handlers, pc[h] \in Hitting, NEW denied \in BOOLEAN,
           Len(hit[h].keys) < Len(Hits(request[h])),
           StartHit(h, request[h], hit[h].keys, denied), UNCHANGED request
    PROVE  /\ Len(hit[h].keys) = 1
           /\ \E x : /\ Becomes(h, "read", request[h], x) /\ HandlerOK("read", request[h], x)
                     /\ x.keys[1] = CurrentKey(h) /\ x.denied = denied
<1> DEFINE keys == NextKeys(request[h], hit[h].keys)
           x == [keys |-> keys, tries |-> 1, seen |-> 0, etag |-> 0, denied |-> denied]
<1>1. Len(hit[h].keys) = 1 /\ Len(Hits(request[h])) = 2
  BY TwoHits
<1>2. /\ keys \in Seq(Key) /\ Len(keys) = 2 /\ keys[1] = hit[h].keys[1]
      /\ \A i \in 1..2 : keys[i].kind = request[h].kind /\ keys[i].by = Hits(request[h])[i]
  <2>1. /\ request[h] \in Requests /\ request[h].kind \in Throttled /\ hit[h].keys \in Seq(Key)
        /\ \A i \in 1..Len(hit[h].keys) : /\ hit[h].keys[i].kind = request[h].kind
                                          /\ hit[h].keys[i].by = Hits(request[h])[i]
    BY HittingFacts
  <2>2. /\ keys \in Seq(Key) /\ Len(keys) = Len(hit[h].keys) + 1
        /\ \A i \in 1..Len(hit[h].keys) : keys[i] = hit[h].keys[i]
        /\ \A i \in 1..Len(hit[h].keys) + 1 : /\ keys[i].kind = request[h].kind
                                              /\ keys[i].by = Hits(request[h])[i]
    BY <2>1, NextKeysType
  <2> HIDE DEF keys
  <2> QED
    BY <1>1, <2>2
<1>3. Becomes(h, "read", request[h], x)
  BY DEF StartHit, Goto, NextKeys, Becomes, FrontendInv, ThrottleTypes
<1> HIDE DEF keys
<1>4. x \in Hit /\ x.keys = keys
  <2>1. 1 \in 1..MaxRetries /\ 0 \in Nat
    BY ThrottleAssumption
  <2> QED
    BY <1>2, <2>1 DEF Hit
<1>5. x.denied = denied
  BY Zenon
<1> HIDE DEF x
<1>6. HitOK("read", request[h], x)
  BY <1>1, <1>2, <1>4, HittingFacts, StartedOK
<1>7. HandlerOK("read", request[h], x)
  BY <1>4, <1>6, HittingFacts, ThrottleAssumption DEF HandlerOK, RequestOK, Steps
<1>8. x.keys[1] = CurrentKey(h)
  BY <1>1, <1>2, <1>4 DEF CurrentKey
<1> QED
  BY <1>1, <1>3, <1>5, <1>7, <1>8, Zenon

(* A request that was refused is answered with 429.                         *)
LEMMA LeaveInv ==
    ASSUME FrontendInv, NEW h \in Handlers, pc[h] \in Hitting, Leave(h), Grown,
           Fault \/ UNCHANGED faults,
           UNCHANGED <<window, accounts, services, requests, crashes, lookup>>
    PROVE  FrontendInv'
<1>1. Booked'
  BY LeaveBecomes, QuietBooks
<1>2. StoreGrown /\ IsCounters(admitted)' /\ Snapshot(etags', counters', "idle", NoHit)
  BY DEF Grown, IsCounters, FrontendInv, ThrottleTypes, Snapshot
<1> QED
  BY <1>1, <1>2, LeaveBecomes, HitStepInv

(* A limiter says no, and no counter moves.                                 *)
LEMMA DeniedInv ==
    ASSUME FrontendInv, NEW h \in Handlers, pc[h] \in Hitting, HitReturns(h, FALSE),
           UNCHANGED <<counters, etags, created, faults>>,
           UNCHANGED <<window, accounts, services, requests, crashes, lookup>>
    PROVE  FrontendInv'
<1>1. CASE Len(hit[h].keys) < Len(Hits(request[h]))
  <2>1. /\ StartHit(h, request[h], hit[h].keys, TRUE) /\ UNCHANGED <<request, admitted>>
    BY <1>1 DEF HitReturns
  <2>2. PICK x : /\ Becomes(h, "read", request[h], x) /\ HandlerOK("read", request[h], x)
                 /\ x.denied = TRUE
    BY <1>1, <2>1, StartHitBecomes, Zenon
  <2>3. Grown /\ StoreGrown /\ IsCounters(admitted)' /\ Snapshot(etags', counters', "read", x)
    BY <2>1, SameCounters DEF Snapshot, counts
  <2>4. \A k \in Key : ~Pays("read", x, k)
    BY <2>2, Zenon DEF Pays
  <2>5. Booked'
    BY <2>2, <2>3, <2>4, QuietBooks
  <2> QED
    BY <2>2, <2>3, <2>5, HitStepInv
<1>2. CASE ~(Len(hit[h].keys) < Len(Hits(request[h])))
  <2>1. Leave(h) /\ UNCHANGED admitted
    BY <1>2 DEF HitReturns, Refused
  <2>2. Grown
    BY <2>1, SameCounters DEF counts
  <2> QED
    BY <2>1, <2>2, LeaveInv
<1> QED
  BY <1>1, <1>2

(* A limiter says yes and has counted the request.                          *)
LEMMA AllowedInv ==
    ASSUME FrontendInv, NEW h \in Handlers, pc[h] = "count", EtagMatches(h), Incremented(h),
           HitReturns(h, TRUE), UNCHANGED faults,
           UNCHANGED <<window, accounts, services, requests, crashes, lookup>>
    PROVE  FrontendInv'
<1>1. pc[h] \in Hitting
  BY DEF Hitting
<1>2. StoreGrown
  BY IncrementGrows
<1>3. CASE Len(hit[h].keys) < Len(Hits(request[h]))
  <2>1. /\ StartHit(h, request[h], hit[h].keys, FALSE) /\ UNCHANGED <<request, admitted>>
    BY <1>3 DEF HitReturns
  <2>2. Len(hit[h].keys) = 1
    BY <1>1, <1>3, TwoHits
  <2>3. PICK x : /\ Becomes(h, "read", request[h], x) /\ HandlerOK("read", request[h], x)
                 /\ x.keys[1] = CurrentKey(h)
    BY <1>1, <1>3, <2>1, StartHitBecomes, Zenon
  <2>4. \A k : Pays("read", x, k) => k = CurrentKey(h)
    BY <2>3 DEF Pays
  <2>5. Booked'
    BY <2>1, <2>2, <2>3, <2>4, FirstAllowed
  <2>6. IsCounters(admitted)' /\ Snapshot(etags', counters', "read", x)
    BY <2>1 DEF IsCounters, FrontendInv, ThrottleTypes, Snapshot
  <2> QED
    BY <1>1, <1>2, <2>3, <2>5, <2>6, HitStepInv
<1>4. CASE ~(Len(hit[h].keys) < Len(Hits(request[h]))) /\ Refused(h, TRUE)
  <2>1. Leave(h) /\ UNCHANGED admitted
    BY <1>4 DEF HitReturns
  <2> QED
    BY <1>1, <1>2, <2>1, LeaveInv DEF Grown
<1>5. CASE ~(Len(hit[h].keys) < Len(Hits(request[h]))) /\ ~Refused(h, TRUE)
  <2>1. /\ Proceed(h)
        /\ admitted' = [k \in DOMAIN admitted \cup KeysOf(h) |->
               IF k \in KeysOf(h) THEN Count(admitted, k) + 1 ELSE admitted[k]]
    BY <1>5 DEF HitReturns
  <2>2. Len(hit[h].keys) = Len(Hits(request[h])) /\ ~hit[h].denied
    BY <1>1, <1>5, HittingFacts DEF Refused
  <2>3. PICK p, r, x : Becomes(h, p, r, x) /\ HandlerOK(p, r, x) /\ p # "calling" /\ p \notin Hitting
    BY <1>1, <2>1, ProceedBecomes
  <2>4. Booked'
    BY <2>1, <2>2, <2>3, LastAllowed
  <2>5. IsCounters(admitted)' /\ Snapshot(etags', counters', p, x)
    BY <1>1, <2>1, <2>3, AdmittedCounts DEF IsCounters, Snapshot, Hitting
  <2> QED
    BY <1>1, <1>2, <2>3, <2>4, <2>5, HitStepInv
<1> QED
  BY <1>3, <1>4, <1>5

(* hit() reads the counter: over the limit, below it, or unreadable.        *)
LEMMA ReadCounterInv ==
    ASSUME FrontendInv, NEW h \in Handlers, ReadCounter(h),
           UNCHANGED <<accounts, services, requests, crashes, lookup>>
    PROVE  FrontendInv'
<1> DEFINE current == Count(counters, CurrentKey(h))
           version == Count(etags, CurrentKey(h))
<1>1. pc[h] \in Hitting /\ UNCHANGED <<window, counters, etags, created>>
  BY DEF ReadCounter, Hitting
<1>2. CASE HitReturns(h, FALSE) /\ UNCHANGED faults
  BY <1>1, <1>2, DeniedInv
<1>3. CASE /\ ~OverLimit(h, current) /\ Goto(h, "count")
           /\ hit' = [hit EXCEPT ![h].seen = current, ![h].etag = version]
           /\ UNCHANGED <<request, admitted, faults>>
  <2> DEFINE x == [hit[h] EXCEPT !.seen = current, !.etag = version]
  <2>1. Becomes(h, "count", request[h], x)
    BY <1>3 DEF Goto, Becomes, FrontendInv, ThrottleTypes
  <2>2. current \in Nat /\ version \in Nat /\ current < Limit[request[h].kind]
    <3>1. current \in Nat /\ version \in Nat
      BY CountIsNat DEF FrontendInv, ThrottleTypes
    <3>2. Limit[request[h].kind] \in Nat
      BY <1>1, HittingFacts, LimitsAreNumbers
    <3> QED
      BY <1>3, <3>1, <3>2 DEF OverLimit
  <2>9. CurrentKey(h) \in Key /\ Counted(CurrentKey(h))
    BY <1>1, HittingFacts DEF FrontendInv
  <2>10. version = 0 => current = 0
    BY <2>9 DEF Counted
  <2>11. version = Count(etags', CurrentKey(h)) /\ current = Count(counters', CurrentKey(h))
    BY <1>1
  <2>3. /\ x \in Hit /\ x.keys = hit[h].keys /\ x.denied = hit[h].denied
        /\ x.seen = current /\ x.etag = version
    <3>1. PICK y \in Hit, n \in Nat, v \in Nat : y = hit[h] /\ n = current /\ v = version
      BY <1>1, <2>2, HittingFacts
    <3>2. /\ [y EXCEPT !.seen = n, !.etag = v] \in Hit
          /\ [y EXCEPT !.seen = n, !.etag = v].seen = n
          /\ [y EXCEPT !.seen = n, !.etag = v].etag = v
          /\ [y EXCEPT !.seen = n, !.etag = v].keys = y.keys
          /\ [y EXCEPT !.seen = n, !.etag = v].denied = y.denied
      BY DEF Hit
    <3> QED
      BY <3>1, <3>2
  <2> HIDE DEF current, version
  <2> HIDE DEF x
  <2>12. Snapshot(etags', counters', "count", x)
    <3>1. x.keys[Len(x.keys)] = CurrentKey(h)
      BY <2>3 DEF CurrentKey
    <3> QED
      BY <2>2, <2>3, <2>10, <2>11, <3>1 DEF Snapshot, Fresh
  <2>4. HitOK("count", request[h], x)
    BY <1>1, <2>2, <2>3, HittingFacts DEF HitOK
  <2>5. HandlerOK("count", request[h], x)
    BY <1>1, <2>3, <2>4, HittingFacts, ThrottleAssumption DEF HandlerOK, RequestOK, Steps
  <2>6. \A k \in Key : Pays("count", x, k) => h \in Owed(k)
    BY <1>1, <2>3 DEF Pays, Owed
  <2>7. Grown /\ StoreGrown /\ IsCounters(admitted)'
    BY <1>1, <1>3, SameCounters DEF counts
  <2>8. Booked'
    BY <2>1, <2>6, <2>7, QuietBooks
  <2> QED
    BY <1>1, <1>3, <2>1, <2>5, <2>7, <2>8, <2>12, HitStepInv
<1>4. CASE Fault /\ FailOpen(h)
  <2>1. Grown
    BY <1>1, <1>4, SameCounters DEF FailOpen, counts
  <2> QED
    BY <1>1, <1>4, <2>1, FailOpenInv
<1> QED
  BY <1>2, <1>3, <1>4 DEF ReadCounter

(* hit() writes the counter: counted, stale, lost, or counted unnoticed.    *)
LEMMA WriteCounterInv ==
    ASSUME FrontendInv, NEW h \in Handlers, WriteCounter(h),
           UNCHANGED <<accounts, services, requests, crashes, lookup>>
    PROVE  FrontendInv'
<1>1. pc[h] = "count" /\ UNCHANGED window
  BY DEF WriteCounter
<1>2. CASE EtagMatches(h) /\ Incremented(h) /\ HitReturns(h, TRUE) /\ UNCHANGED faults
  BY <1>1, <1>2, AllowedInv
<1>3. ASSUME RetryHit(h) PROVE UNCHANGED admitted
  BY <1>3 DEF RetryHit, FailOpen
<1>4. CASE EtagMatches(h) /\ Incremented(h) /\ Fault /\ RetryHit(h)
  BY <1>1, <1>3, <1>4, IncrementGrows, RetryHitInv DEF Grown
<1>5. CASE UNCHANGED <<counters, etags, created>> /\ (Fault \/ UNCHANGED faults) /\ RetryHit(h)
  BY <1>1, <1>3, <1>5, SameCounters, RetryHitInv DEF counts
<1> QED
  BY <1>2, <1>4, <1>5 DEF WriteCounter

-----------------------------------------------------------------------------
(* Steps of no handler                                                     *)

(* A step that leaves handlers, counters and lookups alone, and Auth alone  *)
(* while it serves.                                                         *)
LEMMA QuietInv ==
    ASSUME FrontendInv, UNCHANGED <<counts, handlers, lookup>>, AccountTypes',
           window' \in 0..MaxWindow, faults' \in 0..MaxFaults,
           phase["auth"] = "serving" => phase'["auth"] = "serving"
    PROVE  FrontendInv'
<1>1. pc' = pc /\ request' = request /\ hit' = hit
  BY DEF handlers
<1>2. Grown /\ StoreGrown /\ IsCounters(admitted)'
  BY SameCounters
<1>3. ThrottleTypes'
  BY <1>1, <1>2 DEF FrontendInv, ThrottleTypes, StoreGrown
<1>4. Calling' = Calling /\ \A k \in Key : Owed(k)' = Owed(k)
  BY <1>1 DEF Calling, Owed
<1>5. LookupTypes'
  <2>1. slots' = slots /\ slots \in Nat /\ slots + Cardinality(Calling) = MaxConcurrency
    BY DEF FrontendInv, LookupTypes, lookup
  <2>2. lookups' \in 0..MaxLookups /\ hidden' \in BOOLEAN
    BY SameLookup, Zenon
  <2> QED
    BY <1>4, <2>1, <2>2, Zenon DEF LookupTypes
<1>6. \A h \in Handlers : HandlerOK(pc[h], request[h], hit[h])'
  BY <1>1 DEF FrontendInv, HandlerOK, RequestOK, HitOK
<1>7. Booked'
  BY <1>2, <1>4, BookedSteps
<1>8. counters' = counters /\ etags' = etags
  BY DEF counts
<1>9. \A h \in Handlers : Snapshot(etags, counters, pc[h], hit[h])'
  BY <1>1, <1>8 DEF FrontendInv, Snapshot, Fresh, Count
<1>10. \A k \in Key : Counted(k)'
  BY <1>2 DEF StoreGrown
<1> QED
  BY <1>3, <1>5, <1>6, <1>7, <1>9, <1>10, Zenon DEF FrontendInv

(* The next window begins.                                                  *)
LEMMA TickInv ==
    ASSUME FrontendInv, Tick, UNCHANGED <<accounts, services, requests, crashes, lookup>>
    PROVE  FrontendInv'
<1>1. AccountTypes'
  BY SameAccounts
<1>2. window' \in 0..MaxWindow /\ faults' \in 0..MaxFaults
  BY ThrottleAssumption DEF Tick, FrontendInv, ThrottleTypes
<1>3. UNCHANGED <<counts, handlers, lookup>> /\ phase' = phase
  BY DEF Tick, services
<1> QED
  BY <1>1, <1>2, <1>3, QuietInv

(* Auth seeds the demo users at its start.                                  *)
LEMMA SeedInv ==
    ASSUME FrontendInv, Seed, UNCHANGED <<lookup, window, counts, handlers>>
    PROVE  FrontendInv'
<1>1. phase["auth"] = "down" /\ phase \in [Services -> {"down", "starting", "serving"}]
  BY DEF Seed, FrontendInv, AccountTypes
<1>2. phase' \in [Services -> {"down", "starting", "serving"}] /\ phase'["auth"] # "serving"
  BY <1>1 DEF Seed, Services
<1>3. users' \in [Emails -> User \cup {NoUser}]
  <2>1. users \in [Emails -> User \cup {NoUser}]
    BY DEF FrontendInv, AccountTypes
  <2>2. ASSUME NEW written \in SUBSET DOMAIN DemoUsers, Seeded(written)
        PROVE  users' \in [Emails -> User \cup {NoUser}]
    <3>1. PICK salts \in [written -> Salts] :
              users' = [e \in Emails |-> IF e \in written THEN DemoUser(e, salts[e]) ELSE users[e]]
      BY <2>2 DEF Seeded
    <3>2. \A e \in written : DemoUser(e, salts[e]) \in User
      BY NewUserType, AccountsAssumption DEF DemoUser
    <3> QED
      BY <2>1, <3>1, <3>2
  <2> QED
    BY <2>1, <2>2 DEF Seed
<1>4. AccountTypes'
  BY <1>2, <1>3 DEF Seed, FrontendInv, AccountTypes
<1>5. faults' \in 0..MaxFaults
  BY FaultIsCounted DEF Seed
<1>6. window' \in 0..MaxWindow
  BY DEF FrontendInv, ThrottleTypes
<1> QED
  BY <1>1, <1>4, <1>5, <1>6, QuietInv

(* A service resolves its secret and starts to serve.                       *)
LEMMA ServeInv ==
    ASSUME FrontendInv, NEW value \in {DaprSecret, NoSecret}, ServeAuth(value) \/ ServeApi(value),
           UNCHANGED <<lookup, window, counts, handlers>>
    PROVE  FrontendInv'
<1>1. PICK s \in Services : Serve(s, value)
  BY DEF ServeAuth, ServeApi, Services
<1>2. phase' = [phase EXCEPT ![s] = "serving"] /\ UNCHANGED <<accounts, requests, crashes>>
  BY <1>1 DEF Serve
<1>3. /\ phase \in [Services -> {"down", "starting", "serving"}]
      /\ secret \in [Services -> {EnvSecret, DaprSecret, NoSecret}]
      /\ phase["auth"] = "serving" => secret["auth"] \in {EnvSecret, DaprSecret}
  BY DEF FrontendInv, AccountTypes
<1>4. /\ phase' \in [Services -> {"down", "starting", "serving"}]
      /\ phase["auth"] = "serving" => phase'["auth"] = "serving"
  BY <1>2, <1>3 DEF Services
<1>5. /\ secret' \in [Services -> {EnvSecret, DaprSecret, NoSecret}]
      /\ phase'["auth"] = "serving" => secret'["auth"] \in {EnvSecret, DaprSecret}
  <2>1. CASE ServeAuth(value)
    BY <2>1, <1>3, AccountsAssumption DEF ServeAuth, AuthSecret, Services
  <2>2. CASE ServeApi(value)
    <3>1. phase' = [phase EXCEPT !["api"] = "serving"]
      BY <2>2 DEF ServeApi, Serve
    <3> QED
      BY <2>2, <3>1, <1>3, AccountsAssumption DEF ServeApi, ResolveJwtSecret, Services
  <2> QED
    BY <2>1, <2>2
<1>6. AccountTypes'
  BY <1>2, <1>4, <1>5 DEF FrontendInv, AccountTypes, accounts
<1>7. faults' \in 0..MaxFaults
  BY <1>1, FaultIsCounted DEF Serve, LoadJwtSecret
<1>8. window' \in 0..MaxWindow
  BY DEF FrontendInv, ThrottleTypes
<1> QED
  BY <1>4, <1>6, <1>7, <1>8, QuietInv

(* A process is lost with its requests and its slots.                       *)
LEMMA RestartInv ==
    ASSUME FrontendInv, NEW s \in Services, Restart(s)
    PROVE  FrontendInv'
<1> DEFINE lost == {h \in Handlers : request[h] # NoRequest /\ Serving(request[h]) = s}
<1>1. /\ pc' = [h \in Handlers |-> IF h \in lost THEN "idle" ELSE pc[h]]
      /\ request' = [h \in Handlers |-> IF h \in lost THEN NoRequest ELSE request[h]]
      /\ hit' = [h \in Handlers |-> IF h \in lost THEN NoHit ELSE hit[h]]
  BY DEF Restart, Crash
<1>2. UNCHANGED <<accounts, requests, window, counts, faults>>
  BY DEF Restart, Crash
<1>3. NoHit \in Hit
  BY ThrottleAssumption DEF NoHit, Hit
<1>4. Grown /\ StoreGrown /\ IsCounters(admitted)'
  BY <1>2, SameCounters
<1>5. ThrottleTypes'
  BY <1>1, <1>2, <1>4 DEF FrontendInv, ThrottleTypes, StoreGrown
<1>6. AccountTypes'
  <2>1. crashes' \in 0..MaxCrashes
    BY AccountsAssumption DEF Restart, Crash, FrontendInv, AccountTypes
  <2>2. /\ phase' = [phase EXCEPT ![s] = "down"] /\ secret' = [secret EXCEPT ![s] = NoSecret]
    BY DEF Restart, Crash
  <2>3. /\ phase \in [Services -> {"down", "starting", "serving"}]
        /\ secret \in [Services -> {EnvSecret, DaprSecret, NoSecret}]
        /\ phase["auth"] = "serving" => secret["auth"] \in {EnvSecret, DaprSecret}
    BY DEF FrontendInv, AccountTypes
  <2>4. /\ phase' \in [Services -> {"down", "starting", "serving"}]
        /\ secret' \in [Services -> {EnvSecret, DaprSecret, NoSecret}]
        /\ phase'["auth"] = "serving" => secret'["auth"] \in {EnvSecret, DaprSecret}
    BY <2>2, <2>3 DEF Services
  <2> QED
    BY <1>2, <2>1, <2>4 DEF FrontendInv, AccountTypes, accounts
<1>7. \A h \in Handlers : HandlerOK(pc[h], request[h], hit[h])'
  <2> SUFFICES ASSUME NEW h \in Handlers PROVE HandlerOK(pc[h], request[h], hit[h])'
    OBVIOUS
  <2>1. HandlerOK(pc[h], request[h], hit[h])
    BY DEF FrontendInv
  <2>2. CASE h \in lost
    BY <1>1, <1>3, <2>2 DEF HandlerOK, HitOK, RequestOK, Hitting, Steps
  <2>3. CASE h \notin lost
    <3>1. pc'[h] = pc[h] /\ request'[h] = request[h] /\ hit'[h] = hit[h]
      BY <1>1, <2>3
    <3>2. RequestOK(pc[h], request[h])'
      <4>1. ASSUME pc[h] # "idle", AtAuth(request[h])
            PROVE  phase'["auth"] = "serving"
        <5>1. request[h] # NoRequest /\ phase["auth"] = "serving"
          BY <2>1, <4>1 DEF HandlerOK, RequestOK
        <5>2. s # "auth"
          BY <2>3, <4>1, <5>1 DEF Serving, AtAuth
        <5> QED
          BY <5>1, <5>2 DEF Restart, Crash, FrontendInv, AccountTypes, Services
      <4> QED
        BY <2>1, <3>1, <4>1 DEF HandlerOK, RequestOK
    <3> QED
      BY <2>1, <3>1, <3>2 DEF HandlerOK, HitOK
  <2> QED
    BY <2>2, <2>3
<1>8. LookupTypes'
  <2>1. slots \in Nat /\ slots + Cardinality(Calling) = MaxConcurrency
    BY DEF FrontendInv, LookupTypes
  <2>2. lookups' \in 0..MaxLookups /\ hidden' \in BOOLEAN
    BY LookupFacts, Zenon DEF Restart
  <2>3. \A h \in Calling : request[h] # NoRequest /\ Serving(request[h]) = "api"
    BY LookupFacts DEF Calling, HandlerOK, RequestOK, Serving
  <2>4. CASE s = "api"
    <3>1. Calling' = {}
      BY <1>1, <2>3, <2>4 DEF Calling
    <3>2. slots' = MaxConcurrency
      BY <2>4 DEF Restart
    <3>3. slots' \in Nat /\ slots' + Cardinality(Calling') = MaxConcurrency
      BY <3>1, <3>2, FS_EmptySet, LookupAssumption
    <3> QED
      BY <2>2, <3>3, Zenon DEF LookupTypes
  <2>5. CASE s # "api"
    <3>1. Calling' = Calling
      BY <1>1, <2>3, <2>5 DEF Calling
    <3>2. slots' = slots
      BY <2>5 DEF Restart
    <3> QED
      BY <2>1, <2>2, <3>1, <3>2, Zenon DEF LookupTypes
  <2> QED
    BY <2>4, <2>5
<1>9. Booked'
  <2>1. \A k \in Key : Owed(k)' \subseteq Owed(k)
    BY <1>1 DEF Owed, Pays, Hitting
  <2> QED
    BY <1>4, <2>1, BookedSteps
<1>10. \A h \in Handlers : Snapshot(etags, counters, pc[h], hit[h])'
  <2>1. counters' = counters /\ etags' = etags
    BY <1>2 DEF counts
  <2>2. \A h \in Handlers : pc'[h] = "count" => pc[h] = "count" /\ hit'[h] = hit[h]
    BY <1>1
  <2> QED
    BY <2>1, <2>2 DEF FrontendInv, Snapshot, Fresh, Count
<1>11. \A k \in Key : Counted(k)'
  BY <1>4 DEF StoreGrown
<1> QED
  BY <1>5, <1>6, <1>7, <1>8, <1>9, <1>10, <1>11, Zenon DEF FrontendInv

-----------------------------------------------------------------------------
(* Every step keeps the invariant, whichever request, service or clock      *)
(* makes it.                                                                *)
LEMMA InvNext == FrontendInv /\ [Next]_vars => FrontendInv'
<1> SUFFICES ASSUME FrontendInv, [Next]_vars PROVE FrontendInv'
  OBVIOUS
<1>1. CASE UNCHANGED vars
  <2>1. /\ UNCHANGED <<counts, handlers, lookup>> /\ window' = window
        /\ faults' = faults /\ UNCHANGED <<accounts, services, requests, crashes>>
    BY <1>1 DEF vars, throttle
  <2>2. AccountTypes'
    BY <2>1, SameAccounts
  <2>3. phase' = phase /\ window' \in 0..MaxWindow /\ faults' \in 0..MaxFaults
    BY <2>1 DEF FrontendInv, ThrottleTypes, services
  <2> QED
    BY <2>1, <2>2, <2>3, QuietInv
<1>2. CASE Startup /\ UNCHANGED <<lookup, window, counts, handlers>>
  BY <1>2, SeedInv, ServeInv DEF Startup
<1>3. CASE Tick /\ UNCHANGED <<accounts, services, requests, crashes, lookup>>
  BY <1>3, TickInv
<1>4. CASE \E s \in Services : Restart(s)
  BY <1>4, RestartInv
<1>5. ASSUME NEW h \in Handlers, Arrival(h) \/ ThrottleStep(h) \/ AccountStep(h), UNCHANGED lookup
      PROVE  FrontendInv'
  <2>1. CASE Arrival(h)
    BY <1>5, <2>1, ArrivalInv
  <2>2. CASE ThrottleStep(h)
    BY <1>5, <2>2, ReadCounterInv, WriteCounterInv DEF ThrottleStep
  <2>3. CASE AccountStep(h)
    BY <1>5, <2>3, CheckEmailInv, SaveUserInv, CheckPasswordInv DEF AccountStep
  <2> QED
    BY <1>5, <2>1, <2>2, <2>3
<1>6. ASSUME NEW h \in Handlers, NEW token \in tokens, NEW ip \in Addresses, Ask(h, token, ip)
      PROVE  FrontendInv'
  BY <1>6, AskInv
<1>7. ASSUME NEW h \in Handlers,
             ReadSubmission(h) \/ Acquire(h) \/ Reply(h) \/ CallFails(h) \/ Timeout(h)
      PROVE  FrontendInv'
  BY <1>7, ReadSubmissionInv, AcquireInv, LookupEndsInv
<1> QED
  BY <1>1, <1>2, <1>3, <1>4, <1>5, <1>6, <1>7 DEF Next

(* The invariant holds throughout.                                          *)
LEMMA InvAlways == Spec => []FrontendInv
BY InvInit, InvNext, PTL DEF Spec

(* Every variable keeps its range, a handler serves a request exactly while *)
(* it stands at a step of it, and the bulkhead of the status lookup neither *)
(* leaks a slot nor lends one twice, whatever crashes or times out.         *)
THEOREM TypeCorrect == Spec => []TypeOK
<1>1. FrontendInv => TypeOK
  <2> SUFFICES ASSUME FrontendInv PROVE TypeOK
    OBVIOUS
  <2>1. /\ pc \in [Handlers -> Steps]
        /\ request \in [Handlers -> Requests \cup {NoRequest}]
        /\ hit \in [Handlers -> Hit]
        /\ \A h \in Handlers : (pc[h] = "idle") <=> (request[h] = NoRequest)
    BY DEF FrontendInv, ThrottleTypes, HandlerOK
  <2>2. /\ window \in 0..MaxWindow /\ faults \in 0..MaxFaults
        /\ \A f \in {counters, etags, created, admitted} :
              DOMAIN f \subseteq Key /\ \A k \in DOMAIN f : f[k] \in Nat
    BY DEF FrontendInv, ThrottleTypes, IsCounters
  <2>3. AccountTypes /\ LookupTypes
    BY DEF FrontendInv
  <2> QED
    BY <2>1, <2>2, <2>3, Zenon DEF TypeOK, AccountTypes, LookupTypes, Calling
<1> QED
  BY <1>1, InvAlways, PTL

(* However many requests race for a counter, and whatever fails, is retried *)
(* or restarts, no identity gets more than its limit through a window for   *)
(* each first hit that was stored.  Requests that a RateLimiterError let    *)
(* through, because the store failed or contention used up the attempts,    *)
(* are not counted (rate_limiter.py, hit(); rate_limit.py, _throttle()).    *)
THEOREM LimitAlwaysHolds == Spec => []LimitHolds
<1>1. FrontendInv => LimitHolds
  <2> SUFFICES ASSUME FrontendInv, NEW k \in DOMAIN admitted
               PROVE  admitted[k] <= Limit[k.kind] * Count(created, k)
    BY DEF LimitHolds
  <2>1. k \in Key /\ admitted[k] = Count(admitted, k)
    BY DEF FrontendInv, ThrottleTypes, IsCounters, Count
  <2>2. Cardinality(Owed(k)) \in Nat
    <3>1. Owed(k) \subseteq Handlers
      BY DEF Owed
    <3> QED
      BY <3>1, HandlerSets
  <2>3. Count(admitted, k) + Cardinality(Owed(k)) <= Count(etags, k) /\ Counted(k)
    BY <2>1 DEF FrontendInv, Booked
  <2>4. Count(etags, k) <= Limit[k.kind] * Count(created, k)
    BY <2>1, <2>3, WritesAreBounded
  <2>5. Limit[k.kind] * Count(created, k) \in Nat
    BY <2>1, CountsAreNumbers, ProductIsNat
  <2> QED
    BY <2>1, <2>2, <2>3, <2>4, <2>5, CountsAreNumbers
<1> QED
  BY <1>1, InvAlways, PTL
=============================================================================
