---------------------------- MODULE PaymentSaga ----------------------------
(***************************************************************************)
(* The Payment service: a saga that reserves a department's budget, charges *)
(* the gateway and either records the payment or releases the reservation   *)
(* (src/services/payment).  Handlers are the coroutines the service runs,   *)
(* one per delivery of a pub/sub event; they interleave at every await.     *)
(*                                                                          *)
(* Durable state is Dapr state: payment:{tracking_id} (payments) and        *)
(* budget:{department} (remaining and etag, etag 0 meaning the key is       *)
(* absent).  A process crash loses the handlers and the gateway's cache.    *)
(*                                                                          *)
(* The record's write is one transaction with payment:index, conditional on *)
(* the index's etag: saves of different payments make each other fail.  Of  *)
(* the index only its version is kept; its contents serve list_all() alone. *)
(***************************************************************************)
EXTENDS Integers, FiniteSets, Functions

CONSTANTS
    TrackingIds,  \* tracking ids (decision.correlation_id)
    Departments,  \* department names invoices may carry
    Configured,   \* those of policy/budgets.json
    Handlers,     \* coroutines that may be in flight at once
    Events,       \* events the two subscriptions may receive
    NoEvent,      \* what an idle handler handles
    Dept,         \* invoice.department of a tracking id
    Amount,       \* invoice.total of a tracking id
    Total,        \* the seed total of a configured department
    MaxRetries,   \* _MAX_RETRIES
    MaxFaults,    \* bound: failed Dapr calls
    MaxCrashes,   \* bound: process crashes
    MaxOverlaps   \* bound: deliveries while the tracking id is in flight

Topics == {"decision.completed", "approval.completed"}
Verdicts == {"auto_approve", "human_review", "reject", "duplicate",
             "approved", "rejected"}

ASSUME EventsAssumption ==
    /\ Events \subseteq [tid: TrackingIds, topic: Topics, verdict: Verdicts]
    /\ NoEvent \notin Events

ASSUME BudgetAssumption ==
    /\ IsFiniteSet(TrackingIds)
    /\ Configured \subseteq Departments
    /\ Dept \in [TrackingIds -> Departments]
    /\ Amount \in [TrackingIds -> Nat]
    /\ Total \in [Departments -> Nat]

ASSUME BoundsAssumption ==
    /\ MaxRetries \in Nat \ {0}
    /\ MaxFaults \in Nat /\ MaxCrashes \in Nat /\ MaxOverlaps \in Nat

VARIABLES
    payments,   \* payment:{tracking_id}, status "none" when absent
    remaining,  \* budget:{department}.remaining
    etag,       \* its version, 0 when the key is absent
    tag,        \* how the etag of payment:index a save() read stands now
    results,    \* keys of the gateway's in-memory _results
    executed,   \* how often a charge was really evaluated per key
    declined,   \* invoices in PAYMENT_SIMULATE_FAILURE_IDS
    published,  \* payment.completed events sent
    acked,      \* events answered with 200
    unseeded,   \* departments lifespan has still to seed; {} when serving
    pc, job, draft, seen, tries,    \* the handlers' local state
    debits, credits,                \* history: committed reserves, releases
    gaveUp,                         \* history: some save() ran out of attempts
    faults, crashes, overlaps       \* what the bounds count

store   == <<payments, remaining, etag, tag>>
gateway == <<results, executed>>
local   == <<pc, job, draft, seen, tries>>
history == <<debits, credits, gaveUp>>
env     == <<declined, crashes, overlaps>>
vars == <<store, gateway, local, history, env, published, acked, unseeded, faults>>

Statuses == {"none", "reserved", "completed", "failed"}
Terminal == {"completed", "failed"}
NoRecord == [status |-> "none", reserved |-> 0]
NoBudget == [remaining |-> 0, etag |-> 0]
Tags == {"unread", "absent", "current", "stale"}
Steps == {"idle", "reserve_read", "reserve_write", "save", "charge",
          "release_read", "release_write", "publish"}

Tid(h) == job[h].tid
InFlight(t) == \E h \in Handlers : job[h] # NoEvent /\ Tid(h) = t
Serving == unseeded = {}

Init ==
    /\ payments = [t \in TrackingIds |-> NoRecord]
    /\ remaining = [d \in Departments |-> 0]
    /\ etag = [d \in Departments |-> 0]
    /\ tag = [h \in Handlers |-> "unread"]
    /\ results = {}
    /\ executed = [t \in TrackingIds |-> 0]
    /\ declined \in SUBSET TrackingIds
    /\ published = {}
    /\ acked = {}
    /\ unseeded = Configured
    /\ pc = [h \in Handlers |-> "idle"]
    /\ job = [h \in Handlers |-> NoEvent]
    /\ draft = [h \in Handlers |-> NoRecord]
    /\ seen = [h \in Handlers |-> NoBudget]
    /\ tries = [h \in Handlers |-> 1]
    /\ debits = [t \in TrackingIds |-> 0]
    /\ credits = [t \in TrackingIds |-> 0]
    /\ gaveUp = FALSE
    /\ faults = 0 /\ crashes = 0 /\ overlaps = 0

-----------------------------------------------------------------------------
(* Steps shared by the handlers                                            *)

\* The handler moves on to the step named; a fresh loop of attempts.
Goto(h, step) ==
    /\ pc' = [pc EXCEPT ![h] = step]
    /\ tries' = [tries EXCEPT ![h] = 1]

\* The handler returns or raises; only a return is acknowledged.
Leave(h) ==
    /\ Goto(h, "idle")
    /\ job' = [job EXCEPT ![h] = NoEvent]
    /\ draft' = [draft EXCEPT ![h] = NoRecord]
    /\ seen' = [seen EXCEPT ![h] = NoBudget]

Return(h) == Leave(h) /\ acked' = acked \cup {job[h]}
Raise(h)  == Leave(h) /\ UNCHANGED acked

\* Mutant: the comparison is off by one and a further attempt is made.
LastAttemptLate(h) == tries[h] > MaxRetries
LastAttempt(h) == tries[h] = MaxRetries

Again(h, step) ==
    /\ pc' = [pc EXCEPT ![h] = step]
    /\ tries' = [tries EXCEPT ![h] = @ + 1]
    /\ seen' = [seen EXCEPT ![h] = NoBudget]
    /\ UNCHANGED <<job, draft, acked>>

\* Mutant: the loop ends without raising and the handler goes on to publish.
RetryFallsThrough(h, step) ==
    \/ ~LastAttempt(h) /\ Again(h, step)
    \/ LastAttempt(h) /\ Goto(h, "publish") /\ UNCHANGED <<job, draft, seen, acked>>
\* except grpc.RpcError: sleep, then the next of _MAX_RETRIES attempts.
Retry(h, step) ==
    \/ ~LastAttempt(h) /\ Again(h, step)
    \/ LastAttempt(h) /\ Raise(h)

\* A Dapr call fails: the bound on how often.
Fault == faults < MaxFaults /\ faults' = faults + 1

-----------------------------------------------------------------------------
(* Startup: lifespan seeds the budgets before the service serves           *)

\* ensure_seeded(): an existing budget is left alone, and a failed write is
\* swallowed, so the department may stay without a budget.
EnsureSeeded(d) ==
    /\ d \in unseeded
    /\ unseeded' = unseeded \ {d}
    /\ \/ /\ etag[d] # 0
          /\ UNCHANGED <<remaining, etag, faults>>
       \/ /\ etag[d] = 0
          /\ remaining' = [remaining EXCEPT ![d] = Total[d]]
          /\ etag' = [etag EXCEPT ![d] = 1]
          /\ UNCHANGED faults
       \/ etag[d] = 0 /\ Fault /\ UNCHANGED <<remaining, etag>>
    /\ UNCHANGED <<payments, tag, gateway, local, history, env, published, acked>>

\* The process dies and is started again.
Crash ==
    /\ crashes < MaxCrashes
    /\ crashes' = crashes + 1
    /\ results' = {}
    /\ pc' = [h \in Handlers |-> "idle"]
    /\ job' = [h \in Handlers |-> NoEvent]
    /\ draft' = [h \in Handlers |-> NoRecord]
    /\ seen' = [h \in Handlers |-> NoBudget]
    /\ tries' = [h \in Handlers |-> 1]
    /\ tag' = [h \in Handlers |-> "unread"]
    /\ unseeded' = Configured
    /\ UNCHANGED <<payments, remaining, etag, executed, history, declined, published, acked,
                   faults, overlaps>>

-----------------------------------------------------------------------------
(* Delivery: handle_decision_completed, handle_approval_completed          *)

\* Mutants: approval.completed is not looked into, or not subscribed to.
TriggersOnAnyResolution(e) ==
    e.topic = "decision.completed" => e.verdict = "auto_approve"
TriggersOnDecisionOnly(e) ==
    e.topic = "decision.completed" /\ e.verdict = "auto_approve"
\* Only an auto-approval or a human approval starts the saga.
Triggers(e) ==
    \/ e.topic = "decision.completed" /\ e.verdict = "auto_approve"
    \/ e.topic = "approval.completed" /\ e.verdict = "approved"

\* Mutant: a failed payment is taken up again.
EndedIfPaid(t) == payments[t].status = "completed"
\* The record is terminal: any further event is a no-op.
Ended(t) == payments[t].status \in Terminal

\* Mutant: a recorded reservation does not stop a second one.
AlwaysReserve(t) == "reserve_read"
\* Where _run_saga() starts: RESERVED resumes at the charge.
FirstStep(t) == IF payments[t].status = "none" THEN "reserve_read" ELSE "charge"

\* Dapr calls the subscription: the first time, again until it is
\* acknowledged, or (counted) while another handler has the tracking id.
Receive(h, e) ==
    /\ Serving
    /\ pc[h] = "idle"
    /\ \/ ~InFlight(e.tid) /\ UNCHANGED overlaps
       \/ /\ InFlight(e.tid)
          /\ overlaps < MaxOverlaps
          /\ overlaps' = overlaps + 1
    /\ UNCHANGED <<store, gateway, history, declined, published, unseeded, crashes>>

\* The event is not this service's business, or the saga has ended before.
Ignore(h, e) ==
    /\ Receive(h, e)
    /\ \/ ~Triggers(e)
       \/ Ended(e.tid)
    /\ acked' = acked \cup {e}
    /\ UNCHANGED <<local, faults>>

\* _run_saga() up to its first effect: reserve, or resume at the charge.
StartSaga(h, e) ==
    /\ Receive(h, e)
    /\ Triggers(e)
    /\ ~Ended(e.tid)
    /\ job' = [job EXCEPT ![h] = e]
    /\ draft' = [draft EXCEPT ![h] = payments[e.tid]]
    /\ Goto(h, FirstStep(e.tid))
    /\ UNCHANGED <<seen, acked, faults>>

-----------------------------------------------------------------------------
(* The saga's steps                                                        *)

\* Reading a budget, reading the index before a save, or publishing fails:
\* nothing catches that and nothing retries it here.
CallFails(h) ==
    /\ pc[h] \in {"reserve_read", "save", "release_read", "publish"}
    /\ tag[h] = "unread"
    /\ Fault
    /\ Raise(h)
    /\ UNCHANGED <<store, gateway, history, env, published, unseeded>>

\* Mutants: the balance is not compared, or an exact fit is refused.
InsufficientNever(d, amount) == etag[d] = 0
InsufficientOnExactFit(d, amount) == etag[d] = 0 \/ remaining[d] <= amount
\* No budget for the department, or too little left of it.
Insufficient(d, amount) == etag[d] = 0 \/ remaining[d] < amount

\* reserve(): read the budget, refuse the payment or compute the new balance.
ReserveRead(h) ==
    LET d == Dept[Tid(h)] IN
    /\ pc[h] = "reserve_read"
    /\ IF Insufficient(d, Amount[Tid(h)])
       THEN /\ draft' = [draft EXCEPT ![h] = [status |-> "failed", reserved |-> 0]]
            /\ Goto(h, "save")
            /\ UNCHANGED seen
       ELSE /\ seen' = [seen EXCEPT ![h] = [remaining |-> remaining[d], etag |-> etag[d]]]
            /\ pc' = [pc EXCEPT ![h] = "reserve_write"]
            /\ UNCHANGED <<draft, tries>>
    /\ UNCHANGED <<store, gateway, history, env, published, acked, unseeded, job, faults>>

\* Mutant: the write is not conditional on the etag that was read.
CommittedBlindly(h, value) ==
    LET d == Dept[Tid(h)] IN
    /\ remaining' = [remaining EXCEPT ![d] = value]
    /\ etag' = [etag EXCEPT ![d] = @ + 1]
\* The conditional write both loops end in: it takes effect only on the etag read.
Committed(h, value) ==
    LET d == Dept[Tid(h)] IN
    /\ seen[h].etag = etag[d]
    /\ remaining' = [remaining EXCEPT ![d] = value]
    /\ etag' = [etag EXCEPT ![d] = @ + 1]

\* The write is refused (stale etag) or does not get through.
NotCommitted(h, again) ==
    /\ \/ seen[h].etag # etag[Dept[Tid(h)]] /\ UNCHANGED faults
       \/ Fault
    /\ Retry(h, again)
    /\ UNCHANGED <<remaining, etag, history>>

\* reserve(): the transaction; its reply may be lost after it took effect.
ReserveWrite(h) ==
    /\ pc[h] = "reserve_write"
    /\ \/ /\ Committed(h, seen[h].remaining - Amount[Tid(h)])
          /\ debits' = [debits EXCEPT ![Tid(h)] = @ + 1]
          /\ \/ /\ draft' = [draft EXCEPT ![h] =
                                [status |-> "reserved", reserved |-> Amount[Tid(h)]]]
                /\ seen' = [seen EXCEPT ![h] = NoBudget]
                /\ Goto(h, "save")
                /\ UNCHANGED <<job, acked, faults>>
             \/ Fault /\ Retry(h, "reserve_read")
          /\ UNCHANGED <<credits, gaveUp>>
       \/ NotCommitted(h, "reserve_read")
    /\ UNCHANGED <<payments, tag, gateway, env, published, unseeded>>

\* save() reads payment:index before each attempt.  The key is there from the
\* first save on: record and index are written by one transaction.
ReadIndex(h) ==
    /\ pc[h] = "save"
    /\ tag[h] = "unread"
    /\ tag' = [tag EXCEPT ![h] =
                  IF \E t \in TrackingIds : payments[t].status # "none"
                  THEN "current" ELSE "absent"]
    /\ UNCHANGED <<payments, remaining, etag, gateway, local, history, env,
                   published, acked, unseeded, faults>>

\* Mutant: the transaction holds the index and not the record.
StoredIndexOnly(h) ==
    /\ tag[h] # "stale"
    /\ tag' = [g \in Handlers |-> IF g = h THEN "unread"
                                  ELSE IF tag[g] = "current" THEN "stale" ELSE tag[g]]
    /\ UNCHANGED payments
\* The transaction takes effect unless the index was written since it was read
\* (the empty etag of an absent index is no condition); it gives the index a
\* new etag, so the one every other save() has read is stale.
Stored(h) ==
    /\ tag[h] # "stale"
    /\ payments' = [payments EXCEPT ![Tid(h)] = draft[h]]
    /\ tag' = [g \in Handlers |-> IF g = h THEN "unread"
                                  ELSE IF tag[g] = "current" THEN "stale" ELSE tag[g]]

\* PaymentRepository.save() of the record the handler built, whatever is
\* stored: the transaction, refused (stale etag) or failing or with its reply
\* lost, and then made again up to _MAX_RETRIES times.
Save(h) ==
    /\ pc[h] = "save"
    /\ tag[h] # "unread"
    /\ \/ /\ Stored(h)
          /\ Goto(h, IF draft[h].status = "reserved" THEN "charge" ELSE "publish")
          /\ UNCHANGED <<job, draft, seen, acked, faults, gaveUp>>
       \/ /\ \/ Stored(h) /\ Fault
             \/ /\ Fault \/ (tag[h] = "stale" /\ UNCHANGED faults)
                /\ tag' = [tag EXCEPT ![h] = "unread"]
                /\ UNCHANGED payments
          /\ Retry(h, "save")
          /\ gaveUp' = (gaveUp \/ LastAttempt(h))
    /\ UNCHANGED <<remaining, etag, gateway, debits, credits, env, published, unseeded>>

\* Mutant: only a charge really evaluated can fail; a replayed one is a success.
DeclinesOnce(t) == t \in declined /\ t \notin results
\* The gateway's answer is the same every time the key is presented.
Declines(t) == t \in declined

\* _execute_charge(): the gateway replays a key it has seen since it started.
Charge(h) ==
    /\ pc[h] = "charge"
    /\ results' = results \cup {Tid(h)}
    /\ executed' = IF Tid(h) \in results THEN executed
                   ELSE [executed EXCEPT ![Tid(h)] = @ + 1]
    /\ IF Declines(Tid(h))
       THEN Goto(h, "release_read") /\ UNCHANGED draft
       ELSE /\ draft' = [draft EXCEPT ![h].status = "completed"]
            /\ Goto(h, "save")
    /\ UNCHANGED <<store, history, env, published, acked, unseeded, job, seen, faults>>

\* release(): read the budget; a credit above the total raises BudgetCorruptionError.
\* Nothing deletes a budget, so the key a reservation was made on is still there.
ReleaseRead(h) ==
    LET d == Dept[Tid(h)] IN
    /\ pc[h] = "release_read"
    /\ \/ /\ remaining[d] + draft[h].reserved <= Total[d]
          /\ seen' = [seen EXCEPT ![h] = [remaining |-> remaining[d], etag |-> etag[d]]]
          /\ pc' = [pc EXCEPT ![h] = "release_write"]
          /\ UNCHANGED <<job, draft, tries, acked>>
       \/ remaining[d] + draft[h].reserved > Total[d] /\ Raise(h)
    /\ UNCHANGED <<store, gateway, history, env, published, unseeded, faults>>

\* release(): the transaction, then the record becomes FAILED.
ReleaseWrite(h) ==
    /\ pc[h] = "release_write"
    /\ \/ /\ Committed(h, seen[h].remaining + draft[h].reserved)
          /\ credits' = [credits EXCEPT ![Tid(h)] = @ + 1]
          /\ \/ /\ draft' = [draft EXCEPT ![h].status = "failed"]
                /\ seen' = [seen EXCEPT ![h] = NoBudget]
                /\ Goto(h, "save")
                /\ UNCHANGED <<job, acked, faults>>
             \/ Fault /\ Retry(h, "release_read")
          /\ UNCHANGED <<debits, gaveUp>>
       \/ NotCommitted(h, "release_read")
    /\ UNCHANGED <<payments, tag, gateway, env, published, unseeded>>

\* DaprPaymentOutcomePublisher.publish(), when the event gets out.
Sent(event) == published' = published \cup {event}

\* _publish(): payment.completed; the reply may be lost after it was sent.
Publish(h) ==
    /\ pc[h] = "publish"
    /\ Sent([tid |-> Tid(h), resolution |-> draft[h].status])
    /\ \/ Return(h) /\ UNCHANGED faults
       \/ Fault /\ Raise(h)
    /\ UNCHANGED <<store, gateway, history, env, unseeded>>

-----------------------------------------------------------------------------
HandlerStep(h) ==
    \/ ReserveRead(h) \/ ReserveWrite(h) \/ ReadIndex(h) \/ Save(h) \/ Charge(h)
    \/ ReleaseRead(h) \/ ReleaseWrite(h) \/ Publish(h)

Next ==
    \/ \E d \in Configured : EnsureSeeded(d)
    \/ \E h \in Handlers, e \in Events : Ignore(h, e) \/ StartSaga(h, e)
    \/ \E h \in Handlers : HandlerStep(h) \/ CallFails(h)
    \/ Crash

Spec == Init /\ [][Next]_vars

(* Dapr keeps redelivering what was not answered with a 2xx, uvicorn starts *)
(* the process again and runs every coroutine on to its next await; nothing *)
(* is promised about faults, crashes and overlapping deliveries.            *)
Redeliver(e) ==
    /\ e \notin acked
    /\ \E h \in Handlers : Ignore(h, e) \/ StartSaga(h, e)

Fairness ==
    /\ WF_vars(\E d \in Configured : EnsureSeeded(d))
    /\ \A e \in Events : WF_vars(~InFlight(e.tid) /\ Redeliver(e))
    /\ \A h \in Handlers : WF_vars(HandlerStep(h))

FairSpec == Spec /\ Fairness
-----------------------------------------------------------------------------
(* Properties                                                              *)

\* Every variable stays in its range.
TypeOK ==
    /\ payments \in [TrackingIds -> [status: Statuses, reserved: Nat]]
    /\ remaining \in [Departments -> Int]
    /\ etag \in [Departments -> Nat]
    /\ tag \in [Handlers -> Tags]
    /\ results \subseteq TrackingIds
    /\ executed \in [TrackingIds -> Nat]
    /\ declined \subseteq TrackingIds
    /\ published \subseteq [tid: TrackingIds, resolution: Terminal]
    /\ acked \subseteq Events
    /\ unseeded \subseteq Configured
    /\ pc \in [Handlers -> Steps]
    /\ job \in [Handlers -> Events \cup {NoEvent}]
    /\ draft \in [Handlers -> [status: Statuses, reserved: Nat]]
    /\ seen \in [Handlers -> [remaining: Int, etag: Nat]]
    /\ tries \in [Handlers -> 1..MaxRetries]
    /\ debits \in [TrackingIds -> Nat]
    /\ credits \in [TrackingIds -> Nat]
    /\ gaveUp \in BOOLEAN
    /\ faults \in 0..MaxFaults /\ crashes \in 0..MaxCrashes /\ overlaps \in 0..MaxOverlaps

\* INV-1014: however the two budget loops of different payments interleave, and
\* whatever fails, a budget never goes below zero nor above its total.
BudgetInBounds ==
    \A d \in Departments : etag[d] # 0 => 0 <= remaining[d] /\ remaining[d] <= Total[d]

\* What the committed transactions took for each payment, less what they gave back.
Taken == [t \in TrackingIds |-> (debits[t] - credits[t]) * Amount[t]]

\* No update of a budget is ever lost: what left it is what the committed
\* reserve() transactions took less what the release() transactions gave back.
LedgerConserved ==
    \A d \in Configured : etag[d] # 0 =>
        Total[d] - remaining[d] = SumFunctionOnSet(Taken, {t \in TrackingIds : Dept[t] = d})

\* A payment recorded or announced as completed was charged, the gateway did
\* not decline it, and its amount was reserved and never handed back.
CompletedIsBacked ==
    \A t \in TrackingIds :
        \/ payments[t].status = "completed"
        \/ [tid |-> t, resolution |-> "completed"] \in published
        => executed[t] > 0 /\ t \notin declined /\ debits[t] > 0 /\ credits[t] = 0

\* Until a redelivery overlaps a running handler, subscribers are only told
\* what the record says, and it never changes after they were told.
AnnouncedIsRecorded ==
    overlaps = 0 =>
        \A m \in published : payments[m.tid].status = m.resolution

Approving(e) == e.verdict \in {"auto_approve", "approved"}

\* The state machine of models.py, as long as no redelivery has overlapped:
\* COMPLETED and FAILED are final and a reservation on record is never forgotten
\* nor made again (the redelivery resumes at the charge), through crashes, retries
\* and lost replies.
RecordFollowsStateMachine ==
    [][overlaps' = 0 =>
        \A t \in TrackingIds :
            LET was == payments[t].status
                is == payments'[t].status
            IN /\ was # is => \/ was = "none"
                              \/ was = "reserved" /\ is \in Terminal
               /\ debits'[t] > debits[t] => was = "none"]_vars

\* reserve() is not idempotent: a lost reply, a crash or a failing save before the
\* record is stored, and an overlap, make it run again. Each of them costs at most
\* one reservation too many, however they combine with retries and redeliveries, as
\* long as no save() has run out of attempts.
ReservesAreAccounted ==
    ~gaveUp => \A t \in TrackingIds : debits[t] <= 1 + faults + crashes + overlaps

\* Every approved invoice is eventually paid or failed, and announced so,
\* unless saves contending for payment:index make one of them give up: what
\* save() then leaves unrecorded can stop other payments too, whose release()
\* finds the budget already credited.
EveryApprovalIsSettled ==
    \A e \in {x \in Events : Approving(x)} :
        <>(\/ gaveUp
           \/ \E r \in Terminal : /\ payments[e.tid].status = r
                                  /\ [tid |-> e.tid, resolution |-> r] \in published)

\* Every saga ends, whether or not its outcome is announced.
EverySagaEnds ==
    \A e \in {x \in Events : Approving(x)} : <>(payments[e.tid].status \in Terminal)

(* The contract, read off the saga's state. A refusal is decided by the     *)
(* handler before it is recorded.                                           *)
Refusing(t) == \E h \in Handlers : pc[h] = "save" /\ Tid(h) = t /\ draft[h].status = "failed"

Phase(t) ==
    CASE payments[t].status = "completed" -> "paid"
      [] payments[t].status = "failed"    -> "failed"
      [] payments[t].status \notin Terminal /\ debits[t] > credits[t] -> "held"
      [] payments[t].status \notin Terminal /\ debits[t] <= credits[t] ->
            IF credits[t] > 0 THEN "released" ELSE IF Refusing(t) THEN "refused" ELSE "new"

Contract == INSTANCE PaymentContract WITH
    Approved  <- {e.tid : e \in {x \in Events : Approving(x)}},
    phase     <- [t \in TrackingIds |-> Phase(t)],
    balance   <- [d \in Departments |->
                    IF d \in Configured /\ etag[d] = 0 THEN Total[d] ELSE remaining[d]],
    announced <- published

\* Nothing failed, died or overlapped so far, and no save() gave up.
Undisturbed == faults = 0 /\ crashes = 0 /\ overlaps = 0 /\ ~gaveUp

\* As long as no call failed, no process died, no deliveries overlapped and no
\* save() ran out of attempts, the saga keeps its contract: nothing is held
\* without an approval, one hold per payment, given back exactly when the
\* gateway declines.
KeepsContract ==
    Contract!ContractInit
        /\ [][Undisturbed' => Contract!ContractNext]_(Contract!contractVars)
=============================================================================
