# ApprovalFlow: a verification project

TLA+ models of ApprovalFlow, an invoice approval workflow made of small FastAPI
services that talk over Dapr pub/sub and keep their state in Dapr state stores.
The models follow `src/`, module by module and await by await; TLC checks them
on small instances and TLAPS proves their safety properties for every instance.

```
tlc -workers 2 -config payment_serial.cfg MCPayment      # any run of PROJECT.json
tlapm PaymentSagaProofs.tla                              # the proofs
```

## 1. The system

```
            POST /invoices                invoice.submitted
  submitter ------------> Intake ------------------------------> Decision (LLM + router)
                            ^  |  decision.completed (duplicates)      |
                            |  v                                       | decision.completed
                            +------------------+-----------------------+
                                               |
          +--------------------+---------------+-------------+------------------+
          v                    v                             v                  v
   Approval (human)        Payment (saga)               Notification          Audit
          |  approval.completed   |  payment.completed       ^                  ^
          +-----------------------+--------------------------+------------------+
```

Every arrow with a topic is at-least-once: Dapr delivers an event again until the
subscriber answers 2xx, possibly while an earlier delivery is still being handled,
and in no order between topics. Each service is one process running coroutines
that interleave at every `await`. Nothing but the Dapr store (and Audit's
Postgres) survives a crash.

| Component | State it keeps | Operations | What is hard | What makes it correct |
|---|---|---|---|---|
| **Payment** `src/services/payment` | `payment:{tid}`, `payment:index` (etag), `budget:{dept}` (etag), the gateway's in-memory idempotency cache | seed budgets at start; `handle_decision_completed`, `handle_approval_completed` → reserve, charge, release, save, publish | two read-modify-write loops on one budget; saves of all payments contending for one index; a reply lost after the commit; a crash between any two awaits; redelivery of half-done work | budgets never overdrawn (INV-1014); nothing paid that was not approved and reserved; every approval settled |
| **Intake** `src/services/intake` | `submission:{tid}`, `dedup:{key}` | `submit`, background `process`, `complete`, status lookup | check-then-save of the dedup key; the decision racing `process`; background tasks lost in a crash | one submission per invoice reaches Decision; the status only moves forward; every submission settles |
| **Decision** `src/services/decision` | none that lasts; thresholds loaded at start | `invoice.submitted`, `POST /decisions` | an LLM that errs, answers nonsense or hangs; a bulkhead shared by all requests; gates with boundary cases | auto-approval only with the agent's approval and within every rule that has a field; every event decided |
| **Bulkhead** `src/shared/bulkhead.py` | a semaphore | `run` | a deadline that may strike before or after the slot was taken | slots neither leak nor multiply |
| **Approval** `src/services/approval` | `approval:{tid}`, `approval:index` (etag) | `decision.completed`; approve, reject, request info, additional info | overlapping clicks; an index every save rewrites, the first of them without a condition | every escalation tracked and listed once; a resolution is final and announced |
| **Notification** `src/services/notification` | `notification:{tid}` marks | three subscriptions | send-then-mark is not atomic; three subscriptions share one mark | a mark implies a message; every final outcome is told |
| **Audit** `src/services/audit` | one Postgres row per tid | three subscriptions, trail, summary | events in any order, redelivered; an invoice decided twice | no event empties another's columns; the dashboard does not depend on the order |
| **Auth** `src/services/auth`, `src/shared/auth.py`, `jwt_secret_loader.py` | `user:{email}`; each service's own copy of the signing secret | seed demo users, register, login; verify a token | check-then-save of an account; seeding at every start; a secret each service fetches by itself | a registration lasts; a token says what the account says and is accepted everywhere |
| **Rate limiting** `src/shared/rate_limiter.py`, `auth/rate_limit.py` | fixed-window counters (etag) | count a request by email, address or user | read-modify-write under contention; two counters per login; failing open | a window admits at most its limit for each first hit that was stored |
| **Intake status lookup** `src/services/intake/*approval_status_client.py` | a bulkhead's semaphore | `GET /invoices/{tracking_id}` | a slow or absent Approval behind few slots | every lookup is answered, with the approval if there is one |
| Shared contracts, legacy decision client, Dapr client, UI, gateway/deployment, scripts | none that a property could be about | - | - | - |

`PROJECT.json` lists these with their files and status; under `hazards` it lists,
at its line, each thing in this code that is hard to reach with a test.

## 2. Modules and their correspondence to the code

### PaymentSaga, PaymentContract, PaymentSagaProofs, PaymentContractProofs, MCPayment
`payments`, `remaining`/`etag`, `results` are `payment:{tid}`, `budget:{dept}` and
`SimulatedPaymentGateway._results`; a *handler* is one coroutine, with `pc[h]` the
await it stands at. `StartSaga`/`Ignore` are a delivery up to its first effect,
`ReserveRead`/`ReserveWrite` and `ReleaseRead`/`ReleaseWrite` the two loops of
`dapr_state_repository.py` (read with etag, conditional transaction, retry up to
`_MAX_RETRIES`), `ReadIndex`/`Save` the third loop, that of `save()`, `Charge` the gateway,
`Publish` the announcement, `EnsureSeeded` startup, `Crash` the loss of the process.
`Committed` is the conditional write, `NotCommitted` a refused or lost one, and a
write may take effect though its reply is lost. `debits`, `credits` and `gaveUp` are history
variables, and `Taken` is what the first two come to. Choices worth knowing:

- The record is saved in a transaction with `payment:index`, conditional on the etag of
  the index. Every save of any payment gives the index a new etag, so saves make each
  other fail on a healthy store, and may use up the attempts of one of them (`gaveUp`).
  `tag[h]` is how the etag that `ReadIndex` read stands now: *current*, *stale*, or
  *absent*, the empty etag of an index that did not exist, which is no condition;
  `Stored` is the write going through. The contents of the index serve its listing only.
- A failed read before any effect leaves everything as it was and the event
  unacknowledged: no step of its own.
- Amounts are naturals. `Invoice.total` is a `Decimal` without a lower bound
  (`shared/contracts/models.py:65`); a negative amount is outside these results.

`PaymentContract` is the abstract specification: a payment is *new*, *held*,
*released*, *refused*, *paid* or *failed*; `PaymentSaga!Contract` maps the saga's
state to it (`Phase`, and the budget as it will be once seeded).

### Intake, IntakeProofs, MCIntake
`pc[t]` is the coroutine of `POST /invoices` for tracking id `t` and afterwards the
background task `process(t)`. `LookUpPointer`, `LookUpRecord`, `Store` are
`submit()`; `Process`, `MarkProcessing`, `AnnounceInvoice`, `MarkFailed` and the
`...Duplicate` actions `process()`; `CompleteRead`/`CompleteSave` the subscription.
Decision is external here: it decides anything submitted, and again, perhaps
differently, when the event comes back (`MaxDecisions`), which is what Decision.tla
shows it can do.

### Approval, ApprovalProofs, MCApproval
`approvals` and `index` are the stored keys; `current` is the set of handlers whose
etag of the index is still the stored one, which is all an etag tells. An index that
does not exist has the empty etag, and a write that carries it is unconditional
(`EtagMatches`; ARCHITECTURE.md:209 says that Dapr's etags are for update against update
and not "insert only if absent"). `creations` counts the saves that did so. `Escalate`
and `Ignore` are the subscription, `Resolve`, `RequestInfo`, `AddAdditionalInfo` the
API calls past their checks (a 404 or 409 changes nothing), `ReadIndex`/`Write` the
save loop and `Publish` the announcement.

### Router, Decision, DecisionProofs, MCDecision
`Router` holds the pure functions: `RouteDecision` is `route_decision()` gate by
gate, `MergeThresholds` is `merge_thresholds()`. `Decision` is the service around
it: `Start` the lifespan hook, `Receive`/`Post` the two entries, `Acquire`,
`Replied`, `Timeout`, `Raise` a call through the bulkhead and its
endings, `Publish`/`Answer` what follows, `Crash` the loss of the process.
`Replies` is what a provider may return: Groq's answer parses as any member of
`Recommendations` or as nothing, the mock's is fixed; which of them is configured
is left open, so the rebuild of the provider from a secret has no effect to model.
The rules an auto-approval is held to are stated apart from the gates: `AgentApproves` is
the agent's part, `FieldsAllow` the rules of `policy.md` about a field of the invoice
(GLOBAL-VENDOR, GLOBAL-FX, GLOBAL-MATH, GLOBAL-RECEIPT, MEAL-01's attendee count, the
ceiling, the caps of the categories). That is not all of `policy.md` section 6:
GLOBAL-FRAUD, MEAL-02, MEAL-03 and TRAVEL-03 have no field and are the LLM's to see, so
nothing is claimed of them; and MEAL-01's cap is required of meals with attendees only,
as zero attendees are the finding of `decision_meal`.
`PolicyIndex` is the selection of policy sections for the prompt: sections with
their (perhaps colliding) slugs, the two that are always included, those of the
category, and those whose similarity, an arbitrary function here, reaches the
threshold. The division by the number of attendees is a
multiplication. The decision is computed in the step in which the LLM call ends,
as nothing is awaited in between. The outcome records the thresholds it was reached
under, so that properties can speak of them after a restart.

### Topics, Notification, Audit, Outlets, OutletsProofs, MCOutlets
The two consumers at the end of every topic. `Topics` holds the published events
and their producers, which are coarse: `Decide`, `Resolve` and `Pay` announce no more
than what Decision, Approval and Payment may announce for an invoice whose requests
do not overlap, an abstraction read from their code and not a proved refinement.
`Notification` is `_notify()` await by await (`Begin` finds no mark, `Send`, `Mark`)
behind the three filters (`Final`); its channel only logs, so `Send` cannot fail, and
`told` counts what it sent. `Audit` has no handlers: a delivery (`Record`) is one
`INSERT ... ON CONFLICT DO UPDATE`, and `Enriched` is the row it leaves. `route`
stands for the base columns every statement writes, one column for those of each
topic, and `OwnColumns` is what a statement writes besides the base columns.
`RouteSummary` is the SQL aggregate and `Summary` what `get_summary()` makes of it:
counts and the two sums, pooled by route. An invoice may be decided again and otherwise
(`MaxDecisions`), since Decision keeps no record of what it decided: it is then resolved
and paid at most once still, and its events may disagree on the route. `Outlets`
puts both side by side. A failed read of the mark changes nothing and is a
redelivery; the schema is created before the first request.

### Throttle, Accounts, StatusLookup, Frontend, FrontendProofs, AccountsProofs, MCFrontend
What a user reaches over HTTP, each module extending the one before, with the same
handlers throughout: `pc[h]` is the await that the coroutine of a request stands at.
`Throttle` is `DaprStateRateLimiter.hit()`: `ReadCounter` is the read and the
comparison, `WriteCounter` the conditional write with its four outcomes, `RetryHit`
the loop; `HitReturns` is `_throttle()`, which hits the second limiter whatever the
first one said and refuses if either did, `FailOpen` the `RateLimiterError` that
lets the request pass, raised by a failing store or by contention. `etags` counts the
writes of a key; a key that was never written has the empty etag, and a write that
carries it is unconditional (`EtagMatches`), which `created` counts. `window` is the
number of the fixed window, and time passes by `Tick`.
`Accounts` has the lifespan of Auth (`Seed`, `ServeAuth`) and of every other service
(`ServeApi`; "api" stands for any of them), `CheckEmail`/`SaveUser` for `register()`,
`CheckPassword` for `login()` and `GetCurrentUser` for the dependency of that name.
A hash is the pair of password and salt, a token the record it signs together with
the secret. `StatusLookup` is `get_status_response()`: `ReadSubmission` may find
anything Intake stores, `Acquire`, `Reply`, `CallFails` and `Timeout` are the call
in its bulkhead, and `GetApproval` answers as Approval's route does. `created`,
`admitted`, `registered`, `raced` and `hidden` are history variables. Choices worth knowing:

- `JWT_SECRET_DAPR_ENABLED` is true, as `docker-compose.yml` sets it everywhere.
- A submission ends here once it is past the throttle; the rest of it is Intake.tla.
- The in-memory limiter and repositories, which only the tests use, are left out.

## 3. Runs

Bounds are constants of the modules: `MaxFaults` failed or ambiguous calls,
`MaxCrashes`, `MaxOverlaps` deliveries (or lookups) of something that is already in
flight, `MaxRequests` API calls, `MaxDecisions` decisions of one invoice.

| Run | Instance | What it shows |
|---|---|---|
| `payment_serial` | 4 payments, 3 on a budget of 2 (amounts 1, 2, 2), one of them with no budget; 2 handlers, whose saves contend; 3 attempts; no fault | `KeepsContract`: the saga implements `PaymentContract`. `EveryApprovalIsSettled` |
| `payment_faults` | 2 payments on a budget of 3 (either fits, both fit exactly), 2 handlers, 2 faults, 1 crash, 1 overlap, 2 attempts; handlers symmetric | `BudgetInBounds`, `LedgerConserved`, `CompletedIsBacked`, `AnnouncedIsRecorded`, `ReservesAreAccounted`, `RecordFollowsStateMachine` |
| `payment_stuck` | as above with fairness | refutes "always reaches a consistent state" |
| `intake` | 1 invoice posted twice, 2 handlers, 2 decisions, 2 faults, 1 crash, 1 overlap | `PointerHasRecord`, `OnePerKeyReachesDecision`, `DuplicatesAreDecidedHere`, `DecisionFindsProcessing`, `StatusMovesForward`, `EverySubmissionSettles` |
| `intake_overwrite` | 1 fault | refutes "first-write-wins, never overwritten" |
| `approval` | 2 invoices, 3 events, 3 calls, 2 handlers, 1 fault, 1 crash, 1 overlap, 2 attempts | `IndexIsExact`, `AnnouncedIsRecorded`, `ResolutionIsAnnounced`, `RecordFollowsStateMachine`, `EveryEscalationIsTracked` |
| `approval_double` | 1 overlap | refutes "prevents a duplicate approval.completed publish" |
| `decision` | 1 event and posts, 2 handlers, 1 slot, 1 fault; 17 invoices at and beyond every threshold, 5 recommendations, 2 configurations | `AutonomyIsEarned`, `AgentFailureEscalates`, `SlotsAreConserved`, `EveryEventIsDecided`, `PromptHoldsTheRules` |
| `decision_meal` | 1 handler | refutes "reimbursable up to $75 per attendee" for zero attendees |
| `outlets` | 1 invoice on each path, 2 handlers, 2 decisions, 1 fault, 1 crash, 1 overlap | `MarkedIsTold`, `ToldOnce`, `DashboardIsExact`, `RowsOnlyGain`, `EveryOutcomeIsKnown` |
| `frontend` | 1 email (of a demo user), 1 address, 2 passwords, 2 handlers, 2 throttled requests and 2 lookups, limits of 1, of 2 for registrations, 2 windows, 2 attempts, 1 slot, 1 fault, 1 crash | `LimitHolds`, `RegistrationSticks`, `TokensTellTheTruth`, `LoginIsUsable`, `EveryLookupIsAnswered` |
| `lookup_live` | 1 login, 1 lookup, nothing fails | refutes "enriched with live approval progress if escalated" |

Every module's `TypeOK` is checked by some passing run; each property of one has in
`PROJECT.json` a mutant of the code that breaks it, defined next to the original.

**Why these bounds.** The races are between two coroutines over one key, so two
handlers, two tracking ids on one key, and one overlap show each of them; a second
fault (in Payment and Intake) lets a retry fail again and exhaust the attempts (`MaxRetries` 2, not 3, for
that reason), and one crash at any point between two faults covers each gap
between awaits. Budgets are chosen so that the exact fit and the shortage both
occur. One slot and two handlers suffice for the bulkhead to be full with a
request waiting. Two requests exceed a limit of one; the limit of
two registrations has room for a first hit, which carries no etag, and for a conditional one
after it, whose etag may be stale. To exceed that limit by a lost update takes three requests,
which the theorem `LimitAlwaysHolds` covers and the run does not;
two windows let a request read in one and write in the next, a token lives for one window, and
the one email is a demo user's, so that seeding and registration meet. The prompt
property ranges over every policy of up to three sections with colliding slugs and
over every similarity function on them. `payment_faults` takes states that differ by a
permutation of the handlers as one: no constant or property names a handler, and the run
has no liveness property. Notification and Audit keep nothing that two invoices share, so one
invoice is enough there. The proofs remove the bounds for what they cover.

**Properties under a condition.** `overlaps = 0 =>` guards what the code itself
gives up when two deliveries of one tracking id overlap (the accepted non-goals in
the docstrings of `service.py`); the unguarded properties hold with overlaps too.
`EverySubmissionSettles` and `ResolutionIsAnnounced` are stated for undisturbed
executions, since the code keeps no outbox: after a lost background task or a
failed publish nobody tries again. After a crash of Intake the submission stays
`RECEIVED` for good, and every later post of that invoice is refused as a duplicate
of it. `KeepsContract`, `EveryApprovalIsSettled` and `ReservesAreAccounted` hold until some
`save()` gives up under contention (`gaveUp`). One that gives up may stop other payments too:
what it left unrecorded is released or reserved again, and a `release()` that would leave the
budget above its total raises each time. `IndexIsExact` says that the list is complete only while at most one save
created the index, and `LimitHolds` allows the limit once for each first hit of a window
that was stored; section 4 says what the races do that these leave out. `LimitHolds`
does not count what a `RateLimiterError` let through. `DashboardIsExact` is for events that
agree on the decision; `RowsOnlyGain` is about the columns that one event owns, as
`audit/models.py` is, and holds however often an invoice is decided.
`RegistrationSticks` leaves out emails for which two registrations overlapped: both
may be answered 201, and the later save replaces the password of the earlier.
`LoginIsUsable` is about executions in which no call has failed.

**Fairness.** Each `FairSpec` states it: the event loop runs every coroutine to
its next await (weak fairness of a handler's step), Dapr redelivers what was not
acknowledged, to each subscriber by itself (weak fairness of a delivery while
the tracking id is not in flight; strong in Decision, where posts compete for
the finitely many handlers that stand for unboundedly many coroutines), startup
completes and deadlines pass (`asyncio.timeout`). In Frontend coroutines run on and
deadlines pass (weak fairness of a handler's own steps and of `Timeout`), and nothing
more: a slot that comes free may always go to another, and a service need not come
back. Nothing is assumed of Approval's answers, of humans,
of those who post, of the producers in Outlets, or of the LLM, not even that it
fails. Payment, Approval, Decision and Outlets cannot deadlock, as Dapr may
always deliver something again; Intake and Frontend can stop when all requests are
made, so their runs do not check for deadlock.

## 4. Findings

Where a run refutes what the repository says of itself (`findings` in PROJECT.json
quotes both sides):

1. **payment_stuck** - a crash after `release()` commits and before `FAILED` is saved
   makes the redelivery release again; when that exceeds the total,
   `BudgetCorruptionError` is raised on every redelivery for ever.
2. **intake_overwrite** - a publish that reports an error although it went out lets
   `MARK FAILED` overwrite a decision already recorded.
3. **approval_double** - two overlapping clicks both publish.
4. **decision_meal** - a meal for zero attendees is exempt from the cap.
5. **lookup_live** - Intake asks Approval for an approval without a token, Approval's
   route requires one, and the refusal is treated like any failure: the status of an
   escalated invoice never shows the live approval.

Observed while modelling, and not runs of their own. The first five are disagreements with
the repository's words that the models contain (`gaveUp`, `creations`, `created`,
`FailOpen`, `MaxDecisions`), so the properties next to them are stated with a condition:

- A payment may be reserved twice, and nothing gives one of the two back: when the reply of
  `reserve()`'s write is lost and the loop takes that for a stale etag
  (`payment/dapr_state_repository.py:238`), when the process dies before `RESERVED` is saved
  (`payment/service.py:113`), or when, on a healthy store, the saves of other payments use up
  the attempts of the save in between (`payment/dapr_state_repository.py:138`).
  ARCHITECTURE.md:193 promises "exactly one effect" for redelivered events, and `models.py`
  (lines 26-29) "never re-reserving". `ReservesAreAccounted` bounds the damage of the first two.
- The first saves ever of `approval:index`, if they race, all find no index and none is
  conditional (`approval/dapr_state_repository.py:110`): the last one's index has lost the
  others' approvals, which are tracked and never listed. The module's docstring (lines 13-14
  and 23-26) calls the index the only way to discover them, and says that a lost race is
  retried with a fresh read.
- First hits of a window that race are each stored as the first, and each is told that it is
  within the limit (`rate_limiter.py:188`); lines 53-54 call `hit()` atomic.
- Contention alone uses up the attempts of `hit()`: it raises `RateLimiterError` on a healthy
  store (`rate_limiter.py:202`; line 39 says "a genuine backing-store failure only"), and the
  request goes through uncounted.
- A redelivered `invoice.submitted` may be decided otherwise, and the statement of the second
  `decision.completed` overwrites the base columns of the audit row
  (`postgres_repository.py:91`; `audit/repository.py:9-11` says "never a real overwrite").
- `ensure_seeded()` swallows a failed write: that demo user is absent until a later
  start, and until then anybody may register its email.
- A service whose fetch of the secret failed at its start verifies with the secret of
  the environment until it restarts, and rejects every token of the others.
- `Decimal('NaN')` in the configuration store makes the validation of the thresholds
  raise, so the service does not start though `load_policy_and_thresholds()` says that it
  never raises; `float('nan')` turns the confidence gate off.
- The deduplication key is made of text: totals of 10 and 10.0 are two invoices.
- `GET /approvals` lists resolved approvals along with the pending ones, as the index
  keeps every tracking id (`approval/dapr_state_repository.py:138`).

## 5. Proofs

Every safety property of the passing runs, invariant or action property, is also a theorem,
and so is the refinement of `PaymentContract`. The theorems hold for any constants that
satisfy the assumptions named in the modules (finitely many tracking ids in Payment, finitely
many handlers, natural amounts, totals and bounds, integers as thresholds, a "none" value
outside its set), so for any number of handlers, faults, crashes and overlaps. Each proof has the same
plan: an inductive invariant that implies the property, checked by TLC on the instances of
section 3 before it was proved, and one step per action that keeps it. What follows is what
each invariant has to add, and why.

**Payment** (`PaymentSagaProofs`, `PaymentContractProofs`)

- **TypeCorrect**. `TypeInv` adds `HandlersOK`: what a handler holds at each step,
  without which `Publish` could announce a non-terminal status.
- **BudgetNeverOverdrawn** (INV-1014). `BudgetInBounds` is
  not inductive: a write stores a value computed from a balance read earlier. The
  invariant `BudgetInv` adds `SnapshotOK` (a handler that is about to write and
  whose etag is still the stored one holds the stored balance, and the balance
  leaves room for its write) and `BalanceOK`. A write either meets the etag it read,
  so the snapshot is the truth, or changes nothing. Etags only grow.
- **CompletedIsAlwaysBacked**, with overlaps too. `BackedInv` says of each handler what
  its draft claims and of each record what it claims, both in terms of a history that only
  grows; and that the gateway's cache holds only what was really evaluated. A credit is
  only ever booked for a declined payment, so none is for a completed one.
- **LedgerAlwaysConserved**. `LedgerInv` joins `BudgetInv` and `BackedInv` and adds that
  a handler gives back what it reserved, which is the amount (`HandlerBooks`,
  `RecordBooks`), and that nothing is booked on a budget that is absent
  (`BookedOnBudget`), so that seeding starts from a sum of zeros. The equation itself
  moves by one amount on both sides with each committed write (`BooksCommit`). What is
  needed of sums (`SumOfZeros`, `SumMoves`) is proved from the library's definition:
  where a claim about the parts of a finite set fails, it fails for a smallest part
  (`SmallestSet`), which is an induction written as a least counterexample.
- **AnnouncedIsAlwaysRecorded**, **RecordAlwaysFollowsStateMachine**. `SerialInv` says that, while nothing has overlapped, a
  payment has one handler at most (`Alone`) and that the record is the one its
  step implies (`HandlerInStep`). The properties are conditional on `overlaps = 0` as the
  code's docstrings are.
- **ReservesAlwaysAccounted**. A bound on what has been reserved says nothing of what is about
  to be. `AccountInv` (by `Covered`) counts beside it the handlers inside `reserve()` and one more while
  nothing is recorded and no handler is at work, so that a delivery could begin (`Unclaimed`);
  the sum is paid for by the first reservation and by each fault, crash and overlap. It also
  says that what comes after a `save()` has a record (`HandlerClaims`). The condition `~gaveUp`
  is where a reservation is forgotten without any of them.
- **SagaKeepsContract** is the refinement, for any bounds on faults, crashes and overlaps:
  each step is one of the contract or none as long as no call has failed, no process died,
  nothing overlapped and no `save()` gave up (`Undisturbed`). The condition is needed: any
  of them between a commit and its record makes the redelivery reserve or release a second
  time (section 4), which the contract forbids. That saves contend, fail and are tried again
  is covered. `QuietInv` says how many debits and credits a payment has at each step of its
  handler; the invariant of the theorem is `QuietInv` until the first disturbance.

**Intake** (`IntakeProofs`): **IntakeTyped**, **PointersHaveRecords**, **DuplicatesStayHere**
and **DecisionsFindProcessing** hold whatever overlaps. `IntakeInv` ties the record of a
submission to where its coroutine is and to what has been announced of it (`TaskOK`,
`RecordOK`, `EventOK`). **OnePerKeyAtMost** and **StatusesMoveForward** need `SerialInv`: while
nothing has overlapped, the look-ups of a key are serial, so whoever has found no pointer is
alone with the key, and whoever completes a submission holds the stored record.

**Approval** (`ApprovalProofs`): **ApprovalTyped**, **ListIsExact** and
**ResolutionsAreAnnounced** hold whatever overlaps. `ApprovalInv` says that the index lists
no approval twice and only stored ones, and all of them while it was created once at most
(`IndexOK`), that a handler in `current` has read the index as it
is stored (`HandlerOK`), and that, unless something failed, a resolution not yet announced
has a handler that will announce it (`WillAnnounce`). **AnnouncedIsAlwaysRecorded** and
**RecordAlwaysFollowsStateMachine** again need `SerialInv`: one handler per approval, whose draft follows from what is stored.

**Decision** (`DecisionProofs`)

- **ProvableCeiling** - pure: for every invoice, recommendation and thresholds, an
  `auto_approve` of `RouteDecision` has `AgentApproves` and `FieldsAllow`, the rules with a
  field stated without gates or order; section 2 says which rules that leaves out.
- **DecisionTyped**, **AutonomyIsAlwaysEarned**, **AgentFailureAlwaysEscalates**, **BulkheadIsConserved**.
  `DecisionInv` adds to `TypeOK` that each held or published outcome was reached by
  the router from its own event's invoice under numeric thresholds (`OutcomesOK`),
  that only events are published and carry no duplicate flag (`RequestsOK`), and
  the sum of free slots and calls, by the cardinality lemmas of adding and removing
  one handler.
- **PromptAlwaysHoldsTheRules**, for policies of any length. The look-up by id takes the first
  section that has it; that there is a first one is `LeastMember`.

**Notification and Audit** (`OutletsProofs`)

- **OutletsTyped**, **MarkedIsAlwaysTold**, **NobodyToldTwice**. `ToldOnce` says nothing of the
  handlers that are about to send. `OutletsInv` has a budget instead (`Paid`): the messages
  sent, the handlers about to send, and one more as long as a delivery could still begin,
  are paid for by the first message and by each fault, crash and overlap.
- **RowsNeverLose**, **DashboardIsAlwaysExact**, for any number of decisions. `AuditInv` says
  that an invoice is resolved and paid once, however often it is decided (`EndsOnce`), that
  what a row holds some event said, and that an acknowledged event has left its row. A later
  delivery then finds in the column it owns what it writes there. The dashboard needs that the
  events agree on the decision as well, which is the condition in the property.

**Auth, rate limiting, status lookup** (`FrontendProofs`, `AccountsProofs`)

- **TypeCorrect** and **LimitAlwaysHolds** of `FrontendProofs`. A counter that has been
  written shows in no admission until the request's last limiter has said yes, so
  `LimitHolds` is not inductive. `Booked` says that the writes of a key cover the requests
  let through on it *and* those that owe it (`Owed(k)`: let through by their first limiter,
  still at their second); `Counted` bounds the writes by the limit for each creation, less
  what the counter has left: an unconditional write may set the counter back to 1, and
  pays for that with a creation. `Snapshot` says that a handler whose etag is the stored one
  has read the stored value, and `HitOK` that a handler about to write has read a value below
  the limit. `OneHandler` turns the sets of handlers into cardinalities, as it does for
  the slots of the bulkhead, where `RequestOK` ties a calling handler to the service
  whose crash resets them.
- **RegistrationAlwaysSticks** and **TokensAlwaysTellTheTruth** of `AccountsProofs`.
  `register()` reads and later writes without a condition. `SaveIsSafe` says that at the
  write the account is still absent, or was made by an overlapping registration, and
  then `raced` knows the email; a seeded account cannot appear in between, because
  seeding happens only while Auth is down and its requests are gone. Roles above
  submitter then come from seeding alone (`RanksAreSeeded`).
- **LoginIsAlwaysUsable**, from `SecretsInv`: while nothing has failed, each service that is
  up has the store's secret, and so does each token.

Only model-checked: the liveness properties `EveryApprovalIsSettled`,
`EverySubmissionSettles`, `EveryEscalationIsTracked`, `EveryEventIsDecided`,
`EveryOutcomeIsKnown` and `EveryLookupIsAnswered`, as fairness and ENABLED are beyond the
prover.

## 6. Not modelled, and the plan

Left out for good: UI, gateway and deployment files (their guarantees enter as
at-least-once delivery and etags), verification scripts (they drive a running
deployment), the construction of Dapr clients (a client that cannot be built is a
call that fails), the legacy decision client nothing calls, the loader of the LLM's
API key (replies are arbitrary), the doubles that only tests use, wording and logging.

Planned, in this order:

1. **Workflow** - the services as coarse actors over shared topics, each refined by
   its detailed module: an invoice ends in exactly one of paid, failed, rejected
   or duplicate. The coarse producers of `Topics` are the start of it.
2. **Configuration** - NaN in the configuration store, excluded today by
   `ThresholdsAssumption`.
