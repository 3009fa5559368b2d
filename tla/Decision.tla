------------------------------ MODULE Decision ------------------------------
(***************************************************************************)
(* The Decision service (src/services/decision): it decides every invoice   *)
(* of invoice.submitted and publishes decision.completed; POST /decisions   *)
(* decides the same way and answers instead of publishing.                  *)
(*                                                                          *)
(* A request retrieves the policy, asks the LLM inside a bulkhead (a        *)
(* semaphore with a deadline over the wait and the call, src/shared/        *)
(* bulkhead.py) and routes the recommendation.  An LLM that fails, answers  *)
(* nonsense or hangs becomes "no recommendation".  Nothing is stored: a     *)
(* redelivered event is decided afresh.  The policy text only feeds the     *)
(* LLM, whose recommendation is arbitrary here (PolicyIndex.tla).           *)
(***************************************************************************)
EXTENDS Router, PolicyIndex, FiniteSets

CONSTANTS
    Events,           \* invoice.submitted events, one per tracking id
    Invoices,         \* the invoices they may carry
    Recommendations,  \* what the LLM may recommend
    DefaultThresholds, \* DEFAULT_THRESHOLDS
    Configurations,   \* what an operator may have configured at a start
    MaxConcurrency,   \* slots of the bulkhead
    Handlers,         \* requests that may be in flight at once
    NoRequest,        \* what an idle handler serves
    NoOutcome,
    MaxFaults         \* bound: exceptions, failed publishes and process crashes

Numbers == {"ceiling", "min_confidence", "receipt_required_above", "meal_per_attendee_cap",
            "saas_monthly_cap", "hardware_cap", "travel_manager_approval_threshold"}

ASSUME DecisionAssumption ==
    /\ IsFiniteSet(Handlers) /\ MaxConcurrency \in Nat \ {0} /\ MaxFaults \in Nat
    /\ NoRequest \notin [event: Events, kind: {"event", "post"}, is_duplicate: BOOLEAN]

ASSUME ContractsAssumption ==
    /\ \A inv \in Invoices : IsInvoice(inv)
    /\ NoRecommendation \notin Recommendations
    /\ \A rec \in Recommendations : ValidRecommendation(rec)

\* An operator configures finite numbers, or text that is none.
ASSUME ThresholdsAssumption ==
    /\ Numbers \subseteq DOMAIN DefaultThresholds
    /\ \A field \in Numbers : DefaultThresholds[field] \in Int
    /\ \A configured \in Configurations : \A field \in Numbers \cap DOMAIN configured :
          configured[field] = Unparseable \/ configured[field] \in Int

VARIABLES
    invoice,     \* the invoice each event carries
    serving,     \* the lifespan hook has run
    thresholds,  \* what app.state.decider enforces
    pc, request, \* the handlers' local state
    outcome,     \* the DecisionOutcome a handler holds
    slots,       \* free slots of the bulkhead's semaphore
    published,   \* the last decision.completed of each event
    acked,       \* events answered with 200
    faults

vars == <<invoice, serving, thresholds, pc, request, outcome, slots, published, acked, faults>>

Requests == [event: Events, kind: {"event", "post"}, is_duplicate: BOOLEAN]
\* What Groq may come back with; parsed: the Recommendation that the text is, if any.
GroqReplies == [kind: {"error", "empty"}, parsed: {NoRecommendation}] \cup
               [kind: {"text"}, parsed: Recommendations \cup {NoRecommendation}]
\* MockProvider's one text, which is none.
MockReplies == [kind: {"text"}, parsed: {NoRecommendation}]

\* LLM_PROVIDER names one of the two; the model leaves open which.
Replies == GroqReplies \cup MockReplies

Steps == {"idle", "queued", "calling", "publish", "answer"}

\* A DecisionOutcome, with the thresholds it was reached under.
OutcomeOf(inv, rec, is_duplicate, th) ==
    [decision |-> RouteDecision(inv, rec, is_duplicate, th), recommendation |-> rec, under |-> th]

Init ==
    /\ invoice \in [Events -> Invoices]
    /\ serving = FALSE
    /\ thresholds = DefaultThresholds
    /\ pc = [h \in Handlers |-> "idle"]
    /\ request = [h \in Handlers |-> NoRequest]
    /\ outcome = [h \in Handlers |-> NoOutcome]
    /\ slots = MaxConcurrency
    /\ published = [e \in Events |-> NoOutcome]
    /\ acked = {}
    /\ faults = 0

-----------------------------------------------------------------------------
\* What the store answers; one that cannot be reached in time is empty.
RawConfigs == Configurations \cup {<<>>}

LoadedThresholds == {MergeThresholds(raw, DefaultThresholds) : raw \in RawConfigs}

\* The lifespan hook reads the store once.
Start ==
    /\ ~serving
    /\ serving' = TRUE
    /\ thresholds' \in LoadedThresholds
    /\ UNCHANGED <<invoice, pc, request, outcome, slots, published, acked, faults>>

\* The process is lost and restarts; the LLM calls under way are abandoned.
Crash ==
    /\ serving /\ faults < MaxFaults
    /\ serving' = FALSE
    /\ faults' = faults + 1
    /\ thresholds' = DefaultThresholds
    /\ pc' = [h \in Handlers |-> "idle"]
    /\ request' = [h \in Handlers |-> NoRequest]
    /\ outcome' = [h \in Handlers |-> NoOutcome]
    /\ slots' = MaxConcurrency
    /\ UNCHANGED <<invoice, published, acked>>

Begin(h, r) ==
    /\ serving /\ pc[h] = "idle"
    /\ pc' = [pc EXCEPT ![h] = "queued"]
    /\ request' = [request EXCEPT ![h] = r]
    /\ UNCHANGED <<invoice, serving, thresholds, outcome, slots, published, acked,
                   faults>>

\* Dapr delivers an event any number of times, overlapping too.
Receive(h, e) == Begin(h, [event |-> e, kind |-> "event", is_duplicate |-> FALSE])

\* POST /decisions, for an invoice of the same kinds.
Post(h, e, is_duplicate) ==
    Begin(h, [event |-> e, kind |-> "post", is_duplicate |-> is_duplicate])

-----------------------------------------------------------------------------
(* Bulkhead.run() around the LLM call                                      *)

Acquire(h) ==
    /\ pc[h] = "queued" /\ slots > 0
    /\ slots' = slots - 1
    /\ pc' = [pc EXCEPT ![h] = "calling"]
    /\ UNCHANGED <<invoice, serving, thresholds, request, outcome, published, acked, faults>>

\* Mutant: a deadline gives a slot back that may never have been taken.
ReleasedAnyway(h, timedOut) == slots + 1
\* Mutant: only a call that returns gives its slot back.
ReleasedOnReply(h, timedOut) ==
    IF pc[h] = "calling" /\ ~timedOut THEN slots + 1 ELSE slots
\* `async with` gives the slot back however the call ends.
Released(h, timedOut) == IF pc[h] = "calling" THEN slots + 1 ELSE slots

\* Routed by the graph's RouterNode, or by Decider when the agent failed.
Decided(h, rec) ==
    /\ outcome' = [outcome EXCEPT ![h] =
           OutcomeOf(invoice[request[h].event], rec, request[h].is_duplicate, thresholds)]
    /\ pc' = [pc EXCEPT ![h] = IF request[h].kind = "event" THEN "publish" ELSE "answer"]
    /\ UNCHANGED <<invoice, serving, thresholds, request, published, acked, faults>>

\* GroqProvider.complete(): a GroqError and an empty completion are LLMProviderErrors.
CompleteRaises(reply) == reply.kind \in {"error", "empty"}

\* ClassifyNode: an error, or a text that is no Recommendation, is an AgentError, for
\* which Decider has no recommendation.
Classified(reply) == IF CompleteRaises(reply) THEN NoRecommendation ELSE reply.parsed

Replied(h, reply) ==
    pc[h] = "calling" /\ slots' = Released(h, FALSE) /\ Decided(h, Classified(reply))

Leave(h) ==
    /\ pc' = [pc EXCEPT ![h] = "idle"]
    /\ request' = [request EXCEPT ![h] = NoRequest]
    /\ outcome' = [outcome EXCEPT ![h] = NoOutcome]
    /\ UNCHANGED <<invoice, serving, thresholds>>

\* Mutant: the deadline's error is not one of the provider's and becomes a 500.
TimeoutUnhandled(h) ==
    /\ pc[h] \in {"queued", "calling"} /\ slots' = Released(h, TRUE)
    /\ Leave(h) /\ UNCHANGED <<published, acked, faults>>
\* The deadline passes, in the queue or in the call: BulkheadTimeoutError.
Timeout(h) ==
    pc[h] \in {"queued", "calling"} /\ slots' = Released(h, TRUE) /\ Decided(h, NoRecommendation)

\* An exception that is not one of the provider's leaves run() and becomes a 500.
Raise(h) ==
    /\ pc[h] = "calling"
    /\ faults < MaxFaults /\ faults' = faults + 1
    /\ slots' = Released(h, FALSE)
    /\ Leave(h)
    /\ UNCHANGED <<published, acked>>

-----------------------------------------------------------------------------
\* Mutant: the event is acknowledged whether or not its outcome went out.
AckAlways(e, ok) == acked' = acked \cup {e}
\* A publish that reports an error raises, and the 500 leaves the event unacknowledged.
AckPublished(e, ok) == IF ok THEN acked' = acked \cup {e} ELSE UNCHANGED acked

\* publish_event(): accepted; or failed, although the broker may have it.
Publish(h) ==
    /\ pc[h] = "publish"
    /\ \/ published' = [published EXCEPT ![request[h].event] = outcome[h]]
          /\ AckPublished(request[h].event, TRUE) /\ UNCHANGED faults
       \/ faults < MaxFaults /\ faults' = faults + 1
          /\ AckPublished(request[h].event, FALSE)
          /\ \/ published' = [published EXCEPT ![request[h].event] = outcome[h]]
             \/ UNCHANGED published
    /\ Leave(h)
    /\ UNCHANGED slots

Answer(h) ==
    /\ pc[h] = "answer"
    /\ Leave(h)
    /\ UNCHANGED <<slots, published, acked, faults>>

Next ==
    \/ Start \/ Crash
    \/ \E h \in Handlers, e \in Events :
          Receive(h, e) \/ \E is_duplicate \in BOOLEAN : Post(h, e, is_duplicate)
    \/ \E h \in Handlers :
          \/ Acquire(h) \/ Timeout(h) \/ Raise(h) \/ Publish(h) \/ Answer(h)
          \/ \E reply \in Replies : Replied(h, reply)

Spec == Init /\ [][Next]_vars

\* Dapr goes on delivering an event that is not acknowledged, deadlines pass and
\* the event loop runs what is ready. The LLM owes nothing, not even an error.
\* A delivery and a post compete for idle handlers, which stand for new
\* coroutines: Dapr's delivery is served whenever one is free infinitely often.
Fairness ==
    /\ WF_vars(Start)
    /\ \A e \in Events : SF_vars(e \notin acked /\ \E h \in Handlers : Receive(h, e))
    /\ \A h \in Handlers : WF_vars(Timeout(h)) /\ WF_vars(Publish(h)) /\ WF_vars(Answer(h))

FairSpec == Spec /\ Fairness

-----------------------------------------------------------------------------
(* Properties                                                              *)

\* Type correctness of the service's state.
TypeOK ==
    /\ serving \in BOOLEAN
    /\ pc \in [Handlers -> Steps]
    /\ request \in [Handlers -> Requests \cup {NoRequest}]
    /\ slots \in 0..MaxConcurrency
    /\ acked \subseteq Events
    /\ faults \in 0..MaxFaults
    /\ \A h \in Handlers : (request[h] = NoRequest) <=> (pc[h] = "idle")

\* o is published for e, or held by a handler that serves e.
OutcomeFor(e, o) ==
    \/ o = published[e]
    \/ \E h \in Handlers : pc[h] \in {"publish", "answer"} /\ request[h].event = e /\ o = outcome[h]

KnownOutcomes == {published[e] : e \in Events} \cup {outcome[h] : h \in Handlers}

\* The agent wants the invoice approved and is sure enough. The rules without a field
\* (GLOBAL-FRAUD, MEAL-02, MEAL-03, TRAVEL-03) reach the router only as its refusal.
AgentApproves(rec, th) ==
    rec # NoRecommendation /\ rec.recommendation = "approve" /\ rec.confidence >= th.min_confidence

\* What policy.md asks of the fields an invoice has: the hard stops GLOBAL-VENDOR,
\* GLOBAL-FX, GLOBAL-MATH, GLOBAL-RECEIPT and MEAL-01's attendee count, the ceiling, and
\* the caps of the categories; MEAL-01's cap only for meals that somebody attended.
FieldsAllow(inv, th) ==
    /\ inv.vendor_known /\ inv.currency = "USD" /\ MathReconciles(inv)
    /\ inv.receipt_present \/ inv.total <= th.receipt_required_above
    /\ inv.total <= th.ceiling
    /\ inv.category = "meals" =>
          /\ inv.attendees # NoCount
          /\ inv.attendees <= 0 \/ inv.total <= th.meal_per_attendee_cap * inv.attendees
    /\ inv.category = "saas" => inv.total <= th.saas_monthly_cap
    /\ inv.category = "hardware" => inv.total <= th.hardware_cap
    /\ inv.category = "travel" => inv.total <= th.travel_manager_approval_threshold

\* Whatever the LLM answers or does not answer, a request is auto-approved only when
\* the agent approves and every rule with a field is met under the thresholds in force
\* when it was decided (router.py, M12). This is not all of policy.md's section 6: what
\* has no field is the agent's to see, and MealsWithinCap shows what no attendees do.
AutonomyIsEarned ==
    \A e \in Events, o \in KnownOutcomes :
        OutcomeFor(e, o) /\ o # NoOutcome /\ o.decision.route = "auto_approve"
            => AgentApproves(o.recommendation, o.under) /\ FieldsAllow(invoice[e], o.under)

\* A published outcome without a recommendation, be it that the LLM failed, hung or
\* found no slot in time, sends the invoice to a human (decider.py, DecisionOutcome).
AgentFailureEscalates ==
    \A e \in Events :
        published[e] # NoOutcome /\ published[e].recommendation = NoRecommendation
            => published[e].decision.route = "human_review"

\* The bulkhead neither leaks a slot nor lends one twice, whichever of the reply, an
\* error, an exception and the deadline ends the call (shared/bulkhead.py).
SlotsAreConserved ==
    slots + Cardinality({h \in Handlers : pc[h] = "calling"}) = MaxConcurrency

\* Whichever policy the service starts with, whatever in it resembles the invoice and
\* whichever of its sections share an id, the agent reads the global rules, the autonomy
\* thresholds and the rules of the invoice's category (policy_index.py, "guarantees").
PromptHoldsTheRules ==
    [][Start => \A e \in Events, policy \in Policies, similar \in Similarities,
                   raised \in BOOLEAN :
          RetrievalContract(invoice[e].category, policy,
              ToSet(PromptSections(invoice[e].category, policy, similar, raised)))]_vars

\* The claim of policy.md MEAL-01, refuted: a meal nobody reviews costs at most the
\* cap for each attendee.
MealsWithinCap ==
    \A e \in Events :
        /\ published[e] # NoOutcome /\ published[e].decision.route = "auto_approve"
        /\ invoice[e].category = "meals"
        => invoice[e].total <= published[e].under.meal_per_attendee_cap * invoice[e].attendees

\* Every event is decided, its decision published and only then acknowledged, though
\* the LLM may hang in every call and a publish fail: deadlines free the bulkhead and the
\* handlers (bulkhead_llm_provider.py, app.py).
EveryEventIsDecided == \A e \in Events : <>[](e \in acked /\ published[e] # NoOutcome)
=============================================================================
