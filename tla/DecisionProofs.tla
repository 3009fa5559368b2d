--------------------------- MODULE DecisionProofs ---------------------------
(***************************************************************************)
(* TLAPS proofs about Decision: the router's ceiling for every invoice,     *)
(* recommendation and configuration, and the bulkhead for any number of     *)
(* requests and slots.                                                      *)
(***************************************************************************)
EXTENDS Decision, FiniteSetTheorems, WellFoundedInduction, TLAPS

\* The thresholds and recommendations the gates' comparisons make sense of.
IsThresholds(th) == Numbers \subseteq DOMAIN th /\ \A field \in Numbers : th[field] \in Int
IsRecommendation(rec) == rec \in Recommendations \cup {NoRecommendation}

\* Each threshold the gates compare with is a number.
LEMMA ThresholdsAreNumbers ==
    ASSUME NEW th, IsThresholds(th)
    PROVE  /\ th.ceiling \in Int /\ th.min_confidence \in Int
           /\ th.receipt_required_above \in Int /\ th.meal_per_attendee_cap \in Int
           /\ th.saas_monthly_cap \in Int /\ th.hardware_cap \in Int
           /\ th.travel_manager_approval_threshold \in Int
BY DEF IsThresholds, Numbers

(* An invoice no hard stop and no cap speaks against meets the rules that   *)
(* have a field.                                                            *)
LEMMA NothingAgainst ==
    ASSUME NEW inv, IsInvoice(inv), NEW th, IsThresholds(th),
           HardStops(inv, th) = {}, Violations(inv, th) = {}
    PROVE  FieldsAllow(inv, th)
<1>1. ~("GLOBAL-VENDOR" \in HardStops(inv, th)) /\ ~("GLOBAL-FX" \in HardStops(inv, th))
      /\ ~("GLOBAL-RECEIPT" \in HardStops(inv, th)) /\ ~("MEAL-01" \in HardStops(inv, th))
      /\ ~("GLOBAL-MATH" \in HardStops(inv, th))
  OBVIOUS
<1>2. /\ inv.vendor_known /\ inv.currency = "USD" /\ MathReconciles(inv)
      /\ inv.receipt_present \/ ~(inv.total > th.receipt_required_above)
      /\ inv.category = "meals" => inv.attendees # NoCount
  BY <1>1 DEF HardStops
<1>3. CapViolations(inv, th) = {} /\ ~(inv.total > th.ceiling)
  BY DEF Violations
<1>4. ~("MEAL-01" \in CapViolations(inv, th)) /\ ~("SAAS-01" \in CapViolations(inv, th))
      /\ ~("HW-02" \in CapViolations(inv, th)) /\ ~("TRAVEL-02" \in CapViolations(inv, th))
  BY <1>3
<1>5. /\ inv.category = "meals" => ~OverMealCap(inv, th)
      /\ inv.category = "saas" => ~(inv.total > th.saas_monthly_cap)
      /\ inv.category = "hardware" => ~(inv.total > th.hardware_cap)
      /\ inv.category = "travel" => ~(inv.total > th.travel_manager_approval_threshold)
  BY <1>4 DEF CapViolations
<1>6. ASSUME inv.category = "meals"
      PROVE  inv.attendees <= 0 \/ inv.total <= th.meal_per_attendee_cap * inv.attendees
  <2>1. PICK most \in Int : most = th.meal_per_attendee_cap * inv.attendees
    BY <1>2, <1>6, ThresholdsAreNumbers DEF IsInvoice
  <2>2. ~(inv.attendees > 0) \/ ~(inv.total > most)
    BY <1>2, <1>5, <1>6, <2>1 DEF OverMealCap
  <2> QED
    BY <1>2, <1>6, <2>1, <2>2 DEF IsInvoice
<1> QED
  BY <1>2, <1>3, <1>5, <1>6, ThresholdsAreNumbers DEF IsInvoice, FieldsAllow

(* M12, for every input: route_decision() returns AUTO_APPROVE only when    *)
(* the agent approves and the rules that have a field are met (router.py).  *)
THEOREM ProvableCeiling ==
    ASSUME NEW inv, IsInvoice(inv), NEW rec, IsRecommendation(rec),
           NEW is_duplicate \in BOOLEAN, NEW th, IsThresholds(th),
           RouteDecision(inv, rec, is_duplicate, th).route = "auto_approve"
    PROVE  AgentApproves(rec, th) /\ FieldsAllow(inv, th)
<1>1. ~is_duplicate /\ HardStops(inv, th) = {} /\ Violations(inv, th) = {}
      /\ ~Rejects(rec, th) /\ ~Objects(rec, th)
  BY DEF RouteDecision, DuplicateDecision, RejectDecision, ToHuman, DecisionOf
<1>2. /\ rec # NoRecommendation /\ rec.recommendation = "approve"
      /\ rec.confidence >= th.min_confidence
  BY <1>1, ContractsAssumption, ThresholdsAreNumbers
  DEF Rejects, Objects, IsRecommendation, ValidRecommendation
<1> QED
  BY <1>1, <1>2, NothingAgainst DEF AgentApproves

(* Without a recommendation nothing is approved, rejected or, for an event, *)
(* called a duplicate (decider.py, the AgentError branch).                  *)
LEMMA NoRecommendationIsHuman ==
    ASSUME NEW inv, NEW th
    PROVE  RouteDecision(inv, NoRecommendation, FALSE, th).route = "human_review"
BY DEF RouteDecision, Rejects, Objects, ToHuman, DecisionOf

(* merge_thresholds() always yields numbers.                                *)
LEMMA LoadedAreNumbers ==
    ASSUME NEW th \in LoadedThresholds
    PROVE  IsThresholds(th)
<1>1. PICK raw \in RawConfigs : th = MergeThresholds(raw, DefaultThresholds)
  BY DEF LoadedThresholds
<1>2. \A field \in Numbers \cap DOMAIN raw : raw[field] = Unparseable \/ raw[field] \in Int
  <2>1. DOMAIN <<>> = 1..0
    OBVIOUS
  <2>2. Numbers \cap 1..0 = {}
    OBVIOUS
  <2> QED
    BY <2>1, <2>2, ThresholdsAssumption DEF RawConfigs
<1> QED
  BY <1>1, <1>2, ThresholdsAssumption DEF IsThresholds, MergeThresholds

-----------------------------------------------------------------------------
\* An outcome for event e: reached from its invoice under numeric thresholds.
Reached(e, o, is_duplicate) ==
    \E rec \in Recommendations \cup {NoRecommendation} : \E th :
        IsThresholds(th) /\ o = OutcomeOf(invoice[e], rec, is_duplicate, th)

Calling == {h \in Handlers : pc[h] = "calling"}

\* Only posts carry the duplicate flag, and only events are published.
RequestsOK ==
    \A h \in Handlers :
        /\ pc[h] = "publish" => request[h].kind = "event"
        /\ pc[h] # "idle" /\ request[h].kind = "event" => ~request[h].is_duplicate

\* Every outcome that is held or published was reached for its own event.
OutcomesOK ==
    /\ \A h \in Handlers :
          pc[h] \in {"publish", "answer"} =>
              Reached(request[h].event, outcome[h], request[h].is_duplicate)
    /\ \A e \in Events : published[e] = NoOutcome \/ Reached(e, published[e], FALSE)

FunctionsOK ==
    /\ invoice \in [Events -> Invoices]
    /\ DOMAIN outcome = Handlers /\ DOMAIN published = Events
    /\ IsThresholds(thresholds)

DecisionInv == TypeOK /\ FunctionsOK /\ SlotsAreConserved /\ RequestsOK /\ OutcomesOK

\* The service starts with every slot free and nothing published.
LEMMA InvInit == Init => DecisionInv
<1> SUFFICES ASSUME Init PROVE DecisionInv
  OBVIOUS
<1>1. TypeOK
  <2>1. pc \in [Handlers -> Steps] /\ request \in [Handlers -> Requests \cup {NoRequest}]
        /\ \A h \in Handlers : (request[h] = NoRequest) <=> (pc[h] = "idle")
    BY DEF Init, Steps
  <2>2. slots \in 0..MaxConcurrency /\ faults \in 0..MaxFaults
    BY DecisionAssumption DEF Init
  <2> QED
    BY <2>1, <2>2 DEF Init, TypeOK
<1>2. FunctionsOK
  BY ThresholdsAssumption DEF Init, FunctionsOK, IsThresholds
<1>3. SlotsAreConserved
  <2>1. {h \in Handlers : pc[h] = "calling"} = {}
    BY DEF Init
  <2> QED
    BY <2>1, FS_EmptySet, DecisionAssumption DEF Init, SlotsAreConserved
<1>4. RequestsOK /\ OutcomesOK
  BY DEF Init, RequestsOK, OutcomesOK
<1> QED
  BY <1>1, <1>2, <1>3, <1>4 DEF DecisionInv

-----------------------------------------------------------------------------
(* The bulkhead's books, step by step.                                      *)

\* The calls under way can be counted.
LEMMA CallingIsFinite == IsFiniteSet(Calling) /\ Cardinality(Calling) \in Nat
BY DecisionAssumption, FS_Subset, FS_CardinalityType DEF Calling

\* A step that leaves the calls under way and the semaphore alone.
LEMMA SameCalls ==
    ASSUME DecisionInv, slots' = slots,
           \A h \in Handlers : pc'[h] = "calling" <=> pc[h] = "calling"
    PROVE  SlotsAreConserved' /\ slots' \in 0..MaxConcurrency
<1>1. Calling' = Calling
  BY DEF Calling
<1> QED
  BY <1>1 DEF DecisionInv, SlotsAreConserved, Calling, TypeOK

\* A handler that calls gives its slot back, another one keeps it so.
LEMMA ReleasedSlots ==
    ASSUME DecisionInv, NEW h \in Handlers, NEW step \in Steps \ {"calling"},
           pc' = [pc EXCEPT ![h] = step],
           slots' = IF pc[h] = "calling" THEN slots + 1 ELSE slots
    PROVE  SlotsAreConserved' /\ slots' \in 0..MaxConcurrency
<1>1. CASE pc[h] # "calling"
  BY <1>1, SameCalls DEF DecisionInv, TypeOK
<1>2. CASE pc[h] = "calling"
  <2>1. Calling' = Calling \ {h} /\ h \in Calling
    BY <1>2 DEF Calling, DecisionInv, TypeOK
  <2>2. Cardinality(Calling') = Cardinality(Calling) - 1
    BY <2>1, CallingIsFinite, FS_RemoveElement
  <2>3. Cardinality(Calling') \in Nat
    BY <2>1, CallingIsFinite, FS_RemoveElement, FS_CardinalityType
  <2>4. slots + Cardinality(Calling) = MaxConcurrency /\ slots \in 0..MaxConcurrency
    BY DEF DecisionInv, SlotsAreConserved, Calling, TypeOK
  <2>5. slots' + Cardinality(Calling') = MaxConcurrency /\ slots' \in 0..MaxConcurrency
    BY <1>2, <2>2, <2>3, <2>4, CallingIsFinite, DecisionAssumption
  <2> QED
    BY <2>5 DEF SlotsAreConserved, Calling
<1> QED
  BY <1>1, <1>2

-----------------------------------------------------------------------------
(* The steps of a request.                                                  *)

\* Taking up a request, waiting for a slot and taking one touch no outcome.
LEMMA BeginInv ==
    ASSUME DecisionInv, NEW h \in Handlers, NEW r \in Requests, Begin(h, r),
           r.kind = "event" => ~r.is_duplicate
    PROVE  DecisionInv'
<1>1. r # NoRequest
  BY DecisionAssumption DEF Requests
<1>2. TypeOK' /\ SlotsAreConserved'
  <2>1. SlotsAreConserved' /\ slots' \in 0..MaxConcurrency
    BY SameCalls DEF Begin, DecisionInv, TypeOK
  <2> QED
    BY <1>1, <2>1 DEF Begin, DecisionInv, TypeOK, Steps
<1>3. FunctionsOK'
  BY DEF Begin, DecisionInv, FunctionsOK
<1>4. RequestsOK'
  BY DEF Begin, DecisionInv, TypeOK, RequestsOK
<1>5. OutcomesOK'
  BY DEF Begin, DecisionInv, TypeOK, OutcomesOK, Reached
<1> QED
  BY <1>2, <1>3, <1>4, <1>5 DEF DecisionInv

\* A request that takes a slot is one more call under way.
LEMMA AcquireInv ==
    ASSUME DecisionInv, NEW h \in Handlers, Acquire(h)
    PROVE  DecisionInv'
<1>1. SlotsAreConserved' /\ slots' \in 0..MaxConcurrency
  <2>1. Calling' = Calling \cup {h} /\ h \notin Calling
    BY DEF Acquire, Calling, DecisionInv, TypeOK
  <2>2. Cardinality(Calling') = Cardinality(Calling) + 1
    BY <2>1, CallingIsFinite, FS_AddElement
  <2>3. slots + Cardinality(Calling) = MaxConcurrency /\ slots \in 0..MaxConcurrency
    BY DEF DecisionInv, SlotsAreConserved, Calling, TypeOK
  <2>4. slots' + Cardinality(Calling') = MaxConcurrency /\ slots' \in 0..MaxConcurrency
    BY <2>2, <2>3, CallingIsFinite, DecisionAssumption DEF Acquire
  <2> QED
    BY <2>4 DEF SlotsAreConserved, Calling
<1>2. TypeOK'
  BY <1>1 DEF Acquire, DecisionInv, TypeOK, Steps
<1>3. FunctionsOK'
  BY DEF Acquire, DecisionInv, FunctionsOK
<1>4. RequestsOK'
  BY DEF Acquire, DecisionInv, TypeOK, RequestsOK
<1>5. OutcomesOK'
  BY DEF Acquire, DecisionInv, TypeOK, OutcomesOK, Reached
<1> QED
  BY <1>1, <1>2, <1>3, <1>4, <1>5 DEF DecisionInv

\* However the LLM call ends, the outcome is reached from the request's invoice.
LEMMA DecidedInv ==
    ASSUME DecisionInv, NEW h \in Handlers, NEW rec \in Recommendations \cup {NoRecommendation},
           pc[h] \in {"queued", "calling"}, Decided(h, rec),
           slots' = IF pc[h] = "calling" THEN slots + 1 ELSE slots
    PROVE  DecisionInv'
<1>1. request[h] \in Requests
  BY DEF DecisionInv, TypeOK
<1>2. SlotsAreConserved' /\ slots' \in 0..MaxConcurrency
  <2>1. CASE request[h].kind = "event"
    BY <2>1, ReleasedSlots DEF Decided, Steps
  <2>2. CASE request[h].kind # "event"
    BY <2>2, ReleasedSlots DEF Decided, Steps
  <2> QED
    BY <2>1, <2>2
<1>3. TypeOK'
  BY <1>2 DEF Decided, DecisionInv, TypeOK, Steps
<1>4. FunctionsOK'
  BY DEF Decided, DecisionInv, FunctionsOK
<1>5. RequestsOK'
  BY <1>1 DEF Decided, DecisionInv, TypeOK, RequestsOK, Requests
<1>6. OutcomesOK'
  <2>1. outcome'[h] = OutcomeOf(invoice[request[h].event], rec, request[h].is_duplicate, thresholds)
    BY DEF Decided, DecisionInv, FunctionsOK
  <2>2. Reached(request[h].event, outcome[h], request[h].is_duplicate)'
    BY <2>1 DEF Decided, DecisionInv, FunctionsOK, Reached
  <2>3. ASSUME NEW g \in Handlers, g # h, pc'[g] \in {"publish", "answer"}
        PROVE  Reached(request[g].event, outcome[g], request[g].is_duplicate)'
    BY <2>3 DEF Decided, DecisionInv, TypeOK, FunctionsOK, OutcomesOK, Reached
  <2>4. \A e \in Events : (published[e] = NoOutcome \/ Reached(e, published[e], FALSE))'
    BY DEF Decided, DecisionInv, OutcomesOK, Reached
  <2> QED
    BY <2>2, <2>3, <2>4 DEF OutcomesOK
<1> QED
  BY <1>2, <1>3, <1>4, <1>5, <1>6 DEF DecisionInv

\* Leaving keeps the other handlers' outcomes; what is published is checked apart.
LEMMA LeaveInv ==
    ASSUME DecisionInv, NEW h \in Handlers, Leave(h),
           slots' = IF pc[h] = "calling" THEN slots + 1 ELSE slots,
           acked' \subseteq Events, faults' \in 0..MaxFaults, DOMAIN published' = Events,
           \A e \in Events : (published[e] = NoOutcome \/ Reached(e, published[e], FALSE))'
    PROVE  DecisionInv'
<1>1. SlotsAreConserved' /\ slots' \in 0..MaxConcurrency
  BY ReleasedSlots DEF Leave, Steps
<1>2. TypeOK'
  BY <1>1 DEF Leave, DecisionInv, TypeOK, Steps
<1>3. FunctionsOK'
  BY DEF Leave, DecisionInv, FunctionsOK
<1>4. RequestsOK'
  BY DEF Leave, DecisionInv, TypeOK, RequestsOK
<1>5. OutcomesOK'
  <2>1. ASSUME NEW i \in Handlers, pc'[i] \in {"publish", "answer"}
        PROVE  pc'[i] = pc[i] /\ request'[i] = request[i] /\ outcome'[i] = outcome[i]
    BY <2>1 DEF Leave, DecisionInv, TypeOK, FunctionsOK
  <2>2. invoice' = invoice
    BY DEF Leave
  <2>3. OutcomesOK
    BY DEF DecisionInv
  <2>4. ASSUME NEW i \in Handlers, pc'[i] \in {"publish", "answer"}
        PROVE  Reached(request[i].event, outcome[i], request[i].is_duplicate)'
    BY <2>1, <2>2, <2>3, <2>4 DEF OutcomesOK, Reached
  <2> QED
    BY <2>4 DEF OutcomesOK
<1> QED
  BY <1>1, <1>2, <1>3, <1>4, <1>5 DEF DecisionInv

\* An exception gives the slot back and publishes nothing.
LEMMA RaiseInv ==
    ASSUME DecisionInv, NEW h \in Handlers, Raise(h)
    PROVE  DecisionInv'
<1>1. faults' \in 0..MaxFaults /\ acked' \subseteq Events
  BY DecisionAssumption DEF Raise, DecisionInv, TypeOK
<1>2. \A e \in Events : (published[e] = NoOutcome \/ Reached(e, published[e], FALSE))'
  BY DEF Raise, Leave, DecisionInv, OutcomesOK, Reached
<1> QED
  BY <1>1, <1>2, LeaveInv DEF Raise, Released, DecisionInv, FunctionsOK

\* What is published was reached for the event it is published for.
LEMMA PublishInv ==
    ASSUME DecisionInv, NEW h \in Handlers, Publish(h)
    PROVE  DecisionInv'
<1>1. request[h] \in Requests /\ request[h].event \in Events
  BY DEF Publish, DecisionInv, TypeOK, Requests
<1>2. Reached(request[h].event, outcome[h], FALSE)
  <2>1. ~request[h].is_duplicate /\ request[h].is_duplicate \in BOOLEAN
    BY <1>1 DEF Publish, DecisionInv, RequestsOK, Requests
  <2> QED
    BY <2>1 DEF Publish, DecisionInv, OutcomesOK
<1>3. faults' \in 0..MaxFaults /\ acked' \subseteq Events
  BY <1>1, DecisionAssumption DEF Publish, AckPublished, DecisionInv, TypeOK
<1>4. \/ published' = [published EXCEPT ![request[h].event] = outcome[h]]
      \/ published' = published
  BY DEF Publish
<1>5. \A e \in Events : (published[e] = NoOutcome \/ Reached(e, published[e], FALSE))'
  <2> SUFFICES ASSUME NEW e \in Events
               PROVE  (published[e] = NoOutcome \/ Reached(e, published[e], FALSE))'
    OBVIOUS
  <2>1. invoice' = invoice
    BY DEF Publish, Leave
  <2>2. \/ published'[e] = published[e]
        \/ e = request[h].event /\ published'[e] = outcome[h]
    BY <1>1, <1>4 DEF DecisionInv, FunctionsOK
  <2> QED
    BY <1>2, <2>1, <2>2 DEF DecisionInv, OutcomesOK, Reached
<1>6. DOMAIN published' = Events /\ slots' = slots /\ pc[h] # "calling" /\ Leave(h)
  BY <1>4 DEF Publish, DecisionInv, FunctionsOK
<1> QED
  BY <1>3, <1>5, <1>6, LeaveInv

\* Every step keeps the invariant.
LEMMA StepInv == DecisionInv /\ [Next]_vars => DecisionInv'
<1> SUFFICES ASSUME DecisionInv, [Next]_vars PROVE DecisionInv'
  OBVIOUS
<1>1. CASE Start
  <2>1. SlotsAreConserved' /\ slots' \in 0..MaxConcurrency
    BY <1>1, SameCalls DEF Start
  <2>2. TypeOK'
    BY <1>1 DEF Start, DecisionInv, TypeOK
  <2>3. FunctionsOK'
    BY <1>1, LoadedAreNumbers DEF Start, DecisionInv, FunctionsOK
  <2>4. RequestsOK' /\ OutcomesOK'
    BY <1>1 DEF Start, DecisionInv, RequestsOK, OutcomesOK, Reached
  <2> QED
    BY <2>1, <2>2, <2>3, <2>4 DEF DecisionInv
<1>2. CASE Crash
  <2>1. SlotsAreConserved' /\ slots' \in 0..MaxConcurrency
    <3>1. Calling' = {} /\ Cardinality(Calling') = 0
      BY <1>2, FS_EmptySet DEF Crash, Calling
    <3> QED
      BY <1>2, <3>1, DecisionAssumption DEF Crash, SlotsAreConserved, Calling
  <2>2. TypeOK'
    <3>1. pc' \in [Handlers -> Steps] /\ request' \in [Handlers -> Requests \cup {NoRequest}]
          /\ \A h \in Handlers : (request'[h] = NoRequest) <=> (pc'[h] = "idle")
      BY <1>2 DEF Crash, Steps
    <3>2. faults' \in 0..MaxFaults /\ acked' \subseteq Events
      BY <1>2, DecisionAssumption DEF Crash, DecisionInv, TypeOK
    <3>3. serving' \in BOOLEAN
      BY <1>2 DEF Crash
    <3> QED
      BY <2>1, <3>1, <3>2, <3>3 DEF TypeOK
  <2>3. FunctionsOK'
    BY <1>2, ThresholdsAssumption DEF Crash, DecisionInv, FunctionsOK, IsThresholds
  <2>4. RequestsOK' /\ OutcomesOK'
    BY <1>2 DEF Crash, DecisionInv, RequestsOK, OutcomesOK, Reached
  <2> QED
    BY <2>1, <2>2, <2>3, <2>4 DEF DecisionInv
<1>3. ASSUME NEW h \in Handlers, NEW e \in Events, Receive(h, e) PROVE DecisionInv'
  BY <1>3, BeginInv DEF Receive, Requests
<1>4. ASSUME NEW h \in Handlers, NEW e \in Events, NEW d \in BOOLEAN, Post(h, e, d)
      PROVE  DecisionInv'
  BY <1>4, BeginInv DEF Post, Requests
<1>5. ASSUME NEW h \in Handlers, Acquire(h) PROVE DecisionInv'
  BY <1>5, AcquireInv
<1>6. ASSUME NEW h \in Handlers, NEW reply \in Replies, Replied(h, reply) PROVE DecisionInv'
  <2>1. Classified(reply) \in Recommendations \cup {NoRecommendation}
    BY DEF Replies, GroqReplies, MockReplies, Classified, CompleteRaises
  <2> QED
    BY <1>6, <2>1, DecidedInv DEF Replied, Released
<1>7. ASSUME NEW h \in Handlers, Timeout(h) PROVE DecisionInv'
  BY <1>7, DecidedInv DEF Timeout, Released
<1>8. ASSUME NEW h \in Handlers, Raise(h) PROVE DecisionInv'
  BY <1>8, RaiseInv
<1>9. ASSUME NEW h \in Handlers, Publish(h) PROVE DecisionInv'
  BY <1>9, PublishInv
<1>10. ASSUME NEW h \in Handlers, Answer(h) PROVE DecisionInv'
  <2>1. Leave(h) /\ slots' = slots /\ pc[h] # "calling" /\ UNCHANGED <<published, acked, faults>>
    BY <1>10 DEF Answer
  <2>2. \A e \in Events : (published[e] = NoOutcome \/ Reached(e, published[e], FALSE))'
    BY <2>1 DEF Leave, DecisionInv, OutcomesOK, Reached
  <2> QED
    BY <2>1, <2>2, LeaveInv DEF DecisionInv, TypeOK, FunctionsOK
<1>11. CASE UNCHANGED vars
  BY <1>11 DEF vars, DecisionInv, TypeOK, FunctionsOK, SlotsAreConserved, RequestsOK, OutcomesOK,
     Reached
<1> QED
  BY <1>1, <1>2, <1>3, <1>4, <1>5, <1>6, <1>7, <1>8, <1>9, <1>10, <1>11 DEF Next

\* The inductive invariant: types, the bulkhead's books, and that every outcome was
\* reached from the invoice of its own event under numeric thresholds.
THEOREM Invariance == Spec => []DecisionInv
BY InvInit, StepInv, PTL DEF Spec

-----------------------------------------------------------------------------
(* No slot of the bulkhead is leaked or lent twice (shared/bulkhead.py).    *)
THEOREM BulkheadIsConserved == Spec => []SlotsAreConserved
<1>1. DecisionInv => SlotsAreConserved
  BY DEF DecisionInv
<1> QED
  BY <1>1, Invariance, PTL

\* An outcome that was reached approves only what the agent and the fields allow.
LEMMA ReachedMayApprove ==
    ASSUME FunctionsOK, NEW e \in Events, NEW o, NEW d \in BOOLEAN, Reached(e, o, d),
           o.decision.route = "auto_approve"
    PROVE  AgentApproves(o.recommendation, o.under) /\ FieldsAllow(invoice[e], o.under)
<1>1. IsInvoice(invoice[e])
  BY ContractsAssumption DEF FunctionsOK
<1>2. PICK rec \in Recommendations \cup {NoRecommendation} : \E th :
          IsThresholds(th) /\ o = OutcomeOf(invoice[e], rec, d, th)
  BY DEF Reached
<1>3. PICK th : IsThresholds(th) /\ o = OutcomeOf(invoice[e], rec, d, th)
  BY <1>2
<1>4. o.recommendation = rec /\ o.under = th
      /\ o.decision = RouteDecision(invoice[e], rec, d, th)
  BY <1>3 DEF OutcomeOf
<1> QED
  BY <1>1, <1>2, <1>3, <1>4, ProvableCeiling DEF IsRecommendation

(* Whatever the LLM does, whichever requests overlap, crash or are          *)
(* redelivered, and whatever is configured, nothing is auto-approved that   *)
(* the agent does not approve or a rule with a field forbids (router.py).   *)
THEOREM AutonomyIsAlwaysEarned == Spec => []AutonomyIsEarned
<1>1. DecisionInv => AutonomyIsEarned
  <2> SUFFICES ASSUME DecisionInv, NEW e \in Events, NEW o \in KnownOutcomes,
                      OutcomeFor(e, o), o # NoOutcome, o.decision.route = "auto_approve"
               PROVE  AgentApproves(o.recommendation, o.under) /\ FieldsAllow(invoice[e], o.under)
    BY DEF AutonomyIsEarned
  <2>1. \E d \in BOOLEAN : Reached(e, o, d)
    <3>1. CASE o = published[e]
      BY <3>1 DEF DecisionInv, OutcomesOK
    <3>2. ASSUME NEW h \in Handlers, pc[h] \in {"publish", "answer"}, request[h].event = e,
                 o = outcome[h]
          PROVE  \E d \in BOOLEAN : Reached(e, o, d)
      <4>1. request[h].is_duplicate \in BOOLEAN
        BY <3>2 DEF DecisionInv, TypeOK, Requests
      <4> QED
        BY <3>2, <4>1 DEF DecisionInv, OutcomesOK
    <3> QED
      BY <3>1, <3>2 DEF OutcomeFor
  <2> QED
    BY <2>1, ReachedMayApprove DEF DecisionInv
<1> QED
  BY <1>1, Invariance, PTL

(* An agent that failed, hung or found no slot leaves the invoice to a      *)
(* human (decider.py, the AgentError branch).                               *)
THEOREM AgentFailureAlwaysEscalates == Spec => []AgentFailureEscalates
<1>1. DecisionInv => AgentFailureEscalates
  <2> SUFFICES ASSUME DecisionInv, NEW e \in Events, published[e] # NoOutcome,
                      published[e].recommendation = NoRecommendation
               PROVE  published[e].decision.route = "human_review"
    BY DEF AgentFailureEscalates
  <2>1. Reached(e, published[e], FALSE)
    BY DEF DecisionInv, OutcomesOK
  <2>2. PICK rec \in Recommendations \cup {NoRecommendation} : \E th :
            published[e] = OutcomeOf(invoice[e], rec, FALSE, th)
    BY <2>1 DEF Reached
  <2>3. PICK th : published[e] = OutcomeOf(invoice[e], rec, FALSE, th)
    BY <2>2
  <2>4. rec = NoRecommendation /\ published[e].decision = RouteDecision(invoice[e], rec, FALSE, th)
    BY <2>3 DEF OutcomeOf
  <2> QED
    BY <2>4, NoRecommendationIsHuman
<1> QED
  BY <1>1, Invariance, PTL

\* Every variable of the service stays in its range; an idle handler has no
\* request and a busy one has.
THEOREM DecisionTyped == Spec => []TypeOK
<1>1. DecisionInv => TypeOK BY DEF DecisionInv
<1> QED BY <1>1, Invariance, PTL

-----------------------------------------------------------------------------
(* What the agent reads of the policy.                                      *)

\* A set of natural numbers that is not empty has a least member.
LEMMA LeastMember ==
    ASSUME NEW S, S \subseteq Nat, S # {}
    PROVE  Min(S) \in S
<1>1. PICK x \in S : \A y \in S : ~(<<y, x>> \in OpToRel(<, Nat))
  BY NatLessThanWellFounded, WFMin
<1>2. \A y \in S : ~(y < x) BY <1>1 DEF OpToRel
<1>3. \E z \in S : \A y \in S : z =< y BY <1>2
<1> QED BY <1>3 DEF Min

\* The second loop of the retrieval finds a section of the category if there is one.
LEMMA CategoryIsFound ==
    ASSUME NEW category, NEW policy \in Seq(Section), NEW i \in DOMAIN policy,
           policy[i].title \cap CategoryKeywords(category) # {}
    PROVE  \E n \in DOMAIN policy : /\ policy[n].title \cap CategoryKeywords(category) # {}
                                    /\ CategoryIncluded(category, policy) = {policy[n].id}
<1> DEFINE I == {n \in 1..Len(policy) : policy[n].title \cap CategoryKeywords(category) # {}}
           n == Min(I)
<1>1. DOMAIN policy = 1..Len(policy) OBVIOUS
<1>2. I # {} /\ I \subseteq Nat BY <1>1
<1>3. n \in I BY <1>2, LeastMember
<1>4. CategoryIncluded(category, policy) = IF n = 0 THEN {} ELSE {policy[n].id}
  BY <1>2 DEF CategoryIncluded, SelectInSeq
<1> HIDE DEF n
<1> QED BY <1>1, <1>3, <1>4

\* Whichever policy the service starts with, whatever in it resembles the invoice
\* and whichever of its sections share an id, a prompt holds the rules that every
\* invoice needs and those of its category, if the policy has any (policy_index.py).
THEOREM PromptAlwaysHoldsTheRules == Spec => PromptHoldsTheRules
<1>1. ASSUME NEW category, NEW policy \in Policies, NEW similar, NEW raised \in BOOLEAN
      PROVE  RetrievalContract(category, policy, ToSet(PromptSections(category, policy, similar, raised)))
  <2>1. policy \in Seq(Section) BY DEF Policies, BoundedSeq, SeqOf
  <2> DEFINE prompt == ToSet(PromptSections(category, policy, similar, raised))
             always == {s \in ToSet(policy) : s.title \cap Always # {}}
             own == {s \in ToSet(policy) : s.title \cap CategoryKeywords(category) # {}}
  <2>2. CASE raised
    <3>1. prompt = ToSet(policy) BY <2>2 DEF PromptSections
    <3> QED BY <3>1 DEF RetrievalContract
  <2>3. CASE ~raised
    <3>1. \A n \in DOMAIN policy :
             policy[n].id \in Included(category, policy, similar) => policy[n] \in prompt
      BY <2>3 DEF PromptSections, Retrieve, Restrict, ToSet
    <3>2. always \subseteq prompt
      BY <3>1 DEF Included, AlwaysIncluded, ToSet
    <3>3. ASSUME own # {} PROVE own \cap prompt # {}
      <4>1. PICK i \in DOMAIN policy : policy[i].title \cap CategoryKeywords(category) # {}
        BY <3>3 DEF ToSet
      <4>2. PICK n \in DOMAIN policy : /\ policy[n].title \cap CategoryKeywords(category) # {}
                                       /\ CategoryIncluded(category, policy) = {policy[n].id}
        BY <2>1, <4>1, CategoryIsFound
      <4>3. policy[n] \in prompt BY <3>1, <4>2 DEF Included
      <4>4. policy[n] \in own BY <4>2 DEF ToSet
      <4> QED BY <4>3, <4>4
    <3> QED BY <3>2, <3>3 DEF RetrievalContract
  <2> QED BY <2>2, <2>3
<1> DEFINE Holds == Start => \A e \in Events, policy \in Policies, similar \in Similarities,
                   raised \in BOOLEAN :
          RetrievalContract(invoice[e].category, policy,
              ToSet(PromptSections(invoice[e].category, policy, similar, raised)))
<1>2. Holds BY <1>1
<1>3. [][Holds]_vars BY <1>2, PTL
<1> QED BY <1>3 DEF PromptHoldsTheRules
=============================================================================
