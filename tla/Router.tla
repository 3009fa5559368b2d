------------------------------- MODULE Router -------------------------------
(***************************************************************************)
(* The deterministic half of Decision: route_decision(), the only code that *)
(* can return AUTO_APPROVE, and merge_thresholds(), which decides what it   *)
(* enforces (src/services/decision/router, service/dapr_config_loader.py).  *)
(*                                                                          *)
(* Amounts are whole cents and confidences whole percents; the texts of a   *)
(* decision ("reason") and of a recommendation ("reasoning") are left out,  *)
(* and the lists of rules are sets.                                         *)
(***************************************************************************)
EXTENDS Integers, SequencesExt

CONSTANTS
    NoRecommendation,  \* the agent produced none
    NoCount,           \* an invoice without attendees
    Unparseable        \* a configured value that is not a number

Categories == {"meals", "travel", "saas", "hardware", "other"}

\* What the contracts' validation leaves: amounts are any numbers, also negative.
IsInvoice(inv) ==
    /\ inv.category \in Categories
    /\ inv.total \in Int /\ inv.tax_amount \in Int /\ inv.attendees \in Int \cup {NoCount}
ValidRecommendation(rec) ==
    rec.recommendation \in {"approve", "escalate", "reject"} /\ rec.confidence \in 0..100

-----------------------------------------------------------------------------
\* _line_items_total(): an item is [quantity, unit_price].
LineItemsTotal(inv) ==
    FoldLeft(LAMBDA sum, item : sum + item.quantity * item.unit_price, 0, inv.line_items)

MathReconciles(inv) == LineItemsTotal(inv) + inv.tax_amount = inv.total

\* per_attendee > cap, without the division (attendees > 0).
OverMealCap(inv, th) ==
    /\ inv.attendees # NoCount /\ inv.attendees > 0
    /\ inv.total > th.meal_per_attendee_cap * inv.attendees

\* _category_cap_violation(): at most one rule.
CapViolations(inv, th) ==
    {rule \in {"MEAL-01", "SAAS-01", "HW-02", "TRAVEL-02"} :
        \/ rule = "MEAL-01"   /\ inv.category = "meals"    /\ OverMealCap(inv, th)
        \/ rule = "SAAS-01"   /\ inv.category = "saas"     /\ inv.total > th.saas_monthly_cap
        \/ rule = "HW-02"     /\ inv.category = "hardware" /\ inv.total > th.hardware_cap
        \/ rule = "TRAVEL-02" /\ inv.category = "travel"
                              /\ inv.total > th.travel_manager_approval_threshold}

\* Gate 2.
HardStops(inv, th) ==
    {rule \in {"GLOBAL-VENDOR", "GLOBAL-FX", "GLOBAL-RECEIPT", "MEAL-01", "GLOBAL-MATH"} :
        \/ rule = "GLOBAL-VENDOR"  /\ ~inv.vendor_known
        \/ rule = "GLOBAL-FX"      /\ inv.currency # "USD"
        \/ rule = "GLOBAL-RECEIPT" /\ inv.total > th.receipt_required_above
                                   /\ ~inv.receipt_present
        \/ rule = "MEAL-01"        /\ inv.category = "meals" /\ inv.attendees = NoCount
        \/ rule = "GLOBAL-MATH"    /\ ~MathReconciles(inv)}

\* Gate 4.
Violations(inv, th) ==
    CapViolations(inv, th)
        \cup (IF inv.total > th.ceiling THEN {"AUTONOMY-CEILING"} ELSE {})

DecisionOf(route, rules) == [route |-> route, triggered_rules |-> rules]
\* build_duplicate_decision().
DuplicateDecision == DecisionOf("duplicate", {"GLOBAL-DUP"})
ToHuman(rules) == DecisionOf("human_review", rules)

\* Mutant: an unverified reject goes on to the gates for an approval.
RejectsSeverely(rec, th) ==
    /\ rec # NoRecommendation /\ rec.recommendation = "reject"
    /\ rec.cited_rules \cap th.severe_violation_rules # {}
\* Gate 3 ends every recommendation to reject, verified or not.
Rejects(rec, th) == rec # NoRecommendation /\ rec.recommendation = "reject"

RejectDecision(rec, th) ==
    LET severe == rec.cited_rules \cap th.severe_violation_rules
    IN  IF severe # {} THEN DecisionOf("reject", severe) ELSE ToHuman({"AGENT-REJECT-UNVERIFIED"})

\* Mutant: no recommendation is no objection.
ObjectsIfPresent(rec, th) ==
    /\ rec # NoRecommendation
    /\ rec.recommendation = "escalate" \/ rec.confidence < th.min_confidence
\* Gate 5.
Objects(rec, th) ==
    \/ rec = NoRecommendation
    \/ rec.recommendation = "escalate"
    \/ rec.confidence < th.min_confidence

ObjectionRules(rec) ==
    IF rec = NoRecommendation THEN {}
    ELSE IF rec.recommendation = "escalate" THEN rec.cited_rules
    ELSE {"AUTONOMY-CONFIDENCE"}

\* route_decision(): the gates in the order of the code.
RouteDecision(inv, rec, is_duplicate, th) ==
    IF is_duplicate THEN DuplicateDecision
    ELSE IF HardStops(inv, th) # {} THEN ToHuman(HardStops(inv, th))
    ELSE IF Rejects(rec, th) THEN RejectDecision(rec, th)
    ELSE IF Violations(inv, th) # {} THEN ToHuman(Violations(inv, th))
    ELSE IF Objects(rec, th) THEN ToHuman(ObjectionRules(rec))
    ELSE DecisionOf("auto_approve", {})

-----------------------------------------------------------------------------
\* merge_thresholds(): each field falls back by itself. `configured` maps the
\* keys the configuration store holds to their values.
MergeThresholds(configured, fallback) ==
    [field \in DOMAIN fallback |->
        IF field \in DOMAIN configured /\ configured[field] # Unparseable
        THEN configured[field]
        ELSE fallback[field]]
=============================================================================
