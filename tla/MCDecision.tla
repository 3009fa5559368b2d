----------------------------- MODULE MCDecision -----------------------------
(* Instances of Decision for TLC: invoices on both sides of every gate.     *)
EXTENDS Decision

\* DEFAULT_THRESHOLDS (router/config.py), in dollars and percents.
MCDefaults ==
    [ceiling |-> 250, min_confidence |-> 80, receipt_required_above |-> 25,
     meal_per_attendee_cap |-> 75, saas_monthly_cap |-> 200, hardware_cap |-> 1000,
     travel_manager_approval_threshold |-> 1500, severe_violation_rules |-> {"MEAL-03"}]

\* A value beside one that is no number.
MCConfigurations == {[ceiling |-> 2000, min_confidence |-> Unparseable]}

MCTitles == SUBSET {"global rules", "meals"}

Recommend(type, confidence, rules) ==
    [recommendation |-> type, confidence |-> confidence, cited_rules |-> rules]

MCRecommendations ==
    {Recommend("approve", 79, {}), Recommend("approve", 80, {}),
     Recommend("escalate", 90, {"MEAL-02"}),
     Recommend("reject", 90, {"MEAL-01"}), Recommend("reject", 90, {"MEAL-03"})}

Clean(category, attendees, total) ==
    [category |-> category, attendees |-> attendees, vendor_known |-> TRUE,
     currency |-> "USD", receipt_present |-> TRUE, tax_amount |-> 10,
     line_items |-> <<[quantity |-> 1, unit_price |-> total - 10]>>, total |-> total]

Lunch == Clean("meals", 1, 75)

MCInvoices ==
    {Lunch, Clean("meals", 1, 76), Clean("meals", 0, 200), Clean("meals", NoCount, 75),
     Clean("other", NoCount, 250), Clean("other", NoCount, 251),
     Clean("saas", NoCount, 200), Clean("saas", NoCount, 201),
     Clean("hardware", NoCount, 1000), Clean("hardware", NoCount, 1001),
     Clean("travel", NoCount, 1500), Clean("travel", NoCount, 1501),
     [Lunch EXCEPT !.vendor_known = FALSE], [Lunch EXCEPT !.currency = "EUR"],
     [Lunch EXCEPT !.tax_amount = 9], [Lunch EXCEPT !.receipt_present = FALSE],
     [Clean("other", NoCount, 25) EXCEPT !.receipt_present = FALSE]}
=============================================================================
