----------------------------- MODULE MCPayment -----------------------------
(* Instances of PaymentSaga for TLC.                                        *)
EXTENDS PaymentSaga, TLC

CONSTANTS t1, t2, t3, t4,   \* tracking ids
          marketing, travel, \* a configured department and one that is not
          Budget             \* what marketing may spend

MCDepartments == {marketing, travel}
MCConfigured == {marketing}
MCTotal == [d \in MCDepartments |-> IF d = marketing THEN Budget ELSE 0]

\* t1 and t2 draw on the same budget; t3's department has none.
MCDept == [t \in TrackingIds |-> IF t = t3 THEN travel ELSE marketing]
MCAmount == [t \in TrackingIds |-> IF t = t1 THEN 1 ELSE 2]

\* Handlers are interchangeable (used in the run without liveness only).
HandlerSymmetry == Permutations(Handlers)

Decided(t, route) == [tid |-> t, topic |-> "decision.completed", verdict |-> route]
Resolved(t, how) == [tid |-> t, topic |-> "approval.completed", verdict |-> how]

\* t1 is auto-approved, t2 goes to a human who approves, t3 to one who approves
\* an invoice of an unconfigured department, and t4 is rejected.
MCEvents == {Decided(t1, "auto_approve"),
             Decided(t2, "human_review"), Resolved(t2, "approved"),
             Resolved(t3, "approved"), Resolved(t4, "rejected")}
MCFewEvents == {Decided(t1, "auto_approve"), Decided(t2, "human_review"),
                Resolved(t2, "approved")}
=============================================================================
