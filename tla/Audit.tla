------------------------------- MODULE Audit -------------------------------
(***************************************************************************)
(* The Audit service: one row per tracking id, enriched by each event of    *)
(* three topics in whatever order they arrive (src/services/audit).  A      *)
(* delivery is one INSERT ... ON CONFLICT DO UPDATE, which Postgres         *)
(* executes as a whole, so handlers have no steps of their own.             *)
(***************************************************************************)
EXTENDS Topics

VARIABLES
    rows,      \* audit_trail
    recorded   \* events answered with 200

audit == <<rows, recorded>>

\* The base columns (route stands for them all), then those of each event.
NoRow == [route |-> "none", decided |-> FALSE, approval |-> "none", payment |-> "none"]
Rows == [route: Routes \cup {"none"}, decided: BOOLEAN,
         approval: {"none", "approved", "rejected"}, payment: {"none", "completed", "failed"}]

AuditInit ==
    /\ rows = [t \in TrackingIds |-> NoRow]
    /\ recorded = {}

\* Mutant: the statement writes every column, NULL where the event has none.
OwnColumnsOrNull(row, e) ==
    [decided  |-> e.topic = "decision",
     approval |-> IF e.topic = "approval" THEN e.resolution ELSE "none",
     payment  |-> IF e.topic = "payment" THEN e.resolution ELSE "none"]
\* The columns that only one event carries: its statement SETs no other one.
OwnColumns(row, e) ==
    [decided  |-> row.decided \/ e.topic = "decision",
     approval |-> IF e.topic = "approval" THEN e.resolution ELSE row.approval,
     payment  |-> IF e.topic = "payment" THEN e.resolution ELSE row.payment]

\* The columns that every event writes, from its copy of the decision.
BaseColumns(e) == [route |-> e.route]

Enriched(row, e) ==
    LET own == OwnColumns(row, e) IN
    [route |-> BaseColumns(e).route, decided |-> own.decided,
     approval |-> own.approval, payment |-> own.payment]

Upsert(e) == rows' = [rows EXCEPT ![e.tid] = Enriched(@, e)]

\* Mutant: the subscription answers 200 whatever became of the statement.
AcknowledgedAlways(e, ok) == recorded' = recorded \cup {e}
Acknowledged(e, ok) == IF ok THEN recorded' = recorded \cup {e} ELSE UNCHANGED recorded

\* A delivery of e. A failed statement may have been executed, and is a 500.
Record(e) ==
    \/ Upsert(e) /\ Acknowledged(e, TRUE) /\ UNCHANGED faults
    \/ /\ Fault
       /\ Upsert(e) \/ UNCHANGED rows
       /\ Acknowledged(e, FALSE)

-----------------------------------------------------------------------------
(* get_summary(): the dashboard. Where the code counts the rows of a bucket *)
(* or adds up their totals, the model keeps the set of them.                *)

Known == {t \in TrackingIds : rows[t] # NoRow}

\* One bucket for each route and resolution that some row has.
RouteSummary ==
    {[route |-> k[1], approval |-> k[2],
      ids |-> {t \in Known : rows[t].route = k[1] /\ rows[t].approval = k[2]}] :
        k \in {<<rows[t].route, rows[t].approval>> : t \in Known}}

Pooled(buckets) == UNION {b.ids : b \in buckets}

CountedAs(route) == Pooled({b \in RouteSummary : b.route = route})

MoneyAutoApproved == Pooled({b \in RouteSummary : b.route = "auto_approve"})

MoneyHumanApproved ==
    Pooled({b \in RouteSummary : b.route = "human_review" /\ b.approval = "approved"})

\* total_invoices, counts_by_route (with the two rates) and the money.
Summary ==
    [total      |-> Pooled(RouteSummary),
     counts     |-> [route \in Routes |-> CountedAs(route)],
     moneyAuto  |-> MoneyAutoApproved,
     moneyHuman |-> MoneyHumanApproved]
=============================================================================
