------------------------------- MODULE Topics -------------------------------
(***************************************************************************)
(* The topics Notification and Audit read: decision.completed, from Intake  *)
(* and Decision; approval.completed; payment.completed.  An event stays     *)
(* deliverable, in any order and any number of times (Dapr pub/sub).        *)
(*                                                                          *)
(* The producers are coarse here, each no more than what its own module     *)
(* shows it may announce when no two requests for an invoice overlap.       *)
(***************************************************************************)
EXTENDS Integers, FiniteSets

CONSTANTS
    TrackingIds,
    MaxDecisions, \* bound: different decisions announced of one invoice
    MaxFaults     \* bound: failed store calls of the subscribers

ASSUME TopicsAssumption == MaxDecisions \in Nat /\ MaxFaults \in Nat

VARIABLES
    events,  \* what was published
    faults

Fault == faults < MaxFaults /\ faults' = faults + 1

Routes == {"auto_approve", "human_review", "reject", "duplicate"}

\* Every event carries a copy of the decision (its route stands for the copy).
Event ==
    [tid: TrackingIds, topic: {"decision"}, route: Routes, resolution: {"none"}] \cup
    [tid: TrackingIds, topic: {"approval"}, route: {"human_review"},
     resolution: {"approved", "rejected"}] \cup
    [tid: TrackingIds, topic: {"payment"}, route: {"auto_approve", "human_review"},
     resolution: {"completed", "failed"}]

Announced(t, topic) == {e \in events : e.tid = t /\ e.topic = topic}

Announce(t, topic, route, resolution) ==
    events' = events \cup
        {[tid |-> t, topic |-> topic, route |-> route, resolution |-> resolution]}

\* Decision decides, and may decide otherwise when invoice.submitted comes back.
Decide(t, route) ==
    /\ Cardinality(Announced(t, "decision")) < MaxDecisions
    /\ Announce(t, "decision", route, "none")

\* A human resolves an escalated invoice, once.
Resolve(t, resolution) ==
    /\ \E e \in events : e.tid = t /\ e.route = "human_review"
    /\ Announced(t, "approval") = {}
    /\ Announce(t, "approval", "human_review", resolution)

\* Payment ends an approved invoice, once; the record keeps the decision that
\* triggered it.
Pay(t, resolution) ==
    /\ Announced(t, "payment") = {}
    /\ \E e \in events :
          /\ e.tid = t /\ (e.route = "auto_approve" \/ e.resolution = "approved")
          /\ Announce(t, "payment", e.route, resolution)

Produce ==
    \E t \in TrackingIds :
        \/ \E route \in Routes : Decide(t, route)
        \/ \E resolution \in {"approved", "rejected"} : Resolve(t, resolution)
        \/ \E resolution \in {"completed", "failed"} : Pay(t, resolution)
=============================================================================
