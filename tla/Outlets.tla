------------------------------ MODULE Outlets ------------------------------
(***************************************************************************)
(* Notification and Audit side by side: the two ends of every topic.  They  *)
(* share the events and nothing else; the bound on failed calls counts both.*)
(***************************************************************************)
EXTENDS Notification, Audit

vars == <<events, notification, audit, faults>>

Init ==
    /\ events = {} /\ faults = 0
    /\ NotificationInit
    /\ AuditInit

Next ==
    \/ Produce /\ UNCHANGED <<notification, audit, faults>>
    \/ NotificationStep /\ UNCHANGED audit
    \/ \E e \in events : Record(e) /\ UNCHANGED <<events, notification>>

Spec == Init /\ [][Next]_vars

(* Dapr redelivers to each subscriber what it did not acknowledge, and      *)
(* every coroutine runs on. Nobody has to decide, resolve or pay.           *)
Fairness ==
    /\ \A e \in Event :
        /\ WF_vars(e \in events /\ Redeliver(e) /\ UNCHANGED audit)
        /\ WF_vars(e \in events \ recorded /\ Record(e) /\ UNCHANGED <<events, notification>>)
    /\ \A h \in Handlers : WF_vars((Send(h) \/ Mark(h)) /\ UNCHANGED audit)

FairSpec == Spec /\ Fairness

-----------------------------------------------------------------------------
(* Properties                                                              *)

\* Every variable stays in its range; a submitter is told once, and once more
\* at most for every mark lost, crash and overlapping delivery.
TypeOK ==
    /\ events \subseteq Event
    /\ marked \subseteq TrackingIds
    /\ told \in [TrackingIds -> 0..(1 + MaxFaults + MaxCrashes + MaxOverlaps)]
    /\ pc \in [Handlers -> {"idle", "send", "mark"}]
    /\ job \in [Handlers -> Event \cup {NoEvent}]
    /\ notified \subseteq events /\ recorded \subseteq events
    /\ rows \in [TrackingIds -> Rows]
    /\ faults \in 0..MaxFaults /\ crashes \in 0..MaxCrashes /\ overlaps \in 0..MaxOverlaps

\* "Never a silently-skipped notification": a mark, which silences every later
\* delivery, is only there when the submitter was told (notification/service.py).
MarkedIsTold == \A t \in marked : told[t] > 0

\* The mark guards against redelivery: unless a call fails, the process dies or
\* deliveries overlap, nobody is told twice, by any of the three subscriptions.
ToldOnce ==
    faults = 0 /\ crashes = 0 /\ overlaps = 0 => \A t \in TrackingIds : told[t] <= 1

\* No event of another service follows.
Ends(e) == e.route \in {"reject", "duplicate"} \/ e.resolution \in {"rejected", "completed", "failed"}

\* Every invoice that ended, on whichever of the paths, is eventually told and
\* on the dashboard.
EveryOutcomeIsKnown ==
    \A t \in TrackingIds :
        (\E e \in events : e.tid = t /\ Ends(e)) ~> told[t] > 0 /\ t \in Known

\* Each handler "never touches a column another handler already populated" (audit/
\* models.py), as far as the columns of one event go: no event, first, late or delivered
\* again, empties them, and none changes how an approval or a payment ended.
RowsOnlyGain ==
    [][\A t \in TrackingIds :
        /\ rows[t].decided => rows'[t].decided
        /\ rows[t].approval # "none" => rows'[t].approval = rows[t].approval
        /\ rows[t].payment # "none" => rows'[t].payment = rows[t].payment]_vars

\* Nobody decided an invoice otherwise than before: its events carry the same decision.
OneDecision == \A d, e \in events : d.tid = e.tid => d.route = e.route

\* Once every event is acknowledged the dashboard is what the events say, whatever
\* order they came in, unless they disagree: then the last delivery has the say.
DashboardIsExact ==
    OneDecision /\ events \subseteq recorded =>
        Summary = [total      |-> {e.tid : e \in events},
                   counts     |-> [r \in Routes |-> {e.tid : e \in {x \in events : x.route = r}}],
                   moneyAuto  |-> {e.tid : e \in {x \in events : x.route = "auto_approve"}},
                   moneyHuman |-> {e.tid : e \in {x \in events : x.resolution = "approved"}}]
=============================================================================
