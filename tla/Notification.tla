---------------------------- MODULE Notification ----------------------------
(***************************************************************************)
(* The Notification service: it tells the submitter how an invoice ended    *)
(* (src/services/notification).  A handler is one coroutine, for a delivery *)
(* on any of its three subscriptions; it reads the mark, sends, then marks. *)
(* Only notification:{tracking_id}, the mark, outlives a crash.             *)
(***************************************************************************)
EXTENDS Topics

CONSTANTS
    Handlers,     \* coroutines that may be in flight at once
    NoEvent,      \* what an idle handler handles
    MaxCrashes,   \* bound: process crashes
    MaxOverlaps   \* bound: deliveries while the tracking id is in flight

ASSUME NotificationAssumption ==
    /\ NoEvent \notin Event
    /\ MaxCrashes \in Nat /\ MaxOverlaps \in Nat

VARIABLES
    marked,       \* tracking ids with a notification:{tracking_id} key
    told,         \* how many messages the channel sent for each
    pc, job,      \* the handlers' local state
    notified,     \* events answered with 200
    crashes, overlaps

handlers == <<pc, job>>
notification == <<marked, told, handlers, notified, crashes, overlaps>>

InFlight(t) == \E h \in Handlers : job[h] # NoEvent /\ job[h].tid = t

NotificationInit ==
    /\ marked = {}
    /\ told = [t \in TrackingIds |-> 0]
    /\ pc = [h \in Handlers |-> "idle"]
    /\ job = [h \in Handlers |-> NoEvent]
    /\ notified = {}
    /\ crashes = 0 /\ overlaps = 0

\* Mutant: a rejection by an approver is left to Payment, which never hears of it.
FinalUnlessRejected(e) ==
    \/ e.topic = "decision" /\ e.route \in {"reject", "duplicate"}
    \/ e.topic = "payment"
\* The events that end an invoice; the others are acknowledged and ignored.
Final(e) ==
    \/ e.topic = "decision" /\ e.route \in {"reject", "duplicate"}
    \/ e.topic = "approval" /\ e.resolution = "rejected"
    \/ e.topic = "payment"

\* Mutant: the mark is never looked at.
NeverNotified(t) == FALSE
AlreadyNotified(t) == t \in marked

\* A delivery of e with nothing to do. One whose read of the mark fails changes
\* nothing and is not acknowledged.
Skip(h, e) ==
    /\ pc[h] = "idle"
    /\ ~Final(e) \/ AlreadyNotified(e.tid)
    /\ notified' = notified \cup {e}
    /\ UNCHANGED <<events, marked, told, handlers, crashes, overlaps, faults>>

Arrive(t) ==
    \/ ~InFlight(t) /\ UNCHANGED overlaps
    \/ InFlight(t) /\ overlaps < MaxOverlaps /\ overlaps' = overlaps + 1

Start(h, e) ==
    /\ pc[h] = "idle"
    /\ Final(e) /\ ~AlreadyNotified(e.tid)
    /\ Arrive(e.tid)
    /\ pc' = [pc EXCEPT ![h] = "send"]
    /\ job' = [job EXCEPT ![h] = e]
    /\ UNCHANGED <<events, told, notified, crashes, faults>>

\* Mutant: the mark is set before the message goes out.
BeginMarked(h, e) == Start(h, e) /\ marked' = marked \cup {e.tid}
\* _notify() finds no mark.
Begin(h, e) == Start(h, e) /\ UNCHANGED marked

\* LoggingNotificationChannel.send() never fails.
Send(h) ==
    /\ pc[h] = "send"
    /\ told' = [told EXCEPT ![job[h].tid] = @ + 1]
    /\ pc' = [pc EXCEPT ![h] = "mark"]
    /\ UNCHANGED <<events, marked, job, notified, crashes, overlaps, faults>>

\* mark_notified(); an error may hide that the mark was written, and is a 500.
Mark(h) ==
    /\ pc[h] = "mark"
    /\ \/ /\ marked' = marked \cup {job[h].tid}
          /\ notified' = notified \cup {job[h]}
          /\ UNCHANGED faults
       \/ /\ Fault
          /\ marked' \in {marked, marked \cup {job[h].tid}}
          /\ UNCHANGED notified
    /\ pc' = [pc EXCEPT ![h] = "idle"]
    /\ job' = [job EXCEPT ![h] = NoEvent]
    /\ UNCHANGED <<events, told, crashes, overlaps>>

Crash ==
    /\ crashes < MaxCrashes
    /\ crashes' = crashes + 1
    /\ pc' = [h \in Handlers |-> "idle"]
    /\ job' = [h \in Handlers |-> NoEvent]
    /\ UNCHANGED <<events, marked, told, notified, overlaps, faults>>

NotificationStep ==
    \/ \E h \in Handlers, e \in events : Skip(h, e) \/ Begin(h, e)
    \/ \E h \in Handlers : Send(h) \/ Mark(h)
    \/ Crash

Redeliver(e) ==
    e \notin notified /\ ~InFlight(e.tid) /\ \E h \in Handlers : Skip(h, e) \/ Begin(h, e)
=============================================================================
