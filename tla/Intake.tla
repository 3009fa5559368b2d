------------------------------- MODULE Intake -------------------------------
(***************************************************************************)
(* The Intake service: it takes an invoice in, decides whether it is a      *)
(* duplicate, hands it to Decision and records the decision that comes back *)
(* (src/services/intake).  Every invoice posted gets a tracking id of its   *)
(* own; pc[t] is the coroutine of POST /invoices for t and then of the      *)
(* background task process(t) it schedules.  Handlers run complete() for    *)
(* the deliveries of decision.completed.  All interleave at every await.    *)
(*                                                                          *)
(* Durable state is Dapr state: submission:{tracking_id} and                *)
(* dedup:{dedup_key}.  A crash loses every coroutine, background tasks too. *)
(***************************************************************************)
EXTENDS Integers, FiniteSets

CONSTANTS
    TrackingIds,   \* one per POST /invoices
    NoId,          \* dedup:{dedup_key} is absent
    Invoice,       \* the invoice posted as t: vendor, number, total
    Routes,        \* the routes Decision may choose
    Handlers,      \* complete() coroutines that may be in flight
    NoEvent,       \* what an idle handler handles
    MaxDecisions,  \* bound: different decisions Decision announces of one invoice
    MaxFaults,     \* bound: failed Dapr calls
    MaxCrashes,    \* bound: process crashes
    MaxOverlaps    \* bound: lookups of a key, or events of a tracking id, that overlap

ASSUME IntakeAssumption ==
    /\ DOMAIN Invoice = TrackingIds
    /\ NoId \notin TrackingIds
    /\ "duplicate" \notin Routes /\ "none" \notin Routes
    /\ MaxDecisions \in Nat /\ MaxFaults \in Nat /\ MaxCrashes \in Nat /\ MaxOverlaps \in Nat

VARIABLES
    submissions,  \* submission:{tracking_id}
    pointer,      \* dedup:{dedup_key}
    pc, existing, snapshot,   \* the coroutine of each tracking id
    job, seen,    \* the complete() handlers
    submitted,    \* tracking ids of the invoice.submitted events sent
    decisions,    \* decision.completed events sent
    acked,        \* those complete() answered with 200
    faults, crashes, overlaps

store == <<submissions, pointer>>
tasks == <<pc, existing, snapshot>>
completers == <<job, seen>>
topics == <<submitted, decisions>>
vars == <<store, tasks, completers, topics, acked, faults, crashes, overlaps>>

\* compute_dedup_key(). The total is written out as it came in, [value, scale]: 10 and
\* 10.0 are one amount and two keys.
ComputeDedupKey(inv) == <<inv.vendor, inv.number, inv.total.value, inv.total.scale>>
Key == [t \in TrackingIds |-> ComputeDedupKey(Invoice[t])]
Keys == {Key[t] : t \in TrackingIds}

Statuses == {"none", "received", "processing", "completed", "failed"}
Submissions == [dup: BOOLEAN, status: Statuses, route: Routes \cup {"none", "duplicate"}]
NoSubmission == [dup |-> FALSE, status |-> "none", route |-> "none"]
Steps == {"new", "record", "store", "scheduled", "mark", "announce", "fail",
          "dup_read", "dup_save", "dup_announce", "ended"}
Events == [tid: TrackingIds, route: Routes \cup {"duplicate"}]

Init ==
    /\ submissions = [t \in TrackingIds |-> NoSubmission]
    /\ pointer = [k \in Keys |-> NoId]
    /\ pc = [t \in TrackingIds |-> "new"]
    /\ existing = [t \in TrackingIds |-> NoId]
    /\ snapshot = [t \in TrackingIds |-> NoSubmission]
    /\ job = [h \in Handlers |-> NoEvent]
    /\ seen = [h \in Handlers |-> NoSubmission]
    /\ submitted = {} /\ decisions = {} /\ acked = {}
    /\ faults = 0 /\ crashes = 0 /\ overlaps = 0

-----------------------------------------------------------------------------
(* Steps shared by the coroutines                                          *)

Goto(t, step) == pc' = [pc EXCEPT ![t] = step]
Fault == faults < MaxFaults /\ faults' = faults + 1

\* Something else is under way that the step overlaps with; counted.
Overlapping(other) ==
    \/ ~other /\ UNCHANGED overlaps
    \/ other /\ overlaps < MaxOverlaps /\ overlaps' = overlaps + 1

\* Mutants: the two keys are not written in one transaction, or the pointer
\* holds the submission itself.
WrittenSeparately(t, submission) ==
    /\ pointer' = [pointer EXCEPT ![Key[t]] = t]
    /\ \/ submissions' = [submissions EXCEPT ![t] = submission]
       \/ UNCHANGED submissions
WrittenWhole(t, submission) ==
    /\ submissions' = [submissions EXCEPT ![t] = submission]
    /\ pointer' = [pointer EXCEPT ![Key[t]] = submission]
\* save(): the record and the dedup pointer in one transaction.
Written(t, submission) ==
    /\ submissions' = [submissions EXCEPT ![t] = submission]
    /\ pointer' = [pointer EXCEPT ![Key[t]] = t]

\* save() returns and the coroutine goes on, or it raises, with or without
\* having taken effect, and nothing in the coroutine catches that.
Save(t, submission, next) ==
    /\ \/ Written(t, submission) /\ Goto(t, next) /\ UNCHANGED faults
       \/ /\ Fault
          /\ Written(t, submission) \/ UNCHANGED store
          /\ Goto(t, "ended")
    /\ UNCHANGED <<existing, snapshot, completers, topics, acked, crashes, overlaps>>

\* A read fails: the request is answered with 500, or the background task ends.
ReadFails(t) ==
    /\ pc[t] \in {"new", "record", "scheduled", "dup_read"}
    /\ Fault
    /\ Goto(t, "ended")
    /\ UNCHANGED <<store, existing, snapshot, completers, topics, acked, crashes, overlaps>>

\* The process dies and is started again; requests not yet posted still may be.
Crash ==
    /\ crashes < MaxCrashes
    /\ crashes' = crashes + 1
    /\ pc' = [t \in TrackingIds |-> IF pc[t] = "new" THEN "new" ELSE "ended"]
    /\ existing' = [t \in TrackingIds |-> NoId]
    /\ snapshot' = [t \in TrackingIds |-> NoSubmission]
    /\ job' = [h \in Handlers |-> NoEvent]
    /\ seen' = [h \in Handlers |-> NoSubmission]
    /\ UNCHANGED <<store, topics, acked, faults, overlaps>>

-----------------------------------------------------------------------------
(* POST /invoices: submit()                                                *)

LookingUp(t) == \E u \in TrackingIds \ {t} : Key[u] = Key[t] /\ pc[u] \in {"record", "store"}

\* Mutant: an invoice whose processing failed may be posted again.
IsDuplicateUnlessFailed(u) == submissions[u].status # "failed"
\* Whatever has become of it, an existing submission makes the invoice a duplicate.
IsDuplicateOf(u) == submissions[u].status # "none"

Received(duplicate) == [dup |-> duplicate, status |-> "received", route |-> "none"]

\* find_by_dedup_key(): the pointer.
LookUpPointer(t) ==
    /\ pc[t] = "new"
    /\ Overlapping(LookingUp(t))
    /\ existing' = [existing EXCEPT ![t] = pointer[Key[t]]]
    /\ IF pointer[Key[t]] = NoId
       THEN Goto(t, "store") /\ snapshot' = [snapshot EXCEPT ![t] = Received(FALSE)]
       ELSE Goto(t, "record") /\ UNCHANGED snapshot
    /\ UNCHANGED <<store, completers, topics, acked, faults, crashes>>

\* find_by_dedup_key(): the record it points to, which must exist.
LookUpRecord(t) ==
    /\ pc[t] = "record"
    /\ snapshot' = [snapshot EXCEPT ![t] = Received(IsDuplicateOf(existing[t]))]
    /\ Goto(t, IF submissions[existing[t]].status = "none" THEN "ended" ELSE "store")
    /\ UNCHANGED <<store, existing, completers, topics, acked, faults, crashes, overlaps>>

\* The submission is stored as received; then the response and the background task.
Store(t) ==
    /\ pc[t] = "store"
    /\ Save(t, snapshot[t], "scheduled")

-----------------------------------------------------------------------------
(* The background task: process()                                          *)

\* Mutants: PROCESSING is not saved before the event goes out, or a duplicate
\* is processed like any other invoice.
AnnouncesFirst(submission) == IF submission.dup THEN "dup_read" ELSE "announce"
ForgetsDuplicates(submission) == "mark"
\* A known duplicate is completed here and never reaches Decision.
FirstStep(submission) == IF submission.dup THEN "dup_read" ELSE "mark"

Process(t) ==
    /\ pc[t] = "scheduled"
    /\ snapshot' = [snapshot EXCEPT ![t] = submissions[t]]
    /\ Goto(t, IF submissions[t].dup /\ submissions[t].status = "completed"
               THEN "ended" ELSE FirstStep(submissions[t]))
    /\ UNCHANGED <<store, existing, completers, topics, acked, faults, crashes, overlaps>>

MarkProcessing(t) ==
    /\ pc[t] = "mark"
    /\ Save(t, [snapshot[t] EXCEPT !.status = "processing"], "announce")

\* publish(invoice.submitted): an error may hide that the event was sent.
AnnounceInvoice(t) ==
    /\ pc[t] = "announce"
    /\ \/ submitted' = submitted \cup {t} /\ Goto(t, "ended") /\ UNCHANGED faults
       \/ /\ Fault
          /\ submitted' \in {submitted, submitted \cup {t}}
          /\ Goto(t, "fail")
    /\ UNCHANGED <<store, existing, snapshot, completers, decisions, acked, crashes, overlaps>>

\* except DecisionPublisherError: FAILED, over whatever is stored by now.
MarkFailed(t) ==
    /\ pc[t] = "fail"
    /\ Save(t, [snapshot[t] EXCEPT !.status = "failed"], "ended")

-----------------------------------------------------------------------------
(* complete(), for a duplicate and for the events of Decision              *)

\* Mutants: every event is written, or only a submission still RECEIVED.
NothingIgnored(status) == status = "none"
ProcessingIgnored(status) == status \in {"none", "processing", "completed"}
\* An unknown tracking id, or a decision already recorded: nothing to do.
Ignored(status) == status \in {"none", "completed"}

Completed(submission, route) == [dup |-> submission.dup, status |-> "completed", route |-> route]

CompleteDuplicateRead(t) ==
    /\ pc[t] = "dup_read"
    /\ snapshot' = [snapshot EXCEPT ![t] = submissions[t]]
    /\ Goto(t, IF Ignored(submissions[t].status) THEN "dup_announce" ELSE "dup_save")
    /\ UNCHANGED <<store, existing, completers, topics, acked, faults, crashes, overlaps>>

CompleteDuplicateSave(t) ==
    /\ pc[t] = "dup_save"
    /\ Save(t, Completed(snapshot[t], "duplicate"), "dup_announce")

\* DaprDecisionCompletedPublisher.publish(): an error may hide that it was sent.
PublishDecision(e) ==
    \/ decisions' = decisions \cup {e} /\ UNCHANGED faults
    \/ Fault /\ decisions' \in {decisions, decisions \cup {e}}

\* It is published in Decision's stead; an error is only logged.
AnnounceDuplicate(t) ==
    /\ pc[t] = "dup_announce"
    /\ PublishDecision([tid |-> t, route |-> "duplicate"])
    /\ Goto(t, "ended")
    /\ UNCHANGED <<store, existing, snapshot, completers, submitted, acked, crashes, overlaps>>

InFlight(t) == \E h \in Handlers : job[h] # NoEvent /\ job[h].tid = t

\* handle_decision_completed(): complete() reads the submission.
CompleteRead(h, e) ==
    /\ job[h] = NoEvent
    /\ e \in decisions \ acked
    /\ Overlapping(InFlight(e.tid))
    /\ IF Ignored(submissions[e.tid].status)
       THEN acked' = acked \cup {e} /\ UNCHANGED completers
       ELSE /\ job' = [job EXCEPT ![h] = e]
            /\ seen' = [seen EXCEPT ![h] = submissions[e.tid]]
            /\ UNCHANGED acked
    /\ UNCHANGED <<store, tasks, topics, faults, crashes>>

\* complete() saves its copy as COMPLETED; an error means a redelivery.
CompleteSave(h) ==
    /\ job[h] # NoEvent
    /\ LET update == Written(job[h].tid, Completed(seen[h], job[h].route)) IN
       \/ update /\ acked' = acked \cup {job[h]} /\ UNCHANGED faults
       \/ Fault /\ (update \/ UNCHANGED store) /\ UNCHANGED acked
    /\ job' = [job EXCEPT ![h] = NoEvent]
    /\ seen' = [seen EXCEPT ![h] = NoSubmission]
    /\ UNCHANGED <<tasks, topics, crashes, overlaps>>

\* Decision, seen from here: it decides what was submitted, and again, perhaps
\* differently, when invoice.submitted is delivered again.
Decide(t, route) ==
    /\ t \in submitted
    /\ Cardinality({e \in decisions : e.tid = t}) < MaxDecisions
    /\ decisions' = decisions \cup {[tid |-> t, route |-> route]}
    /\ UNCHANGED <<store, tasks, completers, submitted, acked, faults, crashes, overlaps>>

-----------------------------------------------------------------------------
TaskStep(t) ==
    \/ LookUpRecord(t) \/ Store(t) \/ Process(t) \/ MarkProcessing(t)
    \/ AnnounceInvoice(t) \/ MarkFailed(t)
    \/ CompleteDuplicateRead(t) \/ CompleteDuplicateSave(t) \/ AnnounceDuplicate(t)

Next ==
    \/ \E t \in TrackingIds : LookUpPointer(t) \/ TaskStep(t) \/ ReadFails(t)
    \/ \E h \in Handlers : CompleteSave(h) \/ \E e \in decisions : CompleteRead(h, e)
    \/ \E t \in TrackingIds, route \in Routes : Decide(t, route)
    \/ Crash

Spec == Init /\ [][Next]_vars

(* The event loop runs every coroutine on, Decision answers what it is sent *)
(* and Dapr redelivers what was not acknowledged. Nobody has to post.       *)
Undecided(t) == \A e \in decisions : e.tid # t

Fairness ==
    /\ \A t \in TrackingIds : WF_vars(TaskStep(t))
    /\ \A t \in TrackingIds : WF_vars(Undecided(t) /\ \E route \in Routes : Decide(t, route))
    /\ \A h \in Handlers : WF_vars(CompleteSave(h))
    /\ \A t \in TrackingIds :
        WF_vars(~InFlight(t) /\ \E h \in Handlers, e \in decisions : e.tid = t /\ CompleteRead(h, e))

FairSpec == Spec /\ Fairness

-----------------------------------------------------------------------------
(* Properties                                                              *)

\* Every variable stays in its range; in particular dedup:{key} holds a
\* tracking id and never a submission.
TypeOK ==
    /\ submissions \in [TrackingIds -> Submissions]
    /\ pointer \in [Keys -> TrackingIds \cup {NoId}]
    /\ pc \in [TrackingIds -> Steps]
    /\ existing \in [TrackingIds -> TrackingIds \cup {NoId}]
    /\ snapshot \in [TrackingIds -> Submissions]
    /\ job \in [Handlers -> Events \cup {NoEvent}]
    /\ seen \in [Handlers -> Submissions]
    /\ submitted \subseteq TrackingIds
    /\ decisions \subseteq Events
    /\ acked \subseteq decisions
    /\ faults \in 0..MaxFaults /\ crashes \in 0..MaxCrashes /\ overlaps \in 0..MaxOverlaps

\* A dedup pointer always has the record it points to, and that record is of
\* the same key: find_by_dedup_key() never meets a pointer without a record.
PointerHasRecord ==
    \A k \in Keys : pointer[k] # NoId =>
        Key[pointer[k]] = k /\ submissions[pointer[k]].status # "none"

\* F3: as long as no two posts of one invoice overlap, at most one of them is
\* ever handed to Decision, whatever fails or crashes on the way.
OnePerKeyReachesDecision ==
    overlaps = 0 =>
        \A t, u \in submitted : Key[t] = Key[u] => t = u

\* A duplicate is decided by Intake and nothing else is: it is never handed to
\* Decision, and no invoice that was is recorded or announced as a duplicate.
DuplicatesAreDecidedHere ==
    \A t \in TrackingIds :
        /\ t \in submitted => ~submissions[t].dup
        /\ \/ submissions[t].route = "duplicate"
           \/ [tid |-> t, route |-> "duplicate"] \in decisions
           => t \notin submitted /\ submissions[t].dup /\ submissions[t].status = "completed"

\* process() saves PROCESSING before it publishes, so a decision never finds
\* the submission still RECEIVED, however early it arrives.
DecisionFindsProcessing ==
    \A h \in Handlers : job[h] # NoEvent => seen[h].status \in {"processing", "failed"}

\* The status only moves forward, and a recorded decision stays: it is undone
\* only by process() recording that its publish failed, or by an overlap.
StatusMovesForward ==
    [][overlaps' = 0 => \A t \in TrackingIds :
        submissions'[t] # submissions[t] =>
            \/ submissions[t].status = "none" /\ submissions'[t].status = "received"
            \/ submissions[t].status = "received" /\ submissions'[t].status \in {"processing", "completed"}
            \/ submissions[t].status = "processing" /\ submissions'[t].status \in {"completed", "failed"}
            \/ submissions[t].status = "failed" /\ submissions'[t].status = "completed"
            \/ submissions[t].status = "completed" /\ pc[t] = "fail"]_vars

\* Unless a call fails or the process dies, every invoice received gets its
\* decision, and a duplicate's is announced to the other services too.
Disturbed == faults > 0 \/ crashes > 0

Settled(t) ==
    /\ submissions[t].status = "completed"
    /\ submissions[t].dup => [tid |-> t, route |-> "duplicate"] \in decisions

EverySubmissionSettles ==
    \A t \in TrackingIds :
        submissions[t].status = "received" ~> Settled(t) \/ Disturbed

(* What the documentation says, checked as such                            *)

\* service.py: an already COMPLETED submission is "first-write-wins, never
\* overwritten".
FirstWriteWins ==
    [][\A t \in TrackingIds :
        submissions[t].status = "completed" => submissions'[t] = submissions[t]]_vars
=============================================================================
