------------------------------ MODULE Approval ------------------------------
(***************************************************************************)
(* The Approval service: it tracks the invoices escalated to a human, takes *)
(* the approver's and the submitter's calls and announces the resolution    *)
(* (src/services/approval).  A handler is one coroutine, for a delivery of  *)
(* decision.completed or for one API call; they interleave at every await.  *)
(*                                                                          *)
(* Durable state is Dapr state: approval:{tracking_id} and approval:index,  *)
(* written in one transaction that is conditional on the index's etag only. *)
(* An index that does not exist has the empty etag, which is no condition:  *)
(* the first saves ever, if they race, all go through.                      *)
(***************************************************************************)
EXTENDS Integers, FiniteSets, SequencesExt

CONSTANTS
    TrackingIds,
    Events,       \* decision.completed events: a tracking id and a route
    Handlers,     \* coroutines that may be in flight at once
    NoRequest,    \* what an idle handler serves
    MaxRetries,   \* _MAX_RETRIES
    MaxRequests,  \* bound: API calls
    MaxFaults,    \* bound: failed Dapr calls
    MaxCrashes,   \* bound: process crashes
    MaxOverlaps   \* bound: requests for a tracking id that has one in flight

Routes == {"auto_approve", "human_review", "reject", "duplicate"}
Calls == {"approve", "reject", "request_info", "additional_info"}
Requests == [tid: TrackingIds, op: Calls \cup {"escalate"}]

ASSUME ApprovalAssumption ==
    /\ Events \subseteq [tid: TrackingIds, route: Routes]
    /\ NoRequest \notin Requests
    /\ MaxRetries \in Nat \ {0}
    /\ MaxRequests \in Nat /\ MaxFaults \in Nat /\ MaxCrashes \in Nat /\ MaxOverlaps \in Nat

VARIABLES
    approvals,   \* approval:{tracking_id}, status "none" when absent
    index,       \* approval:index
    current,     \* the handlers whose etag of the index is still the stored one
    creations,   \* history: saves that found no index and created it
    pc, request, draft, seen, tries,   \* the handlers' local state
    published,   \* approval.completed events sent, counted
    acked,       \* decision.completed events answered with 200
    requests, faults, crashes, overlaps  \* what the bounds count

store == <<approvals, index, current, creations>>
local == <<pc, request, draft, seen, tries>>
bounds == <<requests, faults, crashes, overlaps>>
vars == <<store, local, published, acked, bounds>>

Resolutions == {"approved", "rejected"}
Actionable == {"pending", "waiting_info"}
Approvals == [status: {"none"} \cup Actionable \cup Resolutions, info: BOOLEAN]
NoApproval == [status |-> "none", info |-> FALSE]
Steps == {"idle", "index", "write", "publish"}

Init ==
    /\ approvals = [t \in TrackingIds |-> NoApproval]
    /\ index = <<>> /\ current = {} /\ creations = 0
    /\ pc = [h \in Handlers |-> "idle"]
    /\ request = [h \in Handlers |-> NoRequest]
    /\ draft = [h \in Handlers |-> NoApproval]
    /\ seen = [h \in Handlers |-> <<>>]
    /\ tries = [h \in Handlers |-> 1]
    /\ published = [t \in TrackingIds |-> [r \in Resolutions |-> 0]]
    /\ acked = {}
    /\ requests = 0 /\ faults = 0 /\ crashes = 0 /\ overlaps = 0

-----------------------------------------------------------------------------
\* GET /approvals: the records of the index, in its order, resolved ones too; a
\* place of the index without a record is left out.
ListPending == Restrict(index, {i \in DOMAIN index : approvals[index[i]].status # "none"})

Tid(h) == request[h].tid
InFlight(t) == \E h \in Handlers : request[h] # NoRequest /\ Tid(h) = t
Fault == faults < MaxFaults /\ faults' = faults + 1

\* A request for t arrives; that another is in flight for it is counted.
Arrive(h, t) ==
    /\ pc[h] = "idle"
    /\ \/ ~InFlight(t) /\ UNCHANGED overlaps
       \/ InFlight(t) /\ overlaps < MaxOverlaps /\ overlaps' = overlaps + 1

\* The handler has read and validated the record and goes on to save(draft).
Begin(h, t, op, approval) ==
    /\ pc' = [pc EXCEPT ![h] = "index"]
    /\ request' = [request EXCEPT ![h] = [tid |-> t, op |-> op]]
    /\ draft' = [draft EXCEPT ![h] = approval]
    /\ tries' = [tries EXCEPT ![h] = 1]
    /\ UNCHANGED <<store, seen, published, crashes, faults>>

\* The handler returns or raises.
Leave(h) ==
    /\ pc' = [pc EXCEPT ![h] = "idle"]
    /\ request' = [request EXCEPT ![h] = NoRequest]
    /\ draft' = [draft EXCEPT ![h] = NoApproval]
    /\ seen' = [seen EXCEPT ![h] = <<>>]
    /\ tries' = [tries EXCEPT ![h] = 1]

Crash ==
    /\ crashes < MaxCrashes
    /\ crashes' = crashes + 1
    /\ pc' = [h \in Handlers |-> "idle"]
    /\ request' = [h \in Handlers |-> NoRequest]
    /\ draft' = [h \in Handlers |-> NoApproval]
    /\ seen' = [h \in Handlers |-> <<>>]
    /\ tries' = [h \in Handlers |-> 1]
    /\ current' = {}
    /\ UNCHANGED <<approvals, index, creations, published, acked, requests, faults, overlaps>>

-----------------------------------------------------------------------------
(* handle_decision_completed()                                             *)

\* Mutant: only a resolved approval stops a redelivery.
KnownIfResolved(t) == approvals[t].status \in Resolutions
\* A record exists, in any status: the event is a redelivery.
Known(t) == approvals[t].status # "none"

\* Another route, or an approval already tracked. Dapr may deliver an event any
\* number of times, also after it was acknowledged.
Ignore(h, e) ==
    /\ Arrive(h, e.tid)
    /\ e.route # "human_review" \/ Known(e.tid)
    /\ acked' = acked \cup {e}
    /\ UNCHANGED <<store, local, published, requests, faults, crashes>>

\* Acknowledged when save() has returned, in Saved.
Escalate(h, e) ==
    /\ Arrive(h, e.tid)
    /\ e.route = "human_review" /\ ~Known(e.tid)
    /\ Begin(h, e.tid, "escalate", [status |-> "pending", info |-> FALSE])
    /\ UNCHANGED <<acked, requests>>

-----------------------------------------------------------------------------
(* The API calls                                                           *)

\* Mutant: a resolved approval may be acted on again.
ActionableIfKnown(t) == approvals[t].status # "none"
\* _require_actionable(): otherwise 404 or 409, and nothing changes.
RequireActionable(t) == approvals[t].status \in Actionable

Call(h, t, op) ==
    /\ requests < MaxRequests
    /\ requests' = requests + 1
    /\ Arrive(h, t)
    /\ UNCHANGED acked

\* approve(), reject()
Resolve(h, t) ==
    /\ RequireActionable(t)
    /\ \E op \in {"approve", "reject"} :
        /\ Call(h, t, op)
        /\ Begin(h, t, op, [approvals[t] EXCEPT !.status =
                               IF op = "approve" THEN "approved" ELSE "rejected"])

\* request_info()
RequestInfo(h, t) ==
    /\ RequireActionable(t)
    /\ Call(h, t, "request_info")
    /\ Begin(h, t, "request_info", [approvals[t] EXCEPT !.status = "waiting_info"])

\* add_additional_info(): only while waiting for it.
AddAdditionalInfo(h, t) ==
    /\ approvals[t].status = "waiting_info"
    /\ Call(h, t, "additional_info")
    /\ Begin(h, t, "additional_info", [status |-> "pending", info |-> TRUE])

-----------------------------------------------------------------------------
(* save() and what follows it                                              *)

Escalation(t) == [tid |-> t, route |-> "human_review"]

\* Mutant: the subscription answers 200 whatever happened.
GiveUpSilently(h) ==
    Leave(h) /\ acked' = acked \cup ({Escalation(Tid(h))} \cap Events)
\* ApprovalRepositoryError goes up to the framework: a 500, no acknowledgement.
GiveUp(h) == Leave(h) /\ UNCHANGED acked

ReadIndex(h) ==
    /\ pc[h] = "index"
    /\ \/ /\ pc' = [pc EXCEPT ![h] = "write"]
          /\ seen' = [seen EXCEPT ![h] = index]
          /\ current' = current \cup {h}
          /\ UNCHANGED <<request, draft, tries, acked, faults>>
       \/ Fault /\ GiveUp(h) /\ UNCHANGED current
    /\ UNCHANGED <<approvals, index, creations, published, requests, crashes, overlaps>>

\* Mutant: the transaction carries no etag.
WriteIsAccepted(h) == TRUE
\* The etag of the index was empty, or is still the stored one.
EtagMatches(h) == seen[h] = <<>> \/ h \in current

\* The transaction: the record unconditionally, the index on the etag read.
Written(h) ==
    /\ EtagMatches(h)
    /\ approvals' = [approvals EXCEPT ![Tid(h)] = draft[h]]
    /\ index' = IF Contains(seen[h], Tid(h)) THEN seen[h] ELSE Append(seen[h], Tid(h))
    /\ current' = {}
    /\ creations' = IF seen[h] = <<>> THEN creations + 1 ELSE creations

\* Mutant: the resolution is saved and its announcement forgotten.
NothingFollows(h) == "idle"
\* Only approve and reject go on to publish; the others return.
NextStep(h) == IF request[h].op \in {"approve", "reject"} THEN "publish" ELSE "idle"

Saved(h) ==
    /\ IF NextStep(h) = "publish"
       THEN /\ pc' = [pc EXCEPT ![h] = "publish"]
            /\ seen' = [seen EXCEPT ![h] = <<>>]
            /\ UNCHANGED <<request, draft, tries>>
       ELSE Leave(h)
    /\ acked' = IF request[h].op = "escalate"
                THEN acked \cup {Escalation(Tid(h))} ELSE acked

\* Mutant: the comparison is off by one and a further attempt is made.
LastAttemptLate(h) == tries[h] > MaxRetries
LastAttempt(h) == tries[h] = MaxRetries
\* except grpc.RpcError: re-read and try again, or give up and raise.
Retry(h) ==
    \/ /\ ~LastAttempt(h)
       /\ tries' = [tries EXCEPT ![h] = @ + 1]
       /\ pc' = [pc EXCEPT ![h] = "index"]
       /\ seen' = [seen EXCEPT ![h] = <<>>]
       /\ UNCHANGED <<request, draft, acked>>
    \/ LastAttempt(h) /\ GiveUp(h)

\* It is stored; or its reply is lost; or the etag is stale; or it is not sent.
Write(h) ==
    /\ pc[h] = "write"
    /\ \/ Written(h) /\ Saved(h) /\ UNCHANGED faults
       \/ Written(h) /\ Fault /\ Retry(h)
       \/ ~EtagMatches(h) /\ Retry(h) /\ UNCHANGED <<store, faults>>
       \/ Fault /\ Retry(h) /\ current' = current \ {h} /\ UNCHANGED <<approvals, index, creations>>
    /\ UNCHANGED <<published, requests, crashes, overlaps>>

\* publish(approval.completed): a failure, or a lost reply, answers the call
\* with an error after the resolution is recorded.
Publish(h) ==
    LET sent == [published EXCEPT ![Tid(h)][draft[h].status] = @ + 1] IN
    /\ pc[h] = "publish"
    /\ \/ published' = sent /\ UNCHANGED faults
       \/ published' \in {published, sent} /\ Fault
    /\ Leave(h)
    /\ UNCHANGED <<store, acked, requests, crashes, overlaps>>

-----------------------------------------------------------------------------
HandlerStep(h) == ReadIndex(h) \/ Write(h) \/ Publish(h)

Next ==
    \/ \E h \in Handlers, e \in Events : Ignore(h, e) \/ Escalate(h, e)
    \/ \E h \in Handlers, t \in TrackingIds :
        Resolve(h, t) \/ RequestInfo(h, t) \/ AddAdditionalInfo(h, t)
    \/ \E h \in Handlers : HandlerStep(h)
    \/ Crash

Spec == Init /\ [][Next]_vars

(* Dapr redelivers what was not acknowledged and every coroutine runs on;   *)
(* no human has to call.                                                    *)
Delivered(e) ==
    /\ e \notin acked /\ ~InFlight(e.tid)
    /\ \E h \in Handlers : Ignore(h, e) \/ Escalate(h, e)

Fairness ==
    /\ \A e \in Events : WF_vars(Delivered(e))
    /\ \A h \in Handlers : WF_vars(HandlerStep(h))

FairSpec == Spec /\ Fairness

-----------------------------------------------------------------------------
(* Properties                                                              *)

\* Every variable stays in its range.
TypeOK ==
    /\ approvals \in [TrackingIds -> Approvals]
    /\ index \in Seq(TrackingIds) /\ current \subseteq Handlers /\ creations \in Nat
    /\ pc \in [Handlers -> Steps]
    /\ request \in [Handlers -> Requests \cup {NoRequest}]
    /\ draft \in [Handlers -> Approvals]
    /\ seen \in [Handlers -> Seq(TrackingIds)]
    /\ tries \in [Handlers -> 1..MaxRetries]
    /\ published \in [TrackingIds -> [Resolutions -> Nat]]
    /\ acked \subseteq Events
    /\ requests \in 0..MaxRequests /\ faults \in 0..MaxFaults
    /\ crashes \in 0..MaxCrashes /\ overlaps \in 0..MaxOverlaps

\* The approver's list never shows an entry without its record or an entry twice,
\* and, whatever saves race for an index that exists, it misses no escalated
\* invoice. Only saves that found no index may lose each other's entries: that
\* happens when more than one of them is stored (creations).
IndexIsExact ==
    /\ ListPending = index
    /\ IsInjective(ListPending)
    /\ creations <= 1 =>
          Range(ListPending) = {t \in TrackingIds : approvals[t].status # "none"}

\* As long as no two requests for an approval overlap, subscribers are told at
\* most one resolution, once, and it is the one recorded for good.
AnnouncedIsRecorded ==
    overlaps = 0 => \A t \in TrackingIds :
        /\ published[t]["approved"] + published[t]["rejected"] <= 1
        /\ \A r \in Resolutions : published[t][r] > 0 => approvals[t].status = r

\* The state machine of models.py: without overlaps a redelivered event never
\* reverts what a human did, a resolution is final, and the submitter's
\* answer is never lost.
RecordFollowsStateMachine ==
    [][overlaps' = 0 => \A t \in TrackingIds :
        LET was == approvals[t].status
            is == approvals'[t].status IN
        /\ was # is =>
            \/ was = "none" /\ is = "pending"
            \/ was = "pending" /\ is \in Resolutions \cup {"waiting_info"}
            \/ was = "waiting_info" /\ is \in Resolutions \cup {"pending"}
        /\ approvals[t].info => approvals'[t].info
        /\ was = "waiting_info" /\ is = "pending" => approvals'[t].info]_vars

\* Every invoice decided human_review is eventually tracked, through failed
\* calls and crashes, because the event is redelivered until it is.
EveryEscalationIsTracked ==
    \A e \in {x \in Events : x.route = "human_review"} : <>(approvals[e.tid].status # "none")

\* Unless a call fails or the process dies, a recorded resolution is announced
\* by the time nobody works on the approval any more, even if calls overlapped.
ResolutionIsAnnounced ==
    faults = 0 /\ crashes = 0 =>
        \A t \in TrackingIds, r \in Resolutions :
            approvals[t].status = r /\ ~InFlight(t) => published[t][r] > 0

(* What the documentation says, checked as such                            *)

\* ApprovalAlreadyResolvedError "prevents a duplicate approval.completed publish".
NoDuplicatePublish ==
    \A t \in TrackingIds : published[t]["approved"] + published[t]["rejected"] <= 1
=============================================================================
