---------------------------- MODULE StatusLookup ----------------------------
(***************************************************************************)
(* GET /invoices/{tracking_id} (src/services/intake): the submission, and   *)
(* for an escalated one what Approval knows, asked through Dapr service     *)
(* invocation inside a bulkhead.  Whatever goes wrong with the question,    *)
(* the answer goes out without the approval.                                *)
(*                                                                          *)
(* What the submission and the approval are at the moment they are read is  *)
(* any of what Intake.tla and Approval.tla may have stored.                 *)
(***************************************************************************)
EXTENDS Accounts

CONSTANTS
    MaxConcurrency,  \* APPROVAL_STATUS_BULKHEAD_MAX_CONCURRENCY
    MaxLookups       \* bound: lookups

ASSUME LookupAssumption == MaxConcurrency \in Nat \ {0} /\ MaxLookups \in Nat

VARIABLES
    slots,    \* free slots of the bulkhead's semaphore
    lookups,  \* what the bound counts
    hidden    \* some answer left out the approval that Approval had found (history)

lookup == <<slots, lookups, hidden>>

ApprovalStatuses == {"pending", "waiting_info", "approved", "rejected"}

unasked == <<accounts, services, requests, crashes, window, counts>>

LookupInit == slots = MaxConcurrency /\ lookups = 0 /\ hidden = FALSE

-----------------------------------------------------------------------------
\* get_current_user() lets any user ask; the request then reads the submission.
Ask(h, token, ip) ==
    /\ GetCurrentUser(token, "api") # Nobody
    /\ Free(h, "api")
    /\ lookups < MaxLookups /\ lookups' = lookups + 1
    /\ Goto(h, "submission")
    /\ request' = [request EXCEPT ![h] =
           Request("status", GetCurrentUser(token, "api").sub, ip, NoPassword)]
    /\ UNCHANGED <<unasked, hit, slots, hidden, faults>>

\* get_status_response(): no submission is a 404; one without a decision, or with
\* another route, is answered as it is; only a human_review one needs Approval.
ReadSubmission(h) ==
    /\ pc[h] = "submission"
    /\ \E route \in {"absent", "undecided", "auto_approve", "human_review"} :
          IF route = "human_review"
          THEN Goto(h, "queued") /\ UNCHANGED <<request, hit>>
          ELSE Leave(h)
    /\ UNCHANGED <<unasked, lookup, faults>>

-----------------------------------------------------------------------------
(* GET /approvals/{tracking_id}, asked without a user                      *)

\* DaprApprovalStatusClient sends a correlation id and no Authorization header.
Authorization == NoToken

\* The route of Approval, which depends on get_current_user().
GetApproval(token, status) ==
    CASE GetCurrentUser(token, "api") = Nobody -> [code |-> 401, body |-> "none"]
      [] status = "absent" -> [code |-> 404, body |-> "none"]
      [] OTHER -> [code |-> 200, body |-> status]

\* get_status(): 404 is None, and what is no success an ApprovalStatusClientError.
GetStatus(reply) ==
    CASE reply.code = 404 -> "none"
      [] reply.code = 200 -> reply.body
      [] OTHER -> "error"

\* get_status_response(): an error leaves the approval out.
Shown(live) == IF live = "error" THEN "none" ELSE live

\* Bulkhead.run() takes a slot, however many wait for it.
Acquire(h) ==
    /\ pc[h] = "queued" /\ slots > 0
    /\ slots' = slots - 1
    /\ Goto(h, "calling")
    /\ UNCHANGED <<unasked, request, hit, lookups, hidden, faults>>

\* Mutant: a slot is given back by a caller that was waiting for it, too.
HeldByAll(h) == 1
\* A slot is given back by the one who holds it, however the call ends.
Held(h) == IF pc[h] = "calling" THEN 1 ELSE 0

Returned(h) ==
    /\ slots' = slots + Held(h)
    /\ Leave(h)
    /\ UNCHANGED <<unasked, lookups>>

Reply(h) ==
    /\ pc[h] = "calling"
    /\ \E status \in ApprovalStatuses \cup {"absent"} :
          LET approval == Shown(GetStatus(GetApproval(Authorization, status))) IN
          hidden' = (hidden \/ (status # "absent" /\ approval # status))
    /\ Returned(h)
    /\ UNCHANGED faults

\* httpx.HTTPError, its own timeout among them, or a body that is no snapshot.
CallFails(h) ==
    pc[h] = "calling" /\ Fault /\ Returned(h) /\ UNCHANGED hidden

\* Mutant: the deadline is around the call and not around the wait for a slot.
DeadlineOfCall(h) == pc[h] = "calling"
\* asyncio.timeout() around the semaphore and the call.
DeadlineCovers(h) == pc[h] \in {"queued", "calling"}

Timeout(h) ==
    DeadlineCovers(h) /\ Returned(h) /\ UNCHANGED <<hidden, faults>>
=============================================================================
