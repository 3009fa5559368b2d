--------------------------- MODULE ApprovalProofs ---------------------------
(***************************************************************************)
(* TLAPS proofs about Approval, for any number of invoices, handlers,       *)
(* events, calls, retries, faults, crashes and overlaps.                    *)
(***************************************************************************)
EXTENDS Approval, TLAPS

\* What a handler saves, by what it was asked.
DraftOK(op, d) ==
    \/ op = "approve" /\ d.status = "approved"
    \/ op = "reject" /\ d.status = "rejected"
    \/ op = "request_info" /\ d.status = "waiting_info"
    \/ op = "additional_info" /\ d.status = "pending" /\ d.info
    \/ op = "escalate" /\ d.status = "pending" /\ ~d.info

\* A handler at work, and its place in save().
HandlerOK(h) ==
    /\ pc[h] = "idle" <=> request[h] = NoRequest
    /\ pc[h] # "idle" =>
          /\ DraftOK(request[h].op, draft[h])
          /\ request[h].op = "escalate" => Escalation(request[h].tid) \in Events
    /\ pc[h] = "publish" => request[h].op \in {"approve", "reject"}
    /\ h \in current => pc[h] = "write" /\ seen[h] = index

\* The index holds each tracking id at most once, and only ones that have a record;
\* it exists from the first creation on. With one creation it holds them all.
IndexOK ==
    /\ \A i, j \in 1..Len(index) : index[i] = index[j] => i = j
    /\ \A i \in 1..Len(index) : approvals[index[i]].status # "none"
    /\ index = <<>> <=> creations = 0
    /\ creations <= 1 =>
          \A t \in TrackingIds : approvals[t].status # "none" => \E i \in 1..Len(index) : index[i] = t

\* The resolution has been announced, or a handler is about to.
Announcing(t, r) ==
    \/ published[t][r] > 0
    \/ \E h \in Handlers : pc[h] = "publish" /\ request[h].tid = t /\ draft[h].status = r

\* Unless something failed, a recorded resolution is or will be announced.
WillAnnounce ==
    faults = 0 /\ crashes = 0 =>
        \A t \in TrackingIds, r \in Resolutions : approvals[t].status = r => Announcing(t, r)

\* What is not tracked has no answer of the submitter.
NoAnswerYet == \A t \in TrackingIds : approvals[t].status = "none" => ~approvals[t].info

\* The inductive invariant.
ApprovalInv ==
    /\ TypeOK
    /\ IndexOK /\ NoAnswerYet /\ WillAnnounce
    /\ \A h \in Handlers : HandlerOK(h)

-----------------------------------------------------------------------------
(* As long as nothing has overlapped                                        *)

\* Nobody else works on the approval of a handler at work.
OnePerApproval ==
    \A h, i \in Handlers :
        pc[h] # "idle" /\ pc[i] # "idle" /\ request[h].tid = request[i].tid => h = i

\* The record is what the handler of it read, or what it has saved already.
ReadOrSaved(h) ==
    LET t == request[h].tid IN
    /\ published[t]["approved"] = 0 /\ published[t]["rejected"] = 0
    /\ \/ approvals[t] = draft[h]
       \/ /\ pc[h] # "publish"
          /\ \/ request[h].op = "escalate" /\ approvals[t].status = "none"
             \/ request[h].op = "additional_info" /\ approvals[t].status = "waiting_info"
             \/ /\ request[h].op \in {"approve", "reject", "request_info"}
                /\ approvals[t].status \in Actionable /\ approvals[t].info = draft[h].info

\* AnnouncedIsRecorded, for the time without overlaps.
AnnouncedOnce ==
    \A t \in TrackingIds :
        /\ published[t]["approved"] + published[t]["rejected"] <= 1
        /\ \A r \in Resolutions : published[t][r] > 0 => approvals[t].status = r

Serial ==
    /\ OnePerApproval
    /\ \A h \in Handlers : pc[h] # "idle" => ReadOrSaved(h)
    /\ AnnouncedOnce

SerialInv == ApprovalInv /\ (overlaps = 0 => Serial)

-----------------------------------------------------------------------------
(* The handlers' local state                                                *)

\* A step of h leaves the other handlers alone.
Frame(h) ==
    \A i \in Handlers \ {h} :
        pc'[i] = pc[i] /\ request'[i] = request[i] /\ draft'[i] = draft[i] /\ seen'[i] = seen[i]

\* The types of the local state.
LocalTypes ==
    /\ pc \in [Handlers -> Steps]
    /\ request \in [Handlers -> Requests \cup {NoRequest}]
    /\ draft \in [Handlers -> Approvals]
    /\ seen \in [Handlers -> Seq(TrackingIds)]
    /\ tries \in [Handlers -> 1..MaxRetries]

\* The handler is done; or it goes on with the same request and draft.
Left(h) == pc'[h] = "idle" /\ request'[h] = NoRequest
Kept(h) == request'[h] = request[h] /\ draft'[h] = draft[h]

\* The approvals and the requests the code makes are of their types.
LEMMA Shapes ==
    /\ NoApproval \in Approvals /\ <<>> \in Seq(TrackingIds) /\ 1 \in 1..MaxRetries
    /\ {"idle", "index", "write", "publish"} \subseteq Steps
    /\ [status |-> "pending", info |-> FALSE] \in Approvals
    /\ [status |-> "pending", info |-> TRUE] \in Approvals
    /\ NoRequest \notin Requests
<1>1. /\ NoApproval \in Approvals /\ [status |-> "pending", info |-> FALSE] \in Approvals
      /\ [status |-> "pending", info |-> TRUE] \in Approvals
  BY DEF NoApproval, Approvals, Actionable
<1>2. <<>> \in Seq(TrackingIds) OBVIOUS
<1>4. 1 \in 1..MaxRetries BY ApprovalAssumption
<1>3. {"idle", "index", "write", "publish"} \subseteq Steps BY DEF Steps
<1> QED BY <1>1, <1>2, <1>3, <1>4, ApprovalAssumption

\* Setting the status keeps the submitter's answer.
LEMMA StatusSet ==
    ASSUME NEW a \in Approvals, NEW x \in Actionable \cup Resolutions
    PROVE  /\ [a EXCEPT !.status = x] \in Approvals
           /\ [a EXCEPT !.status = x].status = x
           /\ [a EXCEPT !.status = x].info = a.info
  BY DEF Approvals

\* A handler that returns or raises is idle again.
LEMMA LeaveEffect ==
    ASSUME TypeOK, NEW h \in Handlers, Leave(h)
    PROVE  Frame(h) /\ Left(h) /\ LocalTypes'
<1>1. Frame(h) /\ Left(h) BY DEF Leave, TypeOK, Frame, Left
<1>2. LocalTypes' BY Shapes DEF Leave, TypeOK, LocalTypes
<1> QED BY <1>1, <1>2

\* A failed attempt is made again from the index, or the handler raises.
LEMMA RetryEffect ==
    ASSUME TypeOK, NEW h \in Handlers, Retry(h)
    PROVE  /\ Frame(h) /\ LocalTypes' /\ acked' = acked
           /\ (pc'[h] = "index" /\ Kept(h)) \/ Left(h)
<1>1. CASE LastAttempt(h) /\ GiveUp(h)
  BY <1>1, LeaveEffect DEF GiveUp
<1>2. CASE /\ ~LastAttempt(h)
           /\ tries' = [tries EXCEPT ![h] = @ + 1]
           /\ pc' = [pc EXCEPT ![h] = "index"]
           /\ seen' = [seen EXCEPT ![h] = <<>>]
           /\ UNCHANGED <<request, draft, acked>>
  <2>1. tries[h] \in 1..MaxRetries /\ tries[h] + 1 \in 1..MaxRetries
    BY <1>2, ApprovalAssumption DEF TypeOK, LastAttempt
  <2>2. tries' \in [Handlers -> 1..MaxRetries] BY <1>2, <2>1 DEF TypeOK
  <2>3. pc' \in [Handlers -> Steps] /\ seen' \in [Handlers -> Seq(TrackingIds)]
    BY <1>2, Shapes DEF TypeOK
  <2>4. Frame(h) /\ pc'[h] = "index" /\ Kept(h) BY <1>2 DEF TypeOK, Frame, Kept
  <2> QED BY <1>2, <2>2, <2>3, <2>4 DEF TypeOK, LocalTypes
<1> QED BY <1>1, <1>2 DEF Retry

\* After the save only approve and reject go on, to publish.
LEMMA SavedEffect ==
    ASSUME TypeOK, NEW h \in Handlers, HandlerOK(h), pc[h] # "idle", Saved(h)
    PROVE  /\ Frame(h) /\ LocalTypes' /\ acked' \subseteq Events
           /\ \/ pc'[h] = "publish" /\ Kept(h) /\ request[h].op \in {"approve", "reject"}
              \/ Left(h) /\ request[h].op \notin {"approve", "reject"}
<1>1. acked' \subseteq Events
  BY DEF Saved, TypeOK, HandlerOK, Tid
<1>2. CASE NextStep(h) = "publish"
  <2>1. request[h].op \in {"approve", "reject"} BY <1>2 DEF NextStep
  <2>2. /\ pc' = [pc EXCEPT ![h] = "publish"] /\ seen' = [seen EXCEPT ![h] = <<>>]
        /\ request' = request /\ draft' = draft /\ tries' = tries
    BY <1>2 DEF Saved
  <2>3. pc' \in [Handlers -> Steps] /\ seen' \in [Handlers -> Seq(TrackingIds)]
    BY <2>2, Shapes DEF TypeOK
  <2>4. Frame(h) /\ pc'[h] = "publish" /\ Kept(h) BY <2>2 DEF TypeOK, Frame, Kept
  <2> QED BY <1>1, <2>1, <2>2, <2>3, <2>4 DEF TypeOK, LocalTypes
<1>3. CASE NextStep(h) # "publish"
  <2>1. Leave(h) BY <1>3 DEF Saved
  <2>2. request[h].op \notin {"approve", "reject"} BY <1>3 DEF NextStep
  <2> QED BY <1>1, <2>1, <2>2, LeaveEffect
<1> QED BY <1>2, <1>3

\* The other handlers keep their part of the invariant: who still has the stored
\* etag has read the stored index.
LEMMA OthersKept ==
    ASSUME \A i \in Handlers : HandlerOK(i), NEW h \in Handlers, Frame(h),
           \A i \in Handlers \ {h} : i \in current' => i \in current /\ index' = index
    PROVE  \A i \in Handlers \ {h} : HandlerOK(i)'
<1> TAKE i \in Handlers \ {h}
<1>1. HandlerOK(i) OBVIOUS
<1>2. pc'[i] = pc[i] /\ request'[i] = request[i] /\ draft'[i] = draft[i] /\ seen'[i] = seen[i]
  BY DEF Frame
<1> QED BY <1>1, <1>2 DEF HandlerOK

\* What is announced, or about to be by another handler, stays so.
LEMMA AnnouncingKept ==
    ASSUME TypeOK, NEW h \in Handlers, Frame(h), NEW t \in TrackingIds, NEW r \in Resolutions,
           Announcing(t, r), published'[t][r] \in Nat, published'[t][r] >= published[t][r],
           pc[h] # "publish"
    PROVE  Announcing(t, r)'
<1>1. published[t][r] \in Nat BY DEF TypeOK
<1>2. CASE published[t][r] > 0
  <2>1. published'[t][r] > 0 BY <1>1, <1>2
  <2> QED BY <2>1 DEF Announcing
<1>3. CASE ~(published[t][r] > 0)
  <2>1. PICK i \in Handlers : pc[i] = "publish" /\ request[i].tid = t /\ draft[i].status = r
    BY <1>3 DEF Announcing
  <2>2. i # h BY <2>1
  <2>3. pc'[i] = "publish" /\ request'[i].tid = t /\ draft'[i].status = r BY <2>1, <2>2 DEF Frame
  <2> QED BY <2>3 DEF Announcing
<1> QED BY <1>2, <1>3

-----------------------------------------------------------------------------
(* Requests arrive                                                          *)

\* An arrival that overlaps is counted.
LEMMA ArriveCounts ==
    ASSUME TypeOK, NEW h \in Handlers, NEW t \in TrackingIds, Arrive(h, t)
    PROVE  overlaps' \in 0..MaxOverlaps /\ (overlaps' = 0 => overlaps = 0 /\ ~InFlight(t))
  BY ApprovalAssumption DEF Arrive, TypeOK

\* Nothing changes but what was acknowledged and the count of overlaps.
IgnoreEffect ==
    /\ approvals' = approvals /\ index' = index /\ current' = current /\ creations' = creations
    /\ pc' = pc /\ request' = request /\ draft' = draft /\ seen' = seen /\ tries' = tries
    /\ published' = published /\ requests' = requests /\ faults' = faults /\ crashes' = crashes

\* An event that is ignored changes nothing but what was acknowledged.
LEMMA QuietKeeps ==
    ASSUME ApprovalInv, IgnoreEffect, TypeOK'
    PROVE  ApprovalInv'
<1>1. IndexOK' BY DEF ApprovalInv, IndexOK, IgnoreEffect
<1>2. NoAnswerYet' BY DEF ApprovalInv, NoAnswerYet, IgnoreEffect
<1>3. WillAnnounce' BY DEF ApprovalInv, WillAnnounce, Announcing, IgnoreEffect
<1>4. \A h \in Handlers : HandlerOK(h)' BY DEF ApprovalInv, HandlerOK, IgnoreEffect
<1> QED BY <1>1, <1>2, <1>3, <1>4 DEF ApprovalInv

\* A redelivery, or an event of another route, is acknowledged and changes nothing else.
LEMMA IgnoreKeeps ==
    ASSUME ApprovalInv, NEW h \in Handlers, NEW e \in Events, Ignore(h, e)
    PROVE  ApprovalInv' /\ IgnoreEffect /\ (overlaps' = 0 => overlaps = 0)
<1>1. TypeOK /\ e.tid \in TrackingIds BY ApprovalAssumption DEF ApprovalInv
<1>2. IgnoreEffect /\ acked' = acked \cup {e} BY DEF Ignore, IgnoreEffect, store, local
<1>3. overlaps' \in 0..MaxOverlaps /\ (overlaps' = 0 => overlaps = 0)
  BY <1>1, ArriveCounts DEF Ignore
<1>4. TypeOK' BY <1>1, <1>2, <1>3 DEF TypeOK, IgnoreEffect
<1> QED BY <1>2, <1>3, <1>4, QuietKeeps

\* What a request that is taken on changes.
BeginEffect(h, t, op, a) ==
    /\ Frame(h)
    /\ pc'[h] = "index" /\ request'[h] = [tid |-> t, op |-> op] /\ draft'[h] = a
    /\ approvals' = approvals /\ index' = index /\ current' = current
    /\ published' = published /\ acked' = acked /\ faults' = faults /\ crashes' = crashes

\* A request that is taken on has drafted what its operation saves.
LEMMA BeginKeeps ==
    ASSUME ApprovalInv, NEW h \in Handlers, NEW t \in TrackingIds,
           NEW op \in Calls \cup {"escalate"}, NEW a \in Approvals,
           Arrive(h, t), Begin(h, t, op, a), acked' = acked, requests' \in 0..MaxRequests,
           DraftOK(op, a), op = "escalate" => Escalation(t) \in Events
    PROVE  ApprovalInv' /\ BeginEffect(h, t, op, a)
<1> DEFINE q == [tid |-> t, op |-> op]
<1>1. TypeOK /\ HandlerOK(h) /\ pc[h] = "idle" BY DEF ApprovalInv, Arrive
<1>2. q \in Requests /\ q # NoRequest BY Shapes DEF Requests
<1>3. /\ pc' = [pc EXCEPT ![h] = "index"] /\ request' = [request EXCEPT ![h] = q]
      /\ draft' = [draft EXCEPT ![h] = a] /\ tries' = [tries EXCEPT ![h] = 1]
      /\ approvals' = approvals /\ index' = index /\ current' = current /\ creations' = creations
      /\ seen' = seen /\ published' = published /\ crashes' = crashes /\ faults' = faults
  BY DEF Begin, store
<1>4. BeginEffect(h, t, op, a) BY <1>1, <1>3 DEF BeginEffect, Frame, TypeOK
<1>5. /\ pc' \in [Handlers -> Steps] /\ request' \in [Handlers -> Requests \cup {NoRequest}]
      /\ draft' \in [Handlers -> Approvals] /\ tries' \in [Handlers -> 1..MaxRetries]
  BY <1>1, <1>2, <1>3, Shapes DEF TypeOK
<1>6. overlaps' \in 0..MaxOverlaps BY <1>1, ArriveCounts
<1>7. TypeOK' BY <1>1, <1>3, <1>5, <1>6 DEF TypeOK
<1>8. IndexOK' BY <1>3 DEF ApprovalInv, IndexOK
<1>9. NoAnswerYet' BY <1>3 DEF ApprovalInv, NoAnswerYet
<1>10. WillAnnounce'
  <2> SUFFICES ASSUME faults = 0, crashes = 0, NEW u \in TrackingIds, NEW r \in Resolutions,
                      approvals[u].status = r
               PROVE  Announcing(u, r)'
    BY <1>3 DEF WillAnnounce
  <2>1. Announcing(u, r) BY DEF ApprovalInv, WillAnnounce
  <2>2. published'[u][r] \in Nat /\ published'[u][r] >= published[u][r] BY <1>1, <1>3 DEF TypeOK
  <2> QED BY <1>1, <1>4, <2>1, <2>2, AnnouncingKept DEF BeginEffect
<1>11. \A i \in Handlers \ {h} : HandlerOK(i)'
  BY <1>3, <1>4, OthersKept DEF ApprovalInv, BeginEffect
<1>12. h \notin current BY <1>1 DEF HandlerOK
<1>13. q.op = op /\ q.tid = t OBVIOUS
<1>14. HandlerOK(h)' BY <1>2, <1>3, <1>4, <1>12, <1>13 DEF HandlerOK, BeginEffect
<1> QED BY <1>4, <1>7, <1>8, <1>9, <1>10, <1>11, <1>14 DEF ApprovalInv

\* Every request that is taken on, with what it had read of the record.
Taken(h, t, op, a) ==
    /\ BeginEffect(h, t, op, a) /\ DraftOK(op, a)
    /\ overlaps' = 0 => overlaps = 0 /\ ~InFlight(t)
    /\ \/ op = "escalate" /\ approvals[t].status = "none"
       \/ op = "additional_info" /\ approvals[t].status = "waiting_info"
       \/ /\ op \in {"approve", "reject", "request_info"}
          /\ approvals[t].status \in Actionable /\ a.info = approvals[t].info

\* h takes a request on.
TakesOn(h) ==
    \E t \in TrackingIds, op \in Calls \cup {"escalate"}, a \in Approvals : Taken(h, t, op, a)

\* An escalation finds no record.
LEMMA EscalateKeeps ==
    ASSUME ApprovalInv, NEW h \in Handlers, NEW e \in Events, Escalate(h, e)
    PROVE  ApprovalInv' /\ TakesOn(h)
<1> DEFINE a == [status |-> "pending", info |-> FALSE]
<1>1. TypeOK BY DEF ApprovalInv
<1>2. PICK t \in TrackingIds : t = e.tid BY ApprovalAssumption
<1>3. e = Escalation(t) BY <1>2, ApprovalAssumption DEF Escalate, Escalation
<1>4. a \in Approvals /\ DraftOK("escalate", a) BY Shapes DEF DraftOK
<1>5. /\ Arrive(h, t) /\ Begin(h, t, "escalate", a) /\ acked' = acked
      /\ requests' \in 0..MaxRequests /\ approvals[t].status = "none"
  BY <1>1, <1>2 DEF Escalate, Known, TypeOK
<1>6. Escalation(t) \in Events BY <1>3
<1>7. ApprovalInv' /\ BeginEffect(h, t, "escalate", a) BY <1>4, <1>5, <1>6, BeginKeeps
<1>8. Taken(h, t, "escalate", a) BY <1>1, <1>4, <1>5, <1>7, ArriveCounts DEF Taken
<1> QED BY <1>7, <1>8, <1>4 DEF TakesOn

\* approve() and reject() find the approval open.
LEMMA ResolveKeeps ==
    ASSUME ApprovalInv, NEW h \in Handlers, NEW t \in TrackingIds, Resolve(h, t)
    PROVE  ApprovalInv' /\ TakesOn(h)
<1>1. TypeOK /\ approvals[t] \in Approvals BY DEF ApprovalInv, TypeOK
<1>2. PICK op \in {"approve", "reject"} :
        /\ Call(h, t, op)
        /\ Begin(h, t, op, [approvals[t] EXCEPT !.status =
                               IF op = "approve" THEN "approved" ELSE "rejected"])
  BY DEF Resolve
<1>3. PICK x \in Resolutions : x = IF op = "approve" THEN "approved" ELSE "rejected"
  BY DEF Resolutions
<1>4. PICK a : a = [approvals[t] EXCEPT !.status = x] OBVIOUS
<1>5. a \in Approvals /\ a.status = x /\ a.info = approvals[t].info BY <1>1, <1>4, StatusSet
<1>6. DraftOK(op, a) /\ op \in Calls BY <1>2, <1>3, <1>5 DEF DraftOK, Calls
<1>7. Begin(h, t, op, a) BY <1>2, <1>3, <1>4
<1>8. Arrive(h, t) /\ acked' = acked /\ requests' \in 0..MaxRequests /\ approvals[t].status \in Actionable
  BY <1>1, <1>2, ApprovalAssumption DEF Call, TypeOK, Resolve, RequireActionable
<1>9. ApprovalInv' /\ BeginEffect(h, t, op, a) BY <1>5, <1>6, <1>7, <1>8, BeginKeeps
<1>10. Taken(h, t, op, a) BY <1>1, <1>5, <1>6, <1>8, <1>9, ArriveCounts DEF Taken
<1> QED BY <1>9, <1>10, <1>5, <1>6 DEF TakesOn

\* request_info() finds it open and keeps the answer given before.
LEMMA RequestInfoKeeps ==
    ASSUME ApprovalInv, NEW h \in Handlers, NEW t \in TrackingIds, RequestInfo(h, t)
    PROVE  ApprovalInv' /\ TakesOn(h)
<1>1. TypeOK /\ approvals[t] \in Approvals BY DEF ApprovalInv, TypeOK
<1>2. PICK a : a = [approvals[t] EXCEPT !.status = "waiting_info"] OBVIOUS
<1>3. "waiting_info" \in Actionable BY DEF Actionable
<1>4. a \in Approvals /\ a.status = "waiting_info" /\ a.info = approvals[t].info
  BY <1>1, <1>2, <1>3, StatusSet
<1>5. DraftOK("request_info", a) /\ "request_info" \in Calls BY <1>4 DEF DraftOK, Calls
<1>6. Begin(h, t, "request_info", a) BY <1>2 DEF RequestInfo
<1>7. Arrive(h, t) /\ acked' = acked /\ requests' \in 0..MaxRequests /\ approvals[t].status \in Actionable
  BY <1>1, ApprovalAssumption DEF Call, TypeOK, RequestInfo, RequireActionable
<1>8. ApprovalInv' /\ BeginEffect(h, t, "request_info", a) BY <1>4, <1>5, <1>6, <1>7, BeginKeeps
<1>9. Taken(h, t, "request_info", a) BY <1>1, <1>4, <1>5, <1>7, <1>8, ArriveCounts DEF Taken
<1> QED BY <1>8, <1>9, <1>4, <1>5 DEF TakesOn

\* add_additional_info() finds it waiting.
LEMMA AddAdditionalInfoKeeps ==
    ASSUME ApprovalInv, NEW h \in Handlers, NEW t \in TrackingIds, AddAdditionalInfo(h, t)
    PROVE  ApprovalInv' /\ TakesOn(h)
<1> DEFINE a == [status |-> "pending", info |-> TRUE]
<1>1. TypeOK BY DEF ApprovalInv
<1>2. a \in Approvals /\ DraftOK("additional_info", a) /\ "additional_info" \in Calls
  BY Shapes DEF DraftOK, Calls
<1>3. /\ Arrive(h, t) /\ Begin(h, t, "additional_info", a) /\ acked' = acked
      /\ requests' \in 0..MaxRequests /\ approvals[t].status = "waiting_info"
  BY <1>1, ApprovalAssumption DEF Call, TypeOK, AddAdditionalInfo
<1>4. ApprovalInv' /\ BeginEffect(h, t, "additional_info", a) BY <1>2, <1>3, BeginKeeps
<1>5. Taken(h, t, "additional_info", a) BY <1>1, <1>2, <1>3, <1>4, ArriveCounts DEF Taken
<1> QED BY <1>4, <1>5, <1>2 DEF TakesOn

-----------------------------------------------------------------------------
(* save() and publish()                                                     *)

\* A handler at work has a request, and its draft is a record.
LEMMA AtWork ==
    ASSUME ApprovalInv, NEW h \in Handlers, pc[h] # "idle"
    PROVE  /\ request[h] \in Requests /\ request[h].tid \in TrackingIds
           /\ HandlerOK(h) /\ DraftOK(request[h].op, draft[h]) /\ draft[h] \in Approvals
           /\ draft[h].status # "none"
           /\ draft[h].status \in Resolutions => request[h].op \in {"approve", "reject"}
           /\ request[h].op \in {"approve", "reject"} => draft[h].status \in Resolutions
<1>1. HandlerOK(h) /\ TypeOK BY DEF ApprovalInv
<1>2. request[h] \in Requests BY <1>1 DEF HandlerOK, TypeOK
<1>3. DraftOK(request[h].op, draft[h]) BY <1>1 DEF HandlerOK
<1>4. request[h].tid \in TrackingIds BY <1>2 DEF Requests
<1>5. draft[h] \in Approvals BY <1>1 DEF TypeOK
<1> QED BY <1>1, <1>2, <1>3, <1>4, <1>5 DEF DraftOK, Resolutions

\* A save that takes effect: the etag shows that the index is still the one read.
WrittenEffect(h, t) ==
    /\ approvals'[t] = draft[h]
    /\ \A u \in TrackingIds \ {t} : approvals'[u] = approvals[u]
    /\ approvals' \in [TrackingIds -> Approvals]
    /\ index' \in Seq(TrackingIds) /\ current' = {} /\ creations' \in Nat

\* What an index s may be said of: u is in it, it has nothing twice, nothing outside S.
Lists(s, u) == \E i \in 1..Len(s) : s[i] = u
NothingTwice(s) == \A i, j \in 1..Len(s) : s[i] = s[j] => i = j
Only(s, S) == \A i \in 1..Len(s) : s[i] \in S

\* An index with t added unless it is there.
LEMMA ListedOnce ==
    ASSUME NEW s \in Seq(TrackingIds), NEW t \in TrackingIds, NEW S,
           NothingTwice(s), Only(s, S),
           NEW n, n = IF Lists(s, t) THEN s ELSE Append(s, t)
    PROVE  /\ n \in Seq(TrackingIds) /\ n # <<>> /\ Lists(n, t)
           /\ NothingTwice(n) /\ Only(n, S \cup {t})
           /\ \A u \in TrackingIds : Lists(s, u) => Lists(n, u)
<1>1. Len(s) \in Nat OBVIOUS
<1>2. CASE Lists(s, t)
  <2>1. n = s BY <1>2
  <2>2. s # <<>> BY <1>2 DEF Lists
  <2> QED BY <1>2, <2>1, <2>2 DEF Only
<1>3. CASE ~Lists(s, t)
  <2>1. n = Append(s, t) BY <1>3
  <2>2. /\ n \in Seq(TrackingIds) /\ Len(n) = Len(s) + 1
        /\ \A i \in 1..Len(s) : n[i] = s[i]
        /\ n[Len(s) + 1] = t
    BY <1>1, <2>1
  <2>3. 1..Len(n) = 1..Len(s) \cup {Len(s) + 1} BY <1>1, <2>2
  <2>4. NothingTwice(n) BY <1>3, <2>2, <2>3 DEF NothingTwice, Lists
  <2>5. Only(n, S \cup {t}) BY <2>2, <2>3 DEF Only
  <2>6. Lists(n, t) /\ \A u \in TrackingIds : Lists(s, u) => Lists(n, u)
    BY <2>2, <2>3 DEF Lists
  <2>7. n # <<>> BY <1>1, <2>2
  <2> QED BY <2>2, <2>4, <2>5, <2>6, <2>7
<1> QED BY <1>2, <1>3

\* Written on the index that is stored, the list stays exact; a second creation
\* starts the list again, with an approval that has its record.
LEMMA WrittenKeeps ==
    ASSUME ApprovalInv, NEW h \in Handlers, pc[h] = "write", Written(h),
           NEW t \in TrackingIds, t = request[h].tid
    PROVE  WrittenEffect(h, t) /\ IndexOK' /\ NoAnswerYet'
<1>1. /\ TypeOK /\ HandlerOK(h) /\ IndexOK
      /\ draft[h] \in Approvals /\ draft[h].status # "none"
  BY AtWork DEF ApprovalInv
<1>2. current' = {} /\ creations \in Nat /\ seen[h] \in Seq(TrackingIds) /\ index \in Seq(TrackingIds)
  BY <1>1 DEF Written, TypeOK
<1>3. approvals' = [approvals EXCEPT ![t] = draft[h]] BY DEF Written, Tid
<1>4. /\ index' = IF Lists(seen[h], t) THEN seen[h] ELSE Append(seen[h], t)
      /\ creations' = IF seen[h] = <<>> THEN creations + 1 ELSE creations
  BY DEF Written, Tid, Contains, Lists
<1>5. /\ approvals'[t] = draft[h]
      /\ \A u \in TrackingIds \ {t} : approvals'[u] = approvals[u]
      /\ approvals' \in [TrackingIds -> Approvals]
  BY <1>1, <1>3 DEF TypeOK
<1>6. NoAnswerYet' BY <1>1, <1>5 DEF ApprovalInv, NoAnswerYet
<1>7. seen[h] = index \/ seen[h] = <<>> BY <1>1 DEF Written, EtagMatches, HandlerOK
<1> DEFINE S == {u \in TrackingIds : approvals[u].status # "none"}
<1>8. NothingTwice(seen[h]) /\ Only(seen[h], S)
  <2>1. CASE seen[h] = <<>> BY <2>1 DEF NothingTwice, Only
  <2>2. CASE seen[h] = index BY <1>1, <1>2, <2>2 DEF IndexOK, NothingTwice, Only
  <2> QED BY <1>7, <2>1, <2>2
<1>9. /\ index' \in Seq(TrackingIds) /\ index' # <<>> /\ Lists(index', t)
      /\ NothingTwice(index') /\ Only(index', S \cup {t})
      /\ \A u \in TrackingIds : Lists(seen[h], u) => Lists(index', u)
  <2> HIDE DEF S
  <2> QED BY <1>2, <1>4, <1>8, ListedOnce
<1>10. \A i \in 1..Len(index') : approvals'[index'[i]].status # "none"
  BY <1>1, <1>5, <1>9 DEF Only
<1>11. creations' \in Nat /\ creations' # 0
  BY <1>1, <1>2, <1>4, <1>7 DEF IndexOK
<1>12. ASSUME creations' <= 1, NEW u \in TrackingIds, approvals'[u].status # "none"
       PROVE  Lists(index', u)
  <2>1. seen[h] = index /\ creations <= 1 BY <1>1, <1>2, <1>4, <1>7, <1>12 DEF IndexOK
  <2>2. CASE u = t BY <1>9, <2>2
  <2>3. CASE u # t
    <3>1. approvals[u].status # "none" BY <1>5, <1>12, <2>3
    <3>2. Lists(index, u) BY <1>1, <2>1, <3>1 DEF IndexOK, Lists
    <3> QED BY <1>9, <2>1, <3>2
  <2> QED BY <2>2, <2>3
<1>13. IndexOK' BY <1>9, <1>10, <1>11, <1>12 DEF IndexOK, NothingTwice, Lists
<1> QED BY <1>2, <1>5, <1>6, <1>9, <1>11, <1>13 DEF WrittenEffect

\* The store is written, or left as it is.
StoreStep(h, t) ==
    \/ WrittenEffect(h, t)
    \/ /\ approvals' = approvals /\ index' = index
       /\ current' \subseteq current /\ creations' = creations

\* What a step of save() changes: its own local state, and perhaps the store.
SaveStep(h, t) ==
    /\ Frame(h) /\ StoreStep(h, t) /\ h \notin current'
    /\ \/ pc'[h] = "publish" /\ Kept(h) /\ request[h].op \in {"approve", "reject"} /\ approvals'[t] = draft[h]
       \/ pc'[h] = "index" /\ Kept(h)
       \/ Left(h)
    /\ published' = published /\ requests' = requests /\ crashes' = crashes /\ overlaps' = overlaps
    /\ faults' = faults \/ (faults < MaxFaults /\ faults' = faults + 1)
    /\ faults' = faults => \/ approvals' = approvals
                           \/ pc'[h] = "publish" \/ request[h].op \notin {"approve", "reject"}

\* The four outcomes of an attempt to save, taken together.
LEMMA WriteEffect ==
    ASSUME ApprovalInv, NEW h \in Handlers, Write(h)
    PROVE  /\ request[h].tid \in TrackingIds /\ SaveStep(h, request[h].tid)
           /\ IndexOK' /\ NoAnswerYet' /\ LocalTypes' /\ acked' \subseteq Events
<1>1. TypeOK /\ HandlerOK(h) /\ pc[h] = "write" /\ faults \in Nat BY ApprovalAssumption DEF ApprovalInv, Write, TypeOK
<1>2. PICK t \in TrackingIds : t = request[h].tid BY <1>1, AtWork
<1>3. published' = published /\ requests' = requests /\ crashes' = crashes /\ overlaps' = overlaps
  BY DEF Write
<1>4. CASE Written(h) /\ Saved(h) /\ UNCHANGED faults
  <2>1. WrittenEffect(h, t) /\ IndexOK' /\ NoAnswerYet' BY <1>1, <1>2, <1>4, WrittenKeeps
  <2>2. /\ Frame(h) /\ LocalTypes' /\ acked' \subseteq Events
        /\ \/ pc'[h] = "publish" /\ Kept(h) /\ request[h].op \in {"approve", "reject"}
           \/ Left(h) /\ request[h].op \notin {"approve", "reject"}
    BY <1>1, <1>4, SavedEffect
  <2>3. SaveStep(h, t) BY <1>3, <1>4, <2>1, <2>2 DEF SaveStep, StoreStep, WrittenEffect
  <2> QED BY <1>2, <2>1, <2>2, <2>3
<1>5. CASE Written(h) /\ Fault /\ Retry(h)
  <2>1. WrittenEffect(h, t) /\ IndexOK' /\ NoAnswerYet' BY <1>1, <1>2, <1>5, WrittenKeeps
  <2>2. /\ Frame(h) /\ LocalTypes' /\ acked' = acked
        /\ (pc'[h] = "index" /\ Kept(h)) \/ Left(h)
    BY <1>1, <1>5, RetryEffect
  <2>3. faults < MaxFaults /\ faults' = faults + 1 /\ faults' # faults BY <1>1, <1>5 DEF Fault
  <2>4. SaveStep(h, t) BY <1>3, <2>1, <2>2, <2>3 DEF SaveStep, StoreStep, WrittenEffect
  <2>5. acked' \subseteq Events BY <1>1, <2>2 DEF TypeOK
  <2> QED BY <1>2, <2>1, <2>2, <2>4, <2>5
<1>6. CASE \/ ~EtagMatches(h) /\ Retry(h) /\ UNCHANGED <<store, faults>>
           \/ Fault /\ Retry(h) /\ current' = current \ {h} /\ UNCHANGED <<approvals, index, creations>>
  <2>1. /\ approvals' = approvals /\ index' = index /\ current' \subseteq current /\ h \notin current'
        /\ creations' = creations
        /\ Retry(h) /\ (faults' = faults \/ (faults < MaxFaults /\ faults' = faults + 1))
    BY <1>6 DEF store, Fault, EtagMatches
  <2>2. /\ Frame(h) /\ LocalTypes' /\ acked' = acked
        /\ (pc'[h] = "index" /\ Kept(h)) \/ Left(h)
    BY <1>1, <2>1, RetryEffect
  <2>3. SaveStep(h, t) BY <1>3, <2>1, <2>2 DEF SaveStep, StoreStep
  <2>4. IndexOK' BY <2>1 DEF ApprovalInv, IndexOK
  <2>5. NoAnswerYet' BY <2>1 DEF ApprovalInv, NoAnswerYet
  <2>6. acked' \subseteq Events BY <1>1, <2>2 DEF TypeOK
  <2> QED BY <1>2, <2>2, <2>3, <2>4, <2>5, <2>6
<1> QED BY <1>4, <1>5, <1>6 DEF Write

\* An attempt to save keeps the invariant; one without a fault goes on to announce.
LEMMA WriteKeeps ==
    ASSUME ApprovalInv, NEW h \in Handlers, Write(h)
    PROVE  ApprovalInv'
<1>1. /\ SaveStep(h, request[h].tid) /\ request[h].tid \in TrackingIds
      /\ IndexOK' /\ NoAnswerYet' /\ LocalTypes' /\ acked' \subseteq Events
  BY WriteEffect
<1>2. TypeOK /\ pc[h] = "write" /\ HandlerOK(h) BY DEF ApprovalInv, Write
<1>3. PICK t \in TrackingIds : t = request[h].tid BY <1>1
<1>4. SaveStep(h, t) BY <1>1, <1>3
<1>5. /\ approvals' \in [TrackingIds -> Approvals] /\ index' \in Seq(TrackingIds)
      /\ current' \subseteq Handlers /\ creations' \in Nat
  BY <1>2, <1>4 DEF SaveStep, StoreStep, WrittenEffect, TypeOK
<1>6. faults' \in 0..MaxFaults BY <1>2, <1>4, ApprovalAssumption DEF SaveStep, TypeOK
<1>7. TypeOK' BY <1>1, <1>2, <1>4, <1>5, <1>6 DEF SaveStep, TypeOK, LocalTypes
<1>8. WillAnnounce'
  <2> SUFFICES ASSUME faults' = 0, crashes' = 0, NEW u \in TrackingIds, NEW r \in Resolutions,
                      approvals'[u].status = r
               PROVE  Announcing(u, r)'
    BY DEF WillAnnounce
  <2>1. faults = 0 /\ faults' = faults /\ crashes = 0
    BY <1>2, <1>4, ApprovalAssumption DEF SaveStep, TypeOK
  <2>2. CASE approvals'[u] = approvals[u]
    <3>1. Announcing(u, r) BY <2>1, <2>2 DEF ApprovalInv, WillAnnounce
    <3>2. published'[u][r] \in Nat /\ published'[u][r] >= published[u][r] BY <1>2, <1>4 DEF SaveStep, TypeOK
    <3>3. Frame(h) BY <1>4 DEF SaveStep
    <3> QED BY <1>2, <3>1, <3>2, <3>3, AnnouncingKept
  <2>3. CASE approvals'[u] # approvals[u]
    <3>1. u = t /\ approvals'[u] = draft[h] BY <1>4, <2>3 DEF SaveStep, StoreStep, WrittenEffect
    <3>2. request[h].op \in {"approve", "reject"} BY <1>2, <3>1, AtWork
    <3>3. pc'[h] = "publish" BY <1>4, <2>1, <2>3, <3>2 DEF SaveStep
    <3>4. Kept(h) BY <1>4, <3>3 DEF SaveStep, Left
    <3>5. request'[h].tid = u /\ draft'[h].status = r BY <1>3, <3>1, <3>4 DEF Kept
    <3> QED BY <3>3, <3>5 DEF Announcing
  <2> QED BY <2>2, <2>3
<1>9. \A i \in Handlers \ {h} : HandlerOK(i)'
  BY <1>4, OthersKept DEF ApprovalInv, SaveStep, StoreStep, WrittenEffect
<1>10. HandlerOK(h)'
  <2>1. CASE Left(h) BY <1>4, <2>1 DEF SaveStep, HandlerOK, Left
  <2>2. CASE ~Left(h)
    <3>1. /\ pc'[h] \in {"index", "publish"} /\ Kept(h)
          /\ pc'[h] = "publish" => request[h].op \in {"approve", "reject"}
          /\ h \notin current'
      BY <1>4, <2>2 DEF SaveStep
    <3> QED BY <1>2, <3>1 DEF HandlerOK, Kept
  <2> QED BY <2>1, <2>2
<1> QED BY <1>1, <1>7, <1>8, <1>9, <1>10 DEF ApprovalInv

\* The index is read with its etag, or the read fails and the handler raises.
ReadIndexEffect(h) ==
    /\ Frame(h)
    /\ (pc'[h] = "write" /\ Kept(h)) \/ Left(h)
    /\ approvals' = approvals /\ index' = index /\ creations' = creations /\ published' = published
    /\ requests' = requests /\ crashes' = crashes /\ overlaps' = overlaps

\* Who has just read the index has the stored one.
LEMMA ReadIndexKeeps ==
    ASSUME ApprovalInv, NEW h \in Handlers, ReadIndex(h)
    PROVE  ApprovalInv' /\ ReadIndexEffect(h)
<1>1. TypeOK /\ pc[h] = "index" /\ HandlerOK(h) BY DEF ApprovalInv, ReadIndex
<1>2. /\ approvals' = approvals /\ index' = index /\ creations' = creations /\ published' = published
      /\ requests' = requests /\ crashes' = crashes /\ overlaps' = overlaps
  BY DEF ReadIndex
<1>3. h \notin current BY <1>1 DEF HandlerOK
<1>4. /\ Frame(h) /\ LocalTypes' /\ acked' = acked /\ faults' \in 0..MaxFaults
      /\ faults' = 0 => faults = 0
      /\ \/ /\ pc'[h] = "write" /\ Kept(h) /\ seen'[h] = index /\ current' = current \cup {h}
         \/ Left(h) /\ current' = current
  <2>1. CASE /\ pc' = [pc EXCEPT ![h] = "write"]
             /\ seen' = [seen EXCEPT ![h] = index]
             /\ current' = current \cup {h}
             /\ UNCHANGED <<request, draft, tries, acked, faults>>
    <3>1. pc' \in [Handlers -> Steps] /\ seen' \in [Handlers -> Seq(TrackingIds)]
      BY <1>1, <2>1, Shapes DEF TypeOK
    <3>2. Frame(h) /\ pc'[h] = "write" /\ Kept(h) /\ seen'[h] = index
      BY <1>1, <2>1 DEF TypeOK, Frame, Kept
    <3> QED BY <1>1, <2>1, <3>1, <3>2 DEF TypeOK, LocalTypes
  <2>2. CASE Fault /\ GiveUp(h) /\ UNCHANGED current
    <3>1. Frame(h) /\ Left(h) /\ LocalTypes' BY <1>1, <2>2, LeaveEffect DEF GiveUp
    <3>2. faults' \in 0..MaxFaults /\ (faults' = 0 => faults = 0)
      BY <1>1, <2>2, ApprovalAssumption DEF Fault, TypeOK
    <3> QED BY <2>2, <3>1, <3>2 DEF GiveUp
  <2> QED BY <2>1, <2>2 DEF ReadIndex
<1>5. ReadIndexEffect(h) BY <1>2, <1>4 DEF ReadIndexEffect
<1>6. current' \subseteq Handlers BY <1>1, <1>4 DEF TypeOK
<1>7. TypeOK' BY <1>1, <1>2, <1>4, <1>6 DEF TypeOK, LocalTypes
<1>8. IndexOK' BY <1>2 DEF ApprovalInv, IndexOK
<1>9. NoAnswerYet' BY <1>2 DEF ApprovalInv, NoAnswerYet
<1>10. WillAnnounce'
  <2> SUFFICES ASSUME faults = 0, crashes = 0, NEW u \in TrackingIds, NEW r \in Resolutions,
                      approvals[u].status = r
               PROVE  Announcing(u, r)'
    BY <1>2, <1>4 DEF WillAnnounce
  <2>1. Announcing(u, r) BY DEF ApprovalInv, WillAnnounce
  <2>2. published'[u][r] \in Nat /\ published'[u][r] >= published[u][r] BY <1>1, <1>2 DEF TypeOK
  <2> QED BY <1>1, <1>4, <2>1, <2>2, AnnouncingKept
<1>11. \A i \in Handlers \ {h} : HandlerOK(i)'
  BY <1>2, <1>4, OthersKept DEF ApprovalInv
<1>12. HandlerOK(h)'
  <2>1. CASE Left(h) /\ current' = current BY <1>3, <2>1 DEF HandlerOK, Left
  <2>2. CASE pc'[h] = "write" /\ Kept(h) /\ seen'[h] = index
    BY <1>1, <1>2, <2>2 DEF HandlerOK, Kept
  <2> QED BY <1>4, <2>1, <2>2
<1> QED BY <1>5, <1>7, <1>8, <1>9, <1>10, <1>11, <1>12 DEF ApprovalInv

\* One more announcement of r for t, and no other.
LEMMA SentShape ==
    ASSUME NEW f \in [TrackingIds -> [Resolutions -> Nat]], NEW t \in TrackingIds, NEW r \in Resolutions
    PROVE  LET g == [f EXCEPT ![t][r] = @ + 1] IN
           /\ g \in [TrackingIds -> [Resolutions -> Nat]]
           /\ g[t][r] = f[t][r] + 1
           /\ \A q \in Resolutions \ {r} : g[t][q] = f[t][q]
           /\ \A u \in TrackingIds \ {t} : g[u] = f[u]
<1>1. f[t] \in [Resolutions -> Nat] /\ f[t][r] \in Nat OBVIOUS
<1>2. [f[t] EXCEPT ![r] = f[t][r] + 1] \in [Resolutions -> Nat] BY <1>1
<1> QED BY <1>1, <1>2

\* What publish() changes: it may tell one resolution once more, and returns.
PublishEffect(h, t, r) ==
    /\ Frame(h) /\ Left(h)
    /\ approvals' = approvals /\ index' = index /\ current' = current
    /\ requests' = requests /\ crashes' = crashes /\ overlaps' = overlaps
    /\ published' \in [TrackingIds -> [Resolutions -> Nat]]
    /\ \A u \in TrackingIds, q \in Resolutions :
          \/ published'[u][q] = published[u][q]
          \/ u = t /\ q = r /\ published'[u][q] = published[u][q] + 1
    /\ faults' \in 0..MaxFaults
    /\ faults' = 0 => faults = 0 /\ published'[t][r] = published[t][r] + 1

\* publish() tells what the handler saved, unless the call fails.
LEMMA PublishKeeps ==
    ASSUME ApprovalInv, NEW h \in Handlers, Publish(h)
    PROVE  ApprovalInv' /\ PublishEffect(h, request[h].tid, draft[h].status)
<1>1. TypeOK /\ pc[h] = "publish" /\ HandlerOK(h) BY DEF ApprovalInv, Publish
<1>2. PICK t \in TrackingIds : t = request[h].tid BY <1>1, AtWork
<1>3. request[h].op \in {"approve", "reject"} BY <1>1 DEF HandlerOK
<1>4. PICK r \in Resolutions : r = draft[h].status BY <1>1, <1>3, AtWork
<1>5. PICK sent : sent = [published EXCEPT ![t][r] = @ + 1] OBVIOUS
<1>6. /\ sent \in [TrackingIds -> [Resolutions -> Nat]]
      /\ sent[t][r] = published[t][r] + 1
      /\ \A q \in Resolutions \ {r} : sent[t][q] = published[t][q]
      /\ \A u \in TrackingIds \ {t} : sent[u] = published[u]
  BY <1>1, <1>5, SentShape DEF TypeOK
<1>7. /\ (published' = sent /\ faults' = faults) \/ (published' \in {published, sent} /\ Fault)
      /\ Leave(h) /\ acked' = acked
      /\ approvals' = approvals /\ index' = index /\ current' = current /\ creations' = creations
      /\ requests' = requests /\ crashes' = crashes /\ overlaps' = overlaps
  BY <1>2, <1>4, <1>5 DEF Publish, Tid, store
<1>8. Frame(h) /\ Left(h) /\ LocalTypes' BY <1>1, <1>7, LeaveEffect
<1>9. faults' \in 0..MaxFaults /\ (faults' = 0 => faults = 0 /\ published' = sent)
  BY <1>1, <1>7, ApprovalAssumption DEF Fault, TypeOK
<1>10. published' \in [TrackingIds -> [Resolutions -> Nat]] BY <1>1, <1>6, <1>7 DEF TypeOK
<1>11. \A u \in TrackingIds, q \in Resolutions :
          \/ published'[u][q] = published[u][q]
          \/ u = t /\ q = r /\ published'[u][q] = published[u][q] + 1
  BY <1>6, <1>7
<1>12. PublishEffect(h, t, r) BY <1>6, <1>7, <1>8, <1>9, <1>10, <1>11 DEF PublishEffect
<1>13. TypeOK' BY <1>1, <1>7, <1>8, <1>9, <1>10 DEF TypeOK, LocalTypes
<1>14. IndexOK' BY <1>7 DEF ApprovalInv, IndexOK
<1>15. NoAnswerYet' BY <1>7 DEF ApprovalInv, NoAnswerYet
<1>16. WillAnnounce'
  <2> SUFFICES ASSUME faults' = 0, crashes' = 0, NEW u \in TrackingIds, NEW q \in Resolutions,
                      approvals[u].status = q
               PROVE  Announcing(u, q)'
    BY <1>7 DEF WillAnnounce
  <2>1. faults = 0 /\ crashes = 0 /\ published'[t][r] = published[t][r] + 1 BY <1>6, <1>7, <1>9
  <2>2. Announcing(u, q) BY <2>1 DEF ApprovalInv, WillAnnounce
  <2>3. published[u][q] \in Nat /\ published'[u][q] \in Nat /\ published[t][r] \in Nat
    BY <1>1, <1>10 DEF TypeOK
  <2>4. CASE u = t /\ q = r
    <3>1. published'[u][q] > 0 BY <2>1, <2>3, <2>4
    <3> QED BY <3>1 DEF Announcing
  <2>5. CASE published[u][q] > 0
    <3>1. published'[u][q] > 0 BY <1>11, <2>3, <2>5
    <3> QED BY <3>1 DEF Announcing
  <2>6. CASE ~(u = t /\ q = r) /\ ~(published[u][q] > 0)
    <3>1. PICK i \in Handlers : pc[i] = "publish" /\ request[i].tid = u /\ draft[i].status = q
      BY <2>2, <2>6 DEF Announcing
    <3>2. i # h BY <1>2, <1>4, <2>6, <3>1
    <3>3. pc'[i] = "publish" /\ request'[i].tid = u /\ draft'[i].status = q
      BY <1>8, <3>1, <3>2 DEF Frame
    <3> QED BY <3>3 DEF Announcing
  <2> QED BY <2>4, <2>5, <2>6
<1>17. \A i \in Handlers \ {h} : HandlerOK(i)'
  BY <1>7, <1>8, OthersKept DEF ApprovalInv
<1>18. HandlerOK(h)'
  <2>1. h \notin current BY <1>1 DEF HandlerOK
  <2> QED BY <1>7, <1>8, <2>1 DEF HandlerOK, Left
<1>19. ApprovalInv' BY <1>13, <1>14, <1>15, <1>16, <1>17, <1>18 DEF ApprovalInv
<1> QED BY <1>2, <1>4, <1>12, <1>19

\* A crash loses the handlers and nothing that is stored or was told.
LEMMA CrashKeeps ==
    ASSUME ApprovalInv, Crash
    PROVE  /\ ApprovalInv' /\ approvals' = approvals /\ published' = published
           /\ overlaps' = overlaps /\ \A h \in Handlers : pc'[h] = "idle"
<1>1. TypeOK BY DEF ApprovalInv
<1>2. /\ pc' = [h \in Handlers |-> "idle"] /\ request' = [h \in Handlers |-> NoRequest]
      /\ draft' = [h \in Handlers |-> NoApproval] /\ seen' = [h \in Handlers |-> <<>>]
      /\ tries' = [h \in Handlers |-> 1] /\ current' = {} /\ creations' = creations
      /\ approvals' = approvals /\ index' = index /\ published' = published /\ acked' = acked
      /\ requests' = requests /\ faults' = faults /\ overlaps' = overlaps
  BY DEF Crash
<1>3. crashes' \in 0..MaxCrashes /\ crashes' # 0 BY <1>1, ApprovalAssumption DEF Crash, TypeOK
<1>4. /\ pc' \in [Handlers -> Steps] /\ request' \in [Handlers -> Requests \cup {NoRequest}]
      /\ draft' \in [Handlers -> Approvals] /\ seen' \in [Handlers -> Seq(TrackingIds)]
      /\ tries' \in [Handlers -> 1..MaxRetries]
  BY <1>2, Shapes
<1>5. TypeOK' BY <1>1, <1>2, <1>3, <1>4 DEF TypeOK
<1>6. IndexOK' BY <1>2 DEF ApprovalInv, IndexOK
<1>7. NoAnswerYet' BY <1>2 DEF ApprovalInv, NoAnswerYet
<1>8. WillAnnounce' BY <1>3 DEF WillAnnounce
<1>9. \A h \in Handlers : HandlerOK(h)' BY <1>2 DEF HandlerOK
<1> QED BY <1>2, <1>5, <1>6, <1>7, <1>8, <1>9 DEF ApprovalInv

-----------------------------------------------------------------------------
(* What holds whatever overlaps, fails or crashes                           *)

\* At first nothing is tracked.
LEMMA ApprovalInit == Init => ApprovalInv
<1> SUFFICES ASSUME Init PROVE ApprovalInv OBVIOUS
<1>1. TypeOK
  <2>1. index \in Seq(TrackingIds) BY DEF Init
  <2>2. /\ approvals \in [TrackingIds -> Approvals] /\ pc \in [Handlers -> Steps]
        /\ request \in [Handlers -> Requests \cup {NoRequest}]
        /\ draft \in [Handlers -> Approvals] /\ seen \in [Handlers -> Seq(TrackingIds)]
        /\ tries \in [Handlers -> 1..MaxRetries]
    BY Shapes DEF Init
  <2>3. published \in [TrackingIds -> [Resolutions -> Nat]] BY DEF Init
  <2>4. /\ requests \in 0..MaxRequests /\ faults \in 0..MaxFaults
        /\ crashes \in 0..MaxCrashes /\ overlaps \in 0..MaxOverlaps
    BY ApprovalAssumption DEF Init
  <2>5. current \subseteq Handlers /\ acked \subseteq Events /\ creations \in Nat BY DEF Init
  <2> QED BY <2>1, <2>2, <2>3, <2>4, <2>5 DEF TypeOK
<1>2. \A t \in TrackingIds : approvals[t].status = "none" /\ ~approvals[t].info
  BY DEF Init, NoApproval
<1>3. index = <<>> /\ Len(index) = 0 /\ creations = 0 BY DEF Init
<1>4. IndexOK BY <1>2, <1>3 DEF IndexOK
<1>5. NoAnswerYet BY <1>2 DEF NoAnswerYet
<1>6. WillAnnounce BY <1>2 DEF WillAnnounce, Resolutions
<1>7. \A h \in Handlers : HandlerOK(h) BY DEF Init, HandlerOK
<1> QED BY <1>1, <1>4, <1>5, <1>6, <1>7 DEF ApprovalInv

\* A step that changes nothing.
LEMMA ApprovalStutter ==
    ASSUME ApprovalInv, UNCHANGED vars
    PROVE  ApprovalInv' /\ IgnoreEffect /\ overlaps' = overlaps
<1>1. IgnoreEffect /\ overlaps' = overlaps /\ acked' = acked
  BY DEF vars, store, local, bounds, IgnoreEffect
<1>2. TypeOK' BY <1>1 DEF ApprovalInv, TypeOK, IgnoreEffect
<1> QED BY <1>1, <1>2, QuietKeeps

\* Every step keeps the invariant.
LEMMA ApprovalNext == ApprovalInv /\ [Next]_vars => ApprovalInv'
<1> SUFFICES ASSUME ApprovalInv, [Next]_vars PROVE ApprovalInv' OBVIOUS
<1>1. ASSUME NEW h \in Handlers, NEW e \in Events, Ignore(h, e) PROVE ApprovalInv'
  BY <1>1, IgnoreKeeps
<1>2. ASSUME NEW h \in Handlers, NEW e \in Events, Escalate(h, e) PROVE ApprovalInv'
  BY <1>2, EscalateKeeps
<1>3. ASSUME NEW h \in Handlers, NEW t \in TrackingIds, Resolve(h, t) PROVE ApprovalInv'
  BY <1>3, ResolveKeeps
<1>4. ASSUME NEW h \in Handlers, NEW t \in TrackingIds, RequestInfo(h, t) PROVE ApprovalInv'
  BY <1>4, RequestInfoKeeps
<1>5. ASSUME NEW h \in Handlers, NEW t \in TrackingIds, AddAdditionalInfo(h, t) PROVE ApprovalInv'
  BY <1>5, AddAdditionalInfoKeeps
<1>6. ASSUME NEW h \in Handlers, HandlerStep(h) PROVE ApprovalInv'
  BY <1>6, ReadIndexKeeps, WriteKeeps, PublishKeeps DEF HandlerStep
<1>7. CASE Crash BY <1>7, CrashKeeps
<1>8. CASE UNCHANGED vars BY <1>8, ApprovalStutter
<1> QED BY <1>1, <1>2, <1>3, <1>4, <1>5, <1>6, <1>7, <1>8 DEF Next

\* The inductive invariant: the list is exact but for racing creations, etags are
\* of the index read, drafts fit.
THEOREM ApprovalInvariant == Spec => []ApprovalInv
  BY ApprovalInit, ApprovalNext, PTL DEF Spec

\* Every variable stays in its range; in particular no attempt is made past
\* MaxRetries and nothing but a resolution is ever announced.
THEOREM ApprovalTyped == Spec => []TypeOK
<1>1. ApprovalInv => TypeOK BY DEF ApprovalInv
<1> QED BY <1>1, ApprovalInvariant, PTL

\* Whatever saves race, fail or lose their reply, the approver's list shows no
\* approval twice and none without its record; and it misses none, unless more
\* than one save created the index.
THEOREM ListIsExact == Spec => []IndexIsExact
<1>1. ApprovalInv => IndexIsExact
  <2> SUFFICES ASSUME ApprovalInv PROVE IndexIsExact OBVIOUS
  <2>1. index \in Seq(TrackingIds) BY DEF ApprovalInv, TypeOK
  <2>2. DOMAIN index = 1..Len(index) /\ \A i \in 1..Len(index) : index[i] \in TrackingIds BY <2>1
  <2>3. index = [i \in 1..Len(index) |-> index[i]] BY <2>1
  <2>4. IndexOK BY DEF ApprovalInv
  <2>5. {i \in DOMAIN index : approvals[index[i]].status # "none"} = 1..Len(index)
    BY <2>2, <2>4 DEF IndexOK
  <2>6. ListPending = [i \in 1..Len(index) |-> index[i]] BY <2>5 DEF ListPending, Restrict
  <2>7. ListPending = index BY <2>3, <2>6
  <2>8. IsInjective(index) BY <2>2, <2>4 DEF IndexOK, IsInjective
  <2>9. ASSUME creations <= 1
        PROVE  Range(index) = {t \in TrackingIds : approvals[t].status # "none"}
    BY <2>2, <2>4, <2>9 DEF IndexOK, Range
  <2> QED BY <2>7, <2>8, <2>9 DEF IndexIsExact
<1> QED BY <1>1, ApprovalInvariant, PTL

\* Unless a call fails or the process dies, a recorded resolution is announced by
\* the time nobody works on the approval, overlapping calls or not.
THEOREM ResolutionsAreAnnounced == Spec => []ResolutionIsAnnounced
<1>1. ApprovalInv => ResolutionIsAnnounced
  <2> SUFFICES ASSUME ApprovalInv, faults = 0, crashes = 0, NEW t \in TrackingIds, NEW r \in Resolutions,
                      approvals[t].status = r, ~InFlight(t)
               PROVE  published[t][r] > 0
    BY DEF ResolutionIsAnnounced
  <2>1. Announcing(t, r) BY DEF ApprovalInv, WillAnnounce
  <2>2. ASSUME NEW h \in Handlers, pc[h] = "publish", request[h].tid = t PROVE FALSE
    <3>1. HandlerOK(h) BY DEF ApprovalInv
    <3>2. request[h] # NoRequest BY <2>2, <3>1 DEF HandlerOK
    <3> QED BY <2>2, <3>2 DEF InFlight, Tid
  <2> QED BY <2>1, <2>2 DEF Announcing
<1> QED BY <1>1, ApprovalInvariant, PTL

-----------------------------------------------------------------------------
(* As long as nothing has overlapped                                        *)

\* A handler whose state, record and announcements stay keeps its part.
LEMMA SameReadOrSaved ==
    ASSUME NEW i \in Handlers, ReadOrSaved(i), pc'[i] = pc[i] \/ (pc[i] # "publish" /\ pc'[i] # "publish"),
           request'[i] = request[i], draft'[i] = draft[i],
           approvals'[request[i].tid] = approvals[request[i].tid],
           published'[request[i].tid] = published[request[i].tid]
    PROVE  ReadOrSaved(i)'
  BY DEF ReadOrSaved

\* Requests that go on, or return, stay one per approval.
LEMMA StillOne ==
    ASSUME OnePerApproval, NEW h \in Handlers, Frame(h), pc[h] # "idle",
           Left(h) \/ (pc'[h] # "idle" /\ Kept(h))
    PROVE  OnePerApproval'
<1>1. \A i \in Handlers : pc'[i] # "idle" => pc[i] # "idle" /\ request'[i] = request[i]
  BY DEF Frame, Left, Kept
<1> QED BY <1>1 DEF OnePerApproval

\* Nor does an ignored event disturb Serial.
LEMMA SerialQuiet ==
    ASSUME Serial, IgnoreEffect
    PROVE  Serial'
  BY DEF Serial, IgnoreEffect, OnePerApproval, ReadOrSaved, AnnouncedOnce

\* A request for an approval nobody works on reads a record that is not
\* resolved, so nothing was announced of it.
LEMMA SerialTakesOn ==
    ASSUME ApprovalInv, Serial, NEW h \in Handlers, pc[h] = "idle", TakesOn(h), overlaps' = 0
    PROVE  Serial'
<1>1. PICK t \in TrackingIds, op \in Calls \cup {"escalate"}, a \in Approvals : Taken(h, t, op, a)
  BY DEF TakesOn
<1>2. BeginEffect(h, t, op, a) /\ ~InFlight(t) BY <1>1 DEF Taken
<1>3. /\ pc'[h] = "index" /\ request'[h].tid = t /\ request'[h].op = op /\ draft'[h] = a
      /\ approvals' = approvals /\ published' = published /\ Frame(h)
  BY <1>2 DEF BeginEffect
<1>4. \A i \in Handlers : pc[i] # "idle" => request[i].tid # t
  <2> SUFFICES ASSUME NEW i \in Handlers, pc[i] # "idle" PROVE request[i].tid # t OBVIOUS
  <2>1. request[i] # NoRequest BY DEF ApprovalInv, HandlerOK
  <2> QED BY <1>2, <2>1 DEF InFlight, Tid
<1>5. OnePerApproval'
  <2> SUFFICES ASSUME NEW i \in Handlers, NEW j \in Handlers, pc'[i] # "idle", pc'[j] # "idle",
                      request'[i].tid = request'[j].tid
               PROVE  i = j
    BY DEF OnePerApproval
  <2> QED BY <1>3, <1>4 DEF Serial, OnePerApproval, Frame
<1>6. approvals[t].status \notin Resolutions
  BY <1>1 DEF Taken, Actionable, Resolutions
<1>7. \A r \in Resolutions : published[t][r] = 0
  <2> TAKE r \in Resolutions
  <2>1. published[t][r] \in Nat BY DEF ApprovalInv, TypeOK
  <2>2. ~(published[t][r] > 0) BY <1>6 DEF Serial, AnnouncedOnce
  <2> QED BY <2>1, <2>2
<1>8. published[t]["approved"] = 0 /\ published[t]["rejected"] = 0 BY <1>7 DEF Resolutions
<1>9. ReadOrSaved(h)' BY <1>1, <1>3, <1>8 DEF ReadOrSaved, Taken
<1>10. \A i \in Handlers \ {h} : pc'[i] # "idle" => ReadOrSaved(i)'
  BY <1>3 DEF Serial, Frame, ReadOrSaved
<1>11. AnnouncedOnce' BY <1>3 DEF Serial, AnnouncedOnce
<1> QED BY <1>5, <1>9, <1>10, <1>11 DEF Serial

\* Reading the index changes no record.
LEMMA SerialReadIndex ==
    ASSUME ApprovalInv, Serial, NEW h \in Handlers, ReadIndex(h)
    PROVE  Serial'
<1>1. ReadIndexEffect(h) /\ pc[h] = "index" BY ReadIndexKeeps DEF ReadIndex
<1>2. OnePerApproval' BY <1>1, StillOne DEF ReadIndexEffect, Serial
<1>3. \A i \in Handlers : pc'[i] # "idle" => ReadOrSaved(i)'
  BY <1>1 DEF Serial, ReadIndexEffect, Frame, Left, Kept, ReadOrSaved
<1>4. AnnouncedOnce' BY <1>1 DEF Serial, AnnouncedOnce, ReadIndexEffect
<1> QED BY <1>2, <1>3, <1>4 DEF Serial

\* A save is by the only handler of its approval.
LEMMA SerialWrite ==
    ASSUME ApprovalInv, Serial, NEW h \in Handlers, Write(h)
    PROVE  Serial'
<1>1. PICK t \in TrackingIds : t = request[h].tid BY WriteEffect
<1>2. SaveStep(h, t) /\ pc[h] = "write" BY <1>1, WriteEffect DEF Write
<1>3. ReadOrSaved(h) /\ Frame(h) /\ published' = published BY <1>2 DEF Serial, SaveStep
<1>4. \A u \in TrackingIds \ {t} : approvals'[u] = approvals[u]
  BY <1>2 DEF SaveStep, StoreStep, WrittenEffect
<1>5. OnePerApproval' BY <1>2, StillOne DEF SaveStep, Serial
<1>6. ASSUME NEW i \in Handlers \ {h}, pc'[i] # "idle" PROVE ReadOrSaved(i)'
  <2>1. pc'[i] = pc[i] /\ request'[i] = request[i] /\ draft'[i] = draft[i] BY <1>3 DEF Frame
  <2>2. request[i].tid \in TrackingIds BY <1>6, <2>1, AtWork
  <2>3. request[i].tid # t BY <1>1, <1>2, <1>6, <2>1 DEF Serial, OnePerApproval
  <2>4. ReadOrSaved(i) BY <1>6, <2>1 DEF Serial
  <2> QED BY <1>3, <1>4, <2>1, <2>2, <2>3, <2>4, SameReadOrSaved
<1>7. ASSUME pc'[h] # "idle" PROVE ReadOrSaved(h)'
  <2>1. Kept(h) /\ (pc'[h] = "index" \/ approvals'[t] = draft[h]) BY <1>2, <1>7 DEF SaveStep, Left
  <2>2. CASE approvals'[t] = draft[h] BY <1>1, <1>3, <2>1, <2>2 DEF ReadOrSaved, Kept
  <2>3. CASE approvals'[t] # draft[h]
    <3>1. approvals' = approvals /\ pc'[h] = "index"
      BY <1>2, <2>1, <2>3 DEF SaveStep, StoreStep, WrittenEffect
    <3> QED BY <1>1, <1>2, <1>3, <2>1, <3>1, SameReadOrSaved DEF Kept
  <2> QED BY <2>2, <2>3
<1>8. AnnouncedOnce'
  <2>1. \A r \in Resolutions : published[t][r] = 0
    BY <1>1, <1>3 DEF ReadOrSaved, Resolutions
  <2> SUFFICES ASSUME NEW u \in TrackingIds
               PROVE  /\ published[u]["approved"] + published[u]["rejected"] <= 1
                      /\ \A r \in Resolutions : published[u][r] > 0 => approvals'[u].status = r
    BY <1>3 DEF AnnouncedOnce
  <2>2. published[u]["approved"] + published[u]["rejected"] <= 1 BY DEF Serial, AnnouncedOnce
  <2>3. CASE u = t BY <2>1, <2>2, <2>3
  <2>4. CASE u # t BY <1>4, <2>2, <2>4 DEF Serial, AnnouncedOnce
  <2> QED BY <2>3, <2>4
<1> QED BY <1>5, <1>6, <1>7, <1>8 DEF Serial

\* What is announced is what is recorded, and nothing was announced before.
LEMMA SerialPublish ==
    ASSUME ApprovalInv, Serial, NEW h \in Handlers, Publish(h)
    PROVE  Serial'
<1>1. pc[h] = "publish" /\ ReadOrSaved(h) /\ TypeOK BY DEF Publish, Serial, ApprovalInv
<1>2. PICK t \in TrackingIds : t = request[h].tid BY <1>1, AtWork
<1>3. PICK r : r = draft[h].status OBVIOUS
<1>4. PublishEffect(h, t, r) BY <1>2, <1>3, PublishKeeps
<1>5. Frame(h) /\ Left(h) /\ approvals' = approvals BY <1>4 DEF PublishEffect
<1>6. OnePerApproval' BY <1>1, <1>5, StillOne DEF Serial
<1>7. \A u \in TrackingIds \ {t} : published'[u] = published[u]
  <2> TAKE u \in TrackingIds \ {t}
  <2>1. published'[u] \in [Resolutions -> Nat] /\ published[u] \in [Resolutions -> Nat]
    BY <1>1, <1>4 DEF PublishEffect, TypeOK
  <2>2. \A q \in Resolutions : published'[u][q] = published[u][q] BY <1>4 DEF PublishEffect
  <2> QED BY <2>1, <2>2
<1>8. ASSUME NEW i \in Handlers, pc'[i] # "idle" PROVE ReadOrSaved(i)'
  <2>1. i # h BY <1>5, <1>8 DEF Left
  <2>2. pc'[i] = pc[i] /\ request'[i] = request[i] /\ draft'[i] = draft[i] BY <1>5, <2>1 DEF Frame
  <2>3. request[i].tid # t BY <1>1, <1>2, <1>8, <2>1, <2>2 DEF Serial, OnePerApproval
  <2>4. request[i].tid \in TrackingIds BY <1>8, <2>2, AtWork
  <2>5. ReadOrSaved(i) BY <1>8, <2>2 DEF Serial
  <2> QED BY <1>5, <1>7, <2>2, <2>3, <2>4, <2>5, SameReadOrSaved
<1>9. AnnouncedOnce'
  <2> SUFFICES ASSUME NEW u \in TrackingIds
               PROVE  /\ published'[u]["approved"] + published'[u]["rejected"] <= 1
                      /\ \A q \in Resolutions : published'[u][q] > 0 => approvals[u].status = q
    BY <1>5 DEF AnnouncedOnce
  <2>1. CASE u # t BY <1>7, <2>1 DEF Serial, AnnouncedOnce
  <2>2. CASE u = t
    <3>1. published[t]["approved"] = 0 /\ published[t]["rejected"] = 0 /\ approvals[t].status = r
      BY <1>1, <1>2, <1>3 DEF ReadOrSaved
    <3>2. \A q \in Resolutions : published[t][q] = 0 BY <3>1 DEF Resolutions
    <3>3. \A q \in Resolutions : published'[t][q] = 0 \/ (q = r /\ published'[t][q] = 1)
      BY <1>4, <3>2 DEF PublishEffect
    <3>4. published'[t]["approved"] + published'[t]["rejected"] <= 1
      BY <3>3 DEF Resolutions
    <3> QED BY <2>2, <3>1, <3>3, <3>4
  <2> QED BY <2>1, <2>2
<1> QED BY <1>6, <1>8, <1>9 DEF Serial

\* At first nobody works on anything.
LEMMA SerialInit == Init => SerialInv
<1> SUFFICES ASSUME Init PROVE Serial BY ApprovalInit DEF SerialInv
<1>1. \A h \in Handlers : pc[h] = "idle" BY DEF Init
<1>2. \A t \in TrackingIds, r \in Resolutions : published[t][r] = 0 BY DEF Init
<1>3. \A t \in TrackingIds : published[t]["approved"] = 0 /\ published[t]["rejected"] = 0
  BY <1>2 DEF Resolutions
<1>4. AnnouncedOnce BY <1>2, <1>3 DEF AnnouncedOnce
<1> QED BY <1>1, <1>4 DEF Serial, OnePerApproval

\* Overlaps are counted and never forgotten.
LEMMA OverlapsGrow ==
    ASSUME ApprovalInv, [Next]_vars, overlaps' = 0
    PROVE  overlaps = 0
<1>1. TypeOK BY DEF ApprovalInv
<1>2. \A h \in Handlers, t \in TrackingIds : Arrive(h, t) => overlaps = 0 BY <1>1, ArriveCounts
<1>3. \A e \in Events : e.tid \in TrackingIds BY ApprovalAssumption
<1>4. \/ overlaps' = overlaps
      \/ \E h \in Handlers, t \in TrackingIds : Arrive(h, t)
  BY <1>3 DEF Next, Ignore, Escalate, Resolve, RequestInfo, AddAdditionalInfo, Call,
              HandlerStep, ReadIndex, Write, Publish, Crash, vars, bounds
<1> QED BY <1>2, <1>4

\* A step that does not overlap keeps Serial.
LEMMA SerialNext == SerialInv /\ [Next]_vars => SerialInv'
<1> SUFFICES ASSUME SerialInv, [Next]_vars, overlaps' = 0 PROVE Serial'
  BY ApprovalNext DEF SerialInv
<1>1. ApprovalInv /\ Serial BY OverlapsGrow DEF SerialInv
<1>2. ASSUME NEW h \in Handlers, NEW e \in Events, Ignore(h, e) PROVE Serial'
  BY <1>1, <1>2, IgnoreKeeps, SerialQuiet
<1>3. ASSUME NEW h \in Handlers, NEW e \in Events, Escalate(h, e) PROVE Serial'
  <2>1. pc[h] = "idle" BY <1>3 DEF Escalate, Arrive
  <2> QED BY <1>1, <1>3, <2>1, EscalateKeeps, SerialTakesOn
<1>4. ASSUME NEW h \in Handlers, NEW t \in TrackingIds,
             Resolve(h, t) \/ RequestInfo(h, t) \/ AddAdditionalInfo(h, t)
      PROVE  Serial'
  <2>1. pc[h] = "idle" BY <1>4 DEF Resolve, RequestInfo, AddAdditionalInfo, Call, Arrive
  <2>2. TakesOn(h) BY <1>1, <1>4, ResolveKeeps, RequestInfoKeeps, AddAdditionalInfoKeeps
  <2> QED BY <1>1, <2>1, <2>2, SerialTakesOn
<1>5. ASSUME NEW h \in Handlers, HandlerStep(h) PROVE Serial'
  BY <1>1, <1>5, SerialReadIndex, SerialWrite, SerialPublish DEF HandlerStep
<1>6. CASE Crash
  <2>1. approvals' = approvals /\ published' = published /\ \A h \in Handlers : pc'[h] = "idle"
    BY <1>1, <1>6, CrashKeeps
  <2>2. AnnouncedOnce' BY <1>1, <2>1 DEF Serial, AnnouncedOnce
  <2> QED BY <2>1, <2>2 DEF Serial, OnePerApproval
<1>7. CASE UNCHANGED vars BY <1>1, <1>7, ApprovalStutter, SerialQuiet
<1> QED BY <1>2, <1>3, <1>4, <1>5, <1>6, <1>7 DEF Next

\* Without overlaps each approval has one handler, working on what is stored.
THEOREM SerialInvariant == Spec => []SerialInv
  BY SerialInit, SerialNext, PTL DEF Spec

\* Without overlaps subscribers are told at most one resolution, once, and it is
\* the recorded one, whatever calls fail and whenever the process dies.
THEOREM AnnouncedIsAlwaysRecorded == Spec => []AnnouncedIsRecorded
<1>1. SerialInv => AnnouncedIsRecorded
  BY DEF SerialInv, Serial, AnnouncedOnce, AnnouncedIsRecorded
<1> QED BY <1>1, SerialInvariant, PTL

-----------------------------------------------------------------------------
(* The state machine of the record                                          *)

\* What a step may do to the record of t.
StateMachine(t) ==
    LET was == approvals[t].status
        is == approvals'[t].status IN
    /\ was # is =>
        \/ was = "none" /\ is = "pending"
        \/ was = "pending" /\ is \in Resolutions \cup {"waiting_info"}
        \/ was = "waiting_info" /\ is \in Resolutions \cup {"pending"}
    /\ approvals[t].info => approvals'[t].info
    /\ was = "waiting_info" /\ is = "pending" => approvals'[t].info

\* The only handler of an approval saves what follows from what is stored.
LEMMA WriteFollows ==
    ASSUME ApprovalInv, Serial, NEW h \in Handlers, Write(h), NEW u \in TrackingIds
    PROVE  StateMachine(u)
<1>1. PICK t \in TrackingIds : t = request[h].tid BY WriteEffect
<1>2. SaveStep(h, t) /\ pc[h] = "write" BY <1>1, WriteEffect DEF Write
<1>3. CASE approvals'[u] = approvals[u] BY <1>3 DEF StateMachine
<1>4. CASE approvals'[u] # approvals[u]
  <2>1. u = t /\ approvals'[u] = draft[h] BY <1>2, <1>4 DEF SaveStep, StoreStep, WrittenEffect
  <2>2. ReadOrSaved(h) /\ approvals[u] # draft[h] BY <1>2, <1>4, <2>1 DEF Serial
  <2>3. DraftOK(request[h].op, draft[h]) BY <1>2, AtWork
  <2>4. CASE request[h].op = "escalate"
    <3>1. approvals[u].status = "none" /\ draft[h].status = "pending"
      BY <1>1, <2>1, <2>2, <2>3, <2>4 DEF ReadOrSaved, DraftOK
    <3>2. ~approvals[u].info BY <3>1 DEF ApprovalInv, NoAnswerYet
    <3> QED BY <2>1, <3>1, <3>2 DEF StateMachine
  <2>5. CASE request[h].op = "additional_info"
    <3>1. approvals[u].status = "waiting_info" /\ draft[h].status = "pending" /\ draft[h].info
      BY <1>1, <2>1, <2>2, <2>3, <2>5 DEF ReadOrSaved, DraftOK
    <3> QED BY <2>1, <3>1 DEF StateMachine
  <2>6. CASE request[h].op \in {"approve", "reject", "request_info"}
    <3>1. approvals[u].status \in Actionable /\ approvals[u].info = draft[h].info
      BY <1>1, <2>1, <2>2, <2>6 DEF ReadOrSaved
    <3>2. draft[h].status \in Resolutions \cup {"waiting_info"}
      BY <2>3, <2>6 DEF DraftOK, Resolutions
    <3>3. draft[h].status # "pending" BY <2>3, <2>6 DEF DraftOK
    <3> QED BY <2>1, <3>1, <3>2, <3>3 DEF StateMachine, Actionable
  <2> QED BY <2>3, <2>4, <2>5, <2>6 DEF DraftOK
<1> QED BY <1>3, <1>4

\* Only a save changes a record.
LEMMA StepFollows ==
    ASSUME SerialInv, [Next]_vars, overlaps' = 0, NEW u \in TrackingIds
    PROVE  StateMachine(u)
<1>1. ApprovalInv /\ Serial BY OverlapsGrow DEF SerialInv
<1>2. ASSUME NEW h \in Handlers, Write(h) PROVE StateMachine(u) BY <1>1, <1>2, WriteFollows
<1>3. CASE ~ \E h \in Handlers : Write(h)
  <2>1. approvals' = approvals
    BY <1>3 DEF Next, Ignore, Escalate, Resolve, RequestInfo, AddAdditionalInfo, Begin,
                HandlerStep, ReadIndex, Publish, Crash, vars, store
  <2> QED BY <2>1 DEF StateMachine
<1> QED BY <1>2, <1>3

\* Without overlaps the record follows the state machine of models.py.
THEOREM RecordAlwaysFollowsStateMachine == Spec => RecordFollowsStateMachine
<1>1. SerialInv /\ [Next]_vars =>
        [overlaps' = 0 => \A t \in TrackingIds :
            LET was == approvals[t].status
                is == approvals'[t].status IN
            /\ was # is =>
                \/ was = "none" /\ is = "pending"
                \/ was = "pending" /\ is \in Resolutions \cup {"waiting_info"}
                \/ was = "waiting_info" /\ is \in Resolutions \cup {"pending"}
            /\ approvals[t].info => approvals'[t].info
            /\ was = "waiting_info" /\ is = "pending" => approvals'[t].info]_vars
  BY StepFollows DEF StateMachine
<1> QED BY <1>1, SerialInvariant, PTL DEF Spec, RecordFollowsStateMachine

=============================================================================
