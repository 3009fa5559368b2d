---------------------------- MODULE IntakeProofs ----------------------------
(***************************************************************************)
(* TLAPS proofs about Intake, for any number of invoices, handlers, routes  *)
(* and decisions, and any number of faults, crashes and overlaps.           *)
(***************************************************************************)
EXTENDS Intake, TLAPS

Processing == [dup |-> FALSE, status |-> "processing", route |-> "none"]
SettledDuplicate == [dup |-> TRUE, status |-> "completed", route |-> "duplicate"]
Announced == {"processing", "failed", "completed"}

\* What is stored of an invoice, by where its coroutine stands.
TaskOK(t) ==
    /\ pc[t] \in {"new", "record", "store"} => submissions[t] = NoSubmission
    /\ pc[t] = "record" => existing[t] # NoId /\ submissions[existing[t]].status # "none"
    /\ pc[t] = "store" => snapshot[t] \in {Received(TRUE), Received(FALSE)}
    /\ pc[t] = "scheduled" => submissions[t] \in {Received(TRUE), Received(FALSE)}
    /\ pc[t] = "mark" => submissions[t] = Received(FALSE)
    /\ pc[t] \in {"mark", "announce", "fail"} => snapshot[t] = Received(FALSE)
    /\ pc[t] = "announce" => submissions[t] = Processing
    /\ pc[t] = "fail" => ~submissions[t].dup /\ submissions[t].status \in {"processing", "completed"}
    /\ pc[t] \in {"dup_read", "dup_save"} => submissions[t] = Received(TRUE)
    /\ pc[t] = "dup_save" => snapshot[t] = Received(TRUE)
    /\ pc[t] = "dup_announce" => submissions[t] = SettledDuplicate

\* What is stored of it, by what others have been told.
RecordOK(t) ==
    /\ t \in submitted =>
          /\ pc[t] \in {"fail", "ended"}
          /\ ~submissions[t].dup /\ submissions[t].status \in Announced
    /\ submissions[t].route = "duplicate" => submissions[t] = SettledDuplicate
    /\ submissions[t].status # "none" => pointer[Key[t]] # NoId

EventOK(e) ==
    IF e.route = "duplicate"
    THEN pc[e.tid] = "ended" /\ submissions[e.tid] = SettledDuplicate
    ELSE e.tid \in submitted

\* A handler's copy is of an invoice that Decision was given.
HandlerOK(h) ==
    job[h] # NoEvent =>
        /\ job[h] \in decisions /\ job[h].route # "duplicate"
        /\ ~seen[h].dup /\ seen[h].status \in {"processing", "failed"}

IntakeInv ==
    /\ TypeOK
    /\ PointerHasRecord
    /\ \A t \in TrackingIds : TaskOK(t) /\ RecordOK(t)
    /\ \A e \in decisions : EventOK(e)
    /\ \A h \in Handlers : HandlerOK(h)

-----------------------------------------------------------------------------
(* As long as nothing has overlapped                                        *)

LookUpAlone ==
    \A t, u \in TrackingIds :
        /\ Key[t] = Key[u]
        /\ pc[t] \in {"record", "store"} /\ pc[u] \in {"record", "store"}
        => t = u

\* The invoice is, or will be stored as, the first of its key.
First(t) ==
    \/ pc[t] = "store" /\ ~snapshot[t].dup
    \/ submissions[t].status # "none" /\ ~submissions[t].dup

OneFirst == \A t, u \in TrackingIds : Key[t] = Key[u] /\ First(t) /\ First(u) => t = u

CompleteAlone ==
    \A h, i \in Handlers :
        job[h] # NoEvent /\ job[i] # NoEvent /\ job[h].tid = job[i].tid => h = i

NotYetCompleted ==
    \A h \in Handlers :
        job[h] # NoEvent => submissions[job[h].tid].status \in {"processing", "failed"}

Serial == LookUpAlone /\ OneFirst /\ CompleteAlone /\ NotYetCompleted

SerialInv == IntakeInv /\ (overlaps = 0 => Serial)

-----------------------------------------------------------------------------
(* The records and their keys                                               *)

\* Every invoice's key is one of Keys.
LEMMA KeyIsKey == \A t \in TrackingIds : Key[t] \in Keys
  BY DEF Keys

\* Setting the status keeps the other fields.
LEMMA StatusSet ==
    ASSUME NEW s \in Submissions, NEW x \in Statuses
    PROVE  [s EXCEPT !.status = x] = [dup |-> s.dup, status |-> x, route |-> s.route]
  BY DEF Submissions

\* The records that submit(), process() and complete() write.
LEMMA RecordShapes ==
    /\ NoSubmission \in Submissions
    /\ \A d \in BOOLEAN : Received(d) \in Submissions
    /\ Processing \in Submissions /\ SettledDuplicate \in Submissions
    /\ [Received(FALSE) EXCEPT !.status = "processing"] = Processing
    /\ [Received(FALSE) EXCEPT !.status = "failed"]
          = [dup |-> FALSE, status |-> "failed", route |-> "none"]
    /\ [dup |-> FALSE, status |-> "failed", route |-> "none"] \in Submissions
    /\ Completed(Received(TRUE), "duplicate") = SettledDuplicate
<1>1. /\ NoSubmission \in Submissions /\ Processing \in Submissions
      /\ [dup |-> FALSE, status |-> "failed", route |-> "none"] \in Submissions
  BY DEF NoSubmission, Submissions, Statuses, Processing
<1>2. SettledDuplicate \in Submissions BY DEF SettledDuplicate, Submissions, Statuses
<1>3. \A d \in BOOLEAN : Received(d) \in Submissions
  BY DEF Received, Submissions, Statuses
<1>4. /\ [Received(FALSE) EXCEPT !.status = "processing"] = Processing
      /\ [Received(FALSE) EXCEPT !.status = "failed"]
            = [dup |-> FALSE, status |-> "failed", route |-> "none"]
  <2>1. Received(FALSE) \in Submissions BY <1>3
  <2>2. "processing" \in Statuses /\ "failed" \in Statuses BY DEF Statuses
  <2>3. Received(FALSE).dup = FALSE /\ Received(FALSE).route = "none" BY DEF Received
  <2>4. [Received(FALSE) EXCEPT !.status = "processing"]
          = [dup |-> FALSE, status |-> "processing", route |-> "none"]
    BY <2>1, <2>2, <2>3, StatusSet, Zenon
  <2>5. [Received(FALSE) EXCEPT !.status = "failed"]
          = [dup |-> FALSE, status |-> "failed", route |-> "none"]
    BY <2>1, <2>2, <2>3, StatusSet, Zenon
  <2> QED BY <2>4, <2>5, Zenon DEF Processing
<1>5. Completed(Received(TRUE), "duplicate") = SettledDuplicate
  <2>1. Received(TRUE) \in Submissions /\ Received(TRUE).dup = TRUE BY <1>3 DEF Received
  <2> QED BY <2>1 DEF SettledDuplicate, Completed
<1> QED BY <1>1, <1>2, <1>3, <1>4, <1>5, Zenon

\* complete() keeps whose record it is and sets the status and the route.
LEMMA CompletedShape ==
    ASSUME NEW s \in Submissions, NEW r \in Routes \cup {"duplicate"}
    PROVE  /\ Completed(s, r) \in Submissions
           /\ Completed(s, r).dup = s.dup
           /\ Completed(s, r).status = "completed"
           /\ Completed(s, r).route = r
  BY DEF Completed, Submissions, Statuses

\* The places a coroutine may be at, one by one.
LEMMA StepsIn ==
    {"new", "record", "store", "scheduled", "mark", "announce", "fail",
     "dup_read", "dup_save", "dup_announce", "ended"} \subseteq Steps
  BY DEF Steps

-----------------------------------------------------------------------------
(* A step of the coroutine of t                                             *)

\* What such a step leaves alone: the other invoices, and the handlers unless they end.
TaskFrame(t) ==
    /\ \A u \in TrackingIds \ {t} :
          submissions'[u] = submissions[u] /\ pc'[u] = pc[u]
          /\ existing'[u] = existing[u] /\ snapshot'[u] = snapshot[u]
    /\ \A h \in Handlers : job'[h] = NoEvent \/ (job'[h] = job[h] /\ seen'[h] = seen[h])
    /\ submitted \subseteq submitted' /\ submitted' \subseteq submitted \cup {t}
    /\ decisions \subseteq decisions'
    /\ decisions' \subseteq decisions \cup {[tid |-> t, route |-> "duplicate"]}
    /\ submissions[t].status # "none" => submissions'[t].status # "none"
    /\ \/ pointer' = pointer
       \/ pointer' = [pointer EXCEPT ![Key[t]] = t] /\ submissions'[t].status # "none"

\* A step of t keeps the invariant when it keeps what the invariant says of t.
LEMMA TaskKeeps ==
    ASSUME IntakeInv, TypeOK', NEW t \in TrackingIds, TaskFrame(t),
           TaskOK(t)', RecordOK(t)',
           \A e \in decisions' : e.tid = t => EventOK(e)'
    PROVE  IntakeInv'
<1>1. TypeOK /\ Key[t] \in Keys BY KeyIsKey DEF IntakeInv
<1>2. \A k \in Keys : pointer'[k] = pointer[k] \/ (k = Key[t] /\ pointer'[k] = t /\ submissions'[t].status # "none")
  BY <1>1 DEF TaskFrame, TypeOK
<1>3. \A u \in TrackingIds : submissions[u].status # "none" => submissions'[u].status # "none"
  BY DEF TaskFrame
<1>4. PointerHasRecord'
  <2> SUFFICES ASSUME NEW k \in Keys, pointer'[k] # NoId
               PROVE  Key[pointer'[k]] = k /\ submissions'[pointer'[k]].status # "none"
    BY DEF PointerHasRecord
  <2>1. CASE pointer'[k] = pointer[k]
    <3>1. pointer[k] \in TrackingIds BY <1>1, <2>1 DEF TypeOK
    <3> QED BY <2>1, <3>1, <1>3 DEF IntakeInv, PointerHasRecord
  <2>2. CASE k = Key[t] /\ pointer'[k] = t /\ submissions'[t].status # "none"
    BY <2>2
  <2> QED BY <1>2, <2>1, <2>2
<1>5. \A u \in TrackingIds : TaskOK(u)' /\ RecordOK(u)'
  <2> SUFFICES ASSUME NEW u \in TrackingIds, u # t PROVE TaskOK(u)' /\ RecordOK(u)'
    OBVIOUS
  <2>1. TaskOK(u) /\ RecordOK(u) BY DEF IntakeInv
  <2>2. /\ submissions'[u] = submissions[u] /\ pc'[u] = pc[u]
        /\ existing'[u] = existing[u] /\ snapshot'[u] = snapshot[u]
        /\ (u \in submitted' <=> u \in submitted)
    BY DEF TaskFrame
  <2>3. existing[u] \in TrackingIds \cup {NoId} BY <1>1 DEF TypeOK
  <2>4. TaskOK(u)' BY <2>1, <2>2, <2>3, <1>3 DEF TaskOK
  <2>5. pointer[Key[u]] # NoId => pointer'[Key[u]] # NoId
    BY <1>2, KeyIsKey, IntakeAssumption
  <2>6. RecordOK(u)' BY <2>1, <2>2, <2>5 DEF RecordOK
  <2> QED BY <2>4, <2>6
<1>6. \A e \in decisions' : EventOK(e)'
  <2> SUFFICES ASSUME NEW e \in decisions', e.tid # t PROVE EventOK(e)'
    OBVIOUS
  <2>1. e \in decisions BY DEF TaskFrame
  <2>2. e.tid \in TrackingIds BY <1>1, <2>1 DEF TypeOK, Events
  <2>3. EventOK(e) BY <2>1 DEF IntakeInv
  <2> QED BY <2>2, <2>3 DEF EventOK, TaskFrame
<1>7. \A h \in Handlers : HandlerOK(h)'
  <2> TAKE h \in Handlers
  <2>1. HandlerOK(h) BY DEF IntakeInv
  <2> QED BY <2>1 DEF HandlerOK, TaskFrame
<1> QED BY <1>4, <1>5, <1>6, <1>7 DEF IntakeInv

\* The outcomes of save(): written, or raised with or without effect.
SaveEffect(t, s, next) ==
    /\ \/ /\ submissions'[t] = s /\ pointer' = [pointer EXCEPT ![Key[t]] = t]
          /\ pc'[t] \in {next, "ended"}
       \/ submissions'[t] = submissions[t] /\ pointer' = pointer /\ pc'[t] = "ended"
    /\ \A u \in TrackingIds \ {t} : submissions'[u] = submissions[u] /\ pc'[u] = pc[u]
    /\ existing' = existing /\ snapshot' = snapshot /\ job' = job /\ seen' = seen
    /\ submitted' = submitted /\ decisions' = decisions /\ acked' = acked
    /\ crashes' = crashes /\ overlaps' = overlaps

\* save() has one of these outcomes and keeps the types.
LEMMA SaveCases ==
    ASSUME TypeOK, NEW t \in TrackingIds, NEW s \in Submissions, NEW next \in Steps,
           Save(t, s, next)
    PROVE  SaveEffect(t, s, next) /\ TypeOK'
<1>0. Key[t] \in Keys BY KeyIsKey
<1>1. /\ \/ submissions' = [submissions EXCEPT ![t] = s] /\ pointer' = [pointer EXCEPT ![Key[t]] = t]
            /\ (pc' = [pc EXCEPT ![t] = next] \/ pc' = [pc EXCEPT ![t] = "ended"])
         \/ submissions' = submissions /\ pointer' = pointer /\ pc' = [pc EXCEPT ![t] = "ended"]
      /\ existing' = existing /\ snapshot' = snapshot /\ job' = job /\ seen' = seen
      /\ submitted' = submitted /\ decisions' = decisions /\ acked' = acked
      /\ crashes' = crashes /\ overlaps' = overlaps
  BY DEF Save, Written, Goto, store, completers, topics
<1>2. faults' = faults \/ (faults < MaxFaults /\ faults' = faults + 1)
  BY DEF Save, Fault
<1>3. faults' \in 0..MaxFaults BY <1>2, IntakeAssumption DEF TypeOK
<1>4. SaveEffect(t, s, next) BY <1>1 DEF SaveEffect, TypeOK
<1>5. /\ submissions' \in [TrackingIds -> Submissions]
      /\ pointer' \in [Keys -> TrackingIds \cup {NoId}]
      /\ pc' \in [TrackingIds -> Steps]
  BY <1>0, <1>1, StepsIn DEF TypeOK
<1> QED BY <1>1, <1>3, <1>4, <1>5 DEF TypeOK

\* Nothing but the steps that publish changes the topics: the frame of the rest.
LEMMA SaveFrame ==
    ASSUME TypeOK, NEW t \in TrackingIds, NEW s \in Submissions, NEW next \in Steps,
           SaveEffect(t, s, next), s.status # "none"
    PROVE  TaskFrame(t)
  BY DEF SaveEffect, TaskFrame

\* A step that stores nothing and publishes nothing.
ReadFrame(t) ==
    /\ submissions' = submissions /\ pointer' = pointer
    /\ \A u \in TrackingIds \ {t} :
          pc'[u] = pc[u] /\ existing'[u] = existing[u] /\ snapshot'[u] = snapshot[u]
    /\ job' = job /\ seen' = seen
    /\ submitted' = submitted /\ decisions' = decisions /\ acked' = acked
    /\ crashes' = crashes

\* It keeps the invariant when it goes to a place where what is stored fits.
LEMMA ReadKeeps ==
    ASSUME IntakeInv, TypeOK', NEW t \in TrackingIds, ReadFrame(t), TaskOK(t)',
           pc[t] \notin {"fail", "ended"}
    PROVE  IntakeInv'
<1>1. TypeOK /\ RecordOK(t) BY DEF IntakeInv
<1>2. TaskFrame(t) BY DEF ReadFrame, TaskFrame
<1>3. t \notin submitted BY <1>1 DEF RecordOK
<1>4. RecordOK(t)' BY <1>1, <1>3 DEF RecordOK, ReadFrame
<1>5. \A e \in decisions' : e.tid = t => EventOK(e)'
  <2> SUFFICES ASSUME NEW e \in decisions, e.tid = t PROVE FALSE
    BY DEF ReadFrame
  <2>1. EventOK(e) BY DEF IntakeInv
  <2> QED BY <2>1, <1>3 DEF EventOK
<1> QED BY <1>2, <1>4, <1>5, TaskKeeps

\* The pointer read names a stored record, or there is none.
LEMMA LookUpPointerKeeps ==
    ASSUME IntakeInv, NEW t \in TrackingIds, LookUpPointer(t)
    PROVE  IntakeInv'
<1>1. TypeOK /\ TaskOK(t) /\ PointerHasRecord BY DEF IntakeInv
<1>2. Key[t] \in Keys /\ pointer[Key[t]] \in TrackingIds \cup {NoId} BY <1>1, KeyIsKey DEF TypeOK
<1>3. Received(FALSE) \in Submissions /\ pc[t] = "new" BY RecordShapes DEF LookUpPointer
<1>4. overlaps' \in 0..MaxOverlaps
  BY <1>1, IntakeAssumption DEF LookUpPointer, Overlapping, TypeOK
<1>5. /\ existing' = [existing EXCEPT ![t] = pointer[Key[t]]]
      /\ \/ /\ pointer[Key[t]] = NoId /\ pc' = [pc EXCEPT ![t] = "store"]
            /\ snapshot' = [snapshot EXCEPT ![t] = Received(FALSE)]
         \/ pointer[Key[t]] # NoId /\ pc' = [pc EXCEPT ![t] = "record"] /\ snapshot' = snapshot
      /\ submissions' = submissions /\ pointer' = pointer
      /\ job' = job /\ seen' = seen
      /\ submitted' = submitted /\ decisions' = decisions /\ acked' = acked
      /\ faults' = faults /\ crashes' = crashes
  BY DEF LookUpPointer, Goto, store, completers, topics
<1>6. /\ pc' \in [TrackingIds -> Steps] /\ existing' \in [TrackingIds -> TrackingIds \cup {NoId}]
      /\ snapshot' \in [TrackingIds -> Submissions]
  BY <1>1, <1>2, <1>3, <1>5, StepsIn DEF TypeOK
<1>7. TypeOK' BY <1>1, <1>4, <1>5, <1>6 DEF TypeOK
<1>8. ReadFrame(t) BY <1>1, <1>5 DEF ReadFrame, TypeOK
<1>9. TaskOK(t)'
  <2>1. submissions[t] = NoSubmission BY <1>1, <1>3 DEF TaskOK
  <2>2. CASE pointer[Key[t]] = NoId
    <3>1. pc'[t] = "store" /\ snapshot'[t] = Received(FALSE) /\ submissions' = submissions
      BY <1>1, <1>5, <2>2 DEF TypeOK
    <3> QED BY <2>1, <3>1 DEF TaskOK
  <2>3. CASE pointer[Key[t]] # NoId
    <3>1. pc'[t] = "record" /\ existing'[t] = pointer[Key[t]] /\ submissions' = submissions
      BY <1>1, <1>5, <2>3 DEF TypeOK
    <3>2. submissions[pointer[Key[t]]].status # "none" BY <1>1, <1>2, <2>3 DEF PointerHasRecord
    <3> QED BY <2>1, <2>3, <3>1, <3>2 DEF TaskOK
  <2> QED BY <2>2, <2>3
<1> QED BY <1>3, <1>7, <1>8, <1>9, ReadKeeps

\* The record the pointer named is there, so the invoice is a duplicate of it.
LEMMA LookUpRecordKeeps ==
    ASSUME IntakeInv, NEW t \in TrackingIds, LookUpRecord(t)
    PROVE  IntakeInv' /\ snapshot'[t] = Received(TRUE) /\ pc'[t] = "store"
<1>1. TypeOK /\ TaskOK(t) BY DEF IntakeInv
<1>2. /\ pc[t] = "record" /\ submissions[t] = NoSubmission
      /\ submissions[existing[t]].status # "none"
  BY <1>1 DEF LookUpRecord, TaskOK
<1>3. IsDuplicateOf(existing[t]) = TRUE BY <1>2 DEF IsDuplicateOf
<1>4. /\ snapshot' = [snapshot EXCEPT ![t] = Received(TRUE)]
      /\ pc' = [pc EXCEPT ![t] = "store"]
  BY <1>2, <1>3 DEF LookUpRecord, Goto
<1>5. /\ submissions' = submissions /\ pointer' = pointer /\ existing' = existing
      /\ job' = job /\ seen' = seen
      /\ submitted' = submitted /\ decisions' = decisions /\ acked' = acked
      /\ faults' = faults /\ crashes' = crashes /\ overlaps' = overlaps
  BY DEF LookUpRecord, store, completers, topics
<1>6. Received(TRUE) \in Submissions BY RecordShapes
<1>7. TypeOK' BY <1>1, <1>4, <1>5, <1>6, StepsIn DEF TypeOK
<1>8. ReadFrame(t) BY <1>1, <1>4, <1>5 DEF ReadFrame, TypeOK
<1>9. snapshot'[t] = Received(TRUE) /\ pc'[t] = "store" BY <1>1, <1>4 DEF TypeOK
<1>10. TaskOK(t)' BY <1>2, <1>5, <1>9 DEF TaskOK
<1> QED BY <1>2, <1>7, <1>8, <1>9, <1>10, ReadKeeps

\* process() reads what submit() stored, and takes one of its two ways.
LEMMA ProcessKeeps ==
    ASSUME IntakeInv, NEW t \in TrackingIds, Process(t)
    PROVE  IntakeInv' /\ ReadFrame(t) /\ pc'[t] \in {"mark", "dup_read"}
<1>1. TypeOK /\ TaskOK(t) BY DEF IntakeInv
<1>2. pc[t] = "scheduled" /\ submissions[t] \in {Received(TRUE), Received(FALSE)}
  BY <1>1 DEF Process, TaskOK
<1>3. PICK p \in Steps :
      /\ pc' = [pc EXCEPT ![t] = p]
      /\ \/ submissions[t] = Received(TRUE) /\ p = "dup_read"
         \/ submissions[t] = Received(FALSE) /\ p = "mark"
  <2>1. CASE submissions[t] = Received(TRUE)
    <3>1. submissions[t].dup = TRUE /\ submissions[t].status = "received" BY <2>1 DEF Received
    <3>2. pc' = [pc EXCEPT ![t] = "dup_read"] BY <3>1 DEF Process, Goto, FirstStep
    <3> QED BY <2>1, <3>2, StepsIn
  <2>2. CASE submissions[t] = Received(FALSE)
    <3>1. submissions[t].dup = FALSE /\ submissions[t].status = "received" BY <2>2 DEF Received
    <3>2. pc' = [pc EXCEPT ![t] = "mark"] BY <3>1 DEF Process, Goto, FirstStep
    <3> QED BY <2>2, <3>2, StepsIn
  <2> QED BY <1>2, <2>1, <2>2
<1>4. /\ snapshot' = [snapshot EXCEPT ![t] = submissions[t]]
      /\ submissions' = submissions /\ pointer' = pointer /\ existing' = existing
      /\ job' = job /\ seen' = seen
      /\ submitted' = submitted /\ decisions' = decisions /\ acked' = acked
      /\ faults' = faults /\ crashes' = crashes /\ overlaps' = overlaps
  BY DEF Process, store, completers, topics
<1>5. TypeOK' BY <1>1, <1>3, <1>4 DEF TypeOK
<1>6. ReadFrame(t) BY <1>1, <1>3, <1>4 DEF ReadFrame, TypeOK
<1>7. pc'[t] = p /\ snapshot'[t] = submissions[t] BY <1>1, <1>3, <1>4 DEF TypeOK
<1>8. TaskOK(t)' BY <1>3, <1>4, <1>7 DEF TaskOK
<1> QED BY <1>2, <1>3, <1>5, <1>6, <1>7, <1>8, ReadKeeps

\* complete() of a duplicate finds it RECEIVED, so it goes on to save.
LEMMA CompleteDuplicateReadKeeps ==
    ASSUME IntakeInv, NEW t \in TrackingIds, CompleteDuplicateRead(t)
    PROVE  IntakeInv' /\ ReadFrame(t) /\ pc'[t] = "dup_save"
<1>1. TypeOK /\ TaskOK(t) BY DEF IntakeInv
<1>2. pc[t] = "dup_read" /\ submissions[t] = Received(TRUE)
  BY <1>1 DEF CompleteDuplicateRead, TaskOK
<1>3. pc' = [pc EXCEPT ![t] = "dup_save"]
  BY <1>2 DEF CompleteDuplicateRead, Goto, Ignored, Received
<1>4. /\ snapshot' = [snapshot EXCEPT ![t] = submissions[t]]
      /\ submissions' = submissions /\ pointer' = pointer /\ existing' = existing
      /\ job' = job /\ seen' = seen
      /\ submitted' = submitted /\ decisions' = decisions /\ acked' = acked
      /\ faults' = faults /\ crashes' = crashes /\ overlaps' = overlaps
  BY DEF CompleteDuplicateRead, store, completers, topics
<1>5. TypeOK' BY <1>1, <1>3, <1>4, StepsIn DEF TypeOK
<1>6. ReadFrame(t) BY <1>1, <1>3, <1>4 DEF ReadFrame, TypeOK
<1>7. pc'[t] = "dup_save" /\ snapshot'[t] = submissions[t] BY <1>1, <1>3, <1>4 DEF TypeOK
<1>8. TaskOK(t)' BY <1>2, <1>4, <1>7 DEF TaskOK
<1> QED BY <1>2, <1>5, <1>6, <1>7, <1>8, ReadKeeps

\* A failed read ends the coroutine and leaves everything stored as it was.
LEMMA ReadFailsKeeps ==
    ASSUME IntakeInv, NEW t \in TrackingIds, ReadFails(t)
    PROVE  IntakeInv' /\ ReadFrame(t) /\ pc'[t] = "ended" /\ overlaps' = overlaps
<1>1. TypeOK /\ TaskOK(t) BY DEF IntakeInv
<1>2. /\ pc[t] \in {"new", "record", "scheduled", "dup_read"}
      /\ pc' = [pc EXCEPT ![t] = "ended"]
      /\ submissions' = submissions /\ pointer' = pointer /\ existing' = existing /\ snapshot' = snapshot
      /\ job' = job /\ seen' = seen
      /\ submitted' = submitted /\ decisions' = decisions /\ acked' = acked
      /\ crashes' = crashes /\ overlaps' = overlaps
  BY DEF ReadFails, Goto, store, completers, topics
<1>3. faults' \in 0..MaxFaults BY <1>1, IntakeAssumption DEF ReadFails, Fault, TypeOK
<1>4. TypeOK' BY <1>1, <1>2, <1>3, StepsIn DEF TypeOK
<1>5. ReadFrame(t) BY <1>1, <1>2 DEF ReadFrame, TypeOK
<1>6. pc'[t] = "ended" BY <1>1, <1>2 DEF TypeOK
<1>7. TaskOK(t)' BY <1>6 DEF TaskOK
<1> QED BY <1>2, <1>4, <1>5, <1>6, <1>7, ReadKeeps

\* A save keeps the invariant when the record fits both where the coroutine goes
\* on and what others have been told.
LEMMA SaveKeeps ==
    ASSUME IntakeInv, TypeOK', NEW t \in TrackingIds, NEW s \in Submissions, NEW next \in Steps,
           SaveEffect(t, s, next), s.status # "none", pc[t] # "ended",
           submissions'[t] = s /\ pc'[t] = next => TaskOK(t)',
           s.route = "duplicate" => s = SettledDuplicate,
           t \in submitted => ~s.dup /\ s.status \in Announced /\ next = "ended"
    PROVE  IntakeInv'
<1>1. TypeOK /\ RecordOK(t) /\ Key[t] \in Keys BY KeyIsKey DEF IntakeInv
<1>2. TaskFrame(t) BY <1>1, SaveFrame
<1>3. TaskOK(t)'
  <2>1. CASE pc'[t] = "ended" BY <2>1 DEF TaskOK
  <2>2. CASE pc'[t] # "ended" BY <2>2 DEF SaveEffect
  <2> QED BY <2>1, <2>2
<1>4. RecordOK(t)'
  <2>1. CASE /\ submissions'[t] = s /\ pointer' = [pointer EXCEPT ![Key[t]] = t]
             /\ pc'[t] \in {next, "ended"}
    <3>1. pointer'[Key[t]] # NoId BY <1>1, <2>1, IntakeAssumption DEF TypeOK
    <3>2. submitted' = submitted BY DEF SaveEffect
    <3> QED BY <2>1, <3>1, <3>2 DEF RecordOK
  <2>2. CASE submissions'[t] = submissions[t] /\ pointer' = pointer /\ pc'[t] = "ended"
    BY <1>1, <2>2 DEF RecordOK, SaveEffect
  <2> QED BY <2>1, <2>2 DEF SaveEffect
<1>5. \A e \in decisions' : e.tid = t => EventOK(e)'
  <2> SUFFICES ASSUME NEW e \in decisions, e.tid = t PROVE EventOK(e)'
    BY DEF SaveEffect
  <2>1. EventOK(e) BY DEF IntakeInv
  <2> QED BY <2>1 DEF EventOK, SaveEffect
<1> QED BY <1>2, <1>3, <1>4, <1>5, TaskKeeps

\* What submit() stores is RECEIVED, and nobody was told of it yet.
LEMMA StoreKeeps ==
    ASSUME IntakeInv, NEW t \in TrackingIds, Store(t)
    PROVE  IntakeInv' /\ SaveEffect(t, snapshot[t], "scheduled")
<1>1. TypeOK /\ TaskOK(t) /\ RecordOK(t) BY DEF IntakeInv
<1>2. pc[t] = "store" /\ Save(t, snapshot[t], "scheduled") /\ snapshot[t] \in {Received(TRUE), Received(FALSE)}
  BY <1>1 DEF Store, TaskOK
<1>3. snapshot[t] \in Submissions /\ snapshot[t].status # "none" /\ snapshot[t].route # "duplicate"
  <2>1. Received(TRUE) \in Submissions /\ Received(FALSE) \in Submissions BY RecordShapes
  <2>2. \A d \in BOOLEAN : Received(d).status = "received" /\ Received(d).route = "none"
    BY DEF Received
  <2> QED BY <1>2, <2>1, <2>2
<1>4. SaveEffect(t, snapshot[t], "scheduled") /\ TypeOK' BY <1>1, <1>2, <1>3, SaveCases, StepsIn
<1>5. t \notin submitted BY <1>1, <1>2 DEF RecordOK
<1>6. submissions'[t] = snapshot[t] /\ pc'[t] = "scheduled" => TaskOK(t)'
  BY <1>2 DEF TaskOK
<1>7. "scheduled" \in Steps BY StepsIn
<1>8. PICK s \in Submissions : s = snapshot[t] BY <1>3
<1> QED BY <1>2, <1>3, <1>4, <1>5, <1>6, <1>7, <1>8, SaveKeeps

\* process() stores PROCESSING before anybody is told.
LEMMA MarkProcessingKeeps ==
    ASSUME IntakeInv, NEW t \in TrackingIds, MarkProcessing(t)
    PROVE  IntakeInv' /\ SaveEffect(t, Processing, "announce")
<1>1. TypeOK /\ TaskOK(t) /\ RecordOK(t) BY DEF IntakeInv
<1>2. pc[t] = "mark" /\ snapshot[t] = Received(FALSE)
  BY <1>1 DEF MarkProcessing, TaskOK
<1>3. Save(t, Processing, "announce") BY <1>2, RecordShapes DEF MarkProcessing
<1>4. Processing \in Submissions /\ Processing.status # "none" /\ Processing.route # "duplicate"
  BY RecordShapes DEF Processing
<1>5. SaveEffect(t, Processing, "announce") /\ TypeOK' BY <1>1, <1>3, <1>4, SaveCases, StepsIn
<1>6. t \notin submitted BY <1>1, <1>2 DEF RecordOK
<1>7. snapshot' = snapshot BY <1>5 DEF SaveEffect
<1>8. submissions'[t] = Processing /\ pc'[t] = "announce" => TaskOK(t)'
  BY <1>2, <1>7 DEF TaskOK
<1>9. "announce" \in Steps BY StepsIn
<1> QED BY <1>2, <1>4, <1>5, <1>6, <1>8, <1>9, SaveKeeps

\* What process() records when its publish raised.
Failed == [dup |-> FALSE, status |-> "failed", route |-> "none"]

\* FAILED goes over PROCESSING or over a decision already recorded.
LEMMA MarkFailedKeeps ==
    ASSUME IntakeInv, NEW t \in TrackingIds, MarkFailed(t)
    PROVE  IntakeInv' /\ SaveEffect(t, Failed, "ended")
<1>1. TypeOK /\ TaskOK(t) /\ RecordOK(t) BY DEF IntakeInv
<1>2. pc[t] = "fail" /\ snapshot[t] = Received(FALSE)
  BY <1>1 DEF MarkFailed, TaskOK
<1>3. Save(t, Failed, "ended") BY <1>2, RecordShapes DEF MarkFailed, Failed
<1>4. Failed \in Submissions BY RecordShapes DEF Failed
<1>5. ~Failed.dup /\ Failed.status # "none" /\ Failed.status \in Announced /\ Failed.route # "duplicate"
  BY DEF Failed, Announced
<1>6. SaveEffect(t, Failed, "ended") /\ TypeOK' BY <1>1, <1>3, <1>4, SaveCases, StepsIn
<1>7. submissions'[t] = Failed /\ pc'[t] = "ended" => TaskOK(t)' BY DEF TaskOK
<1>8. "ended" \in Steps BY StepsIn
<1> QED BY <1>2, <1>4, <1>5, <1>6, <1>7, <1>8, SaveKeeps

\* A duplicate is settled here, and Decision never heard of it.
LEMMA CompleteDuplicateSaveKeeps ==
    ASSUME IntakeInv, NEW t \in TrackingIds, CompleteDuplicateSave(t)
    PROVE  IntakeInv' /\ SaveEffect(t, SettledDuplicate, "dup_announce")
<1>1. TypeOK /\ TaskOK(t) /\ RecordOK(t) BY DEF IntakeInv
<1>2. pc[t] = "dup_save" /\ snapshot[t] = Received(TRUE)
  BY <1>1 DEF CompleteDuplicateSave, TaskOK
<1>3. Save(t, SettledDuplicate, "dup_announce") BY <1>2, RecordShapes DEF CompleteDuplicateSave
<1>4. SettledDuplicate \in Submissions /\ SettledDuplicate.status # "none"
  BY RecordShapes DEF SettledDuplicate
<1>5. SaveEffect(t, SettledDuplicate, "dup_announce") /\ TypeOK'
  BY <1>1, <1>3, <1>4, SaveCases, StepsIn
<1>6. t \notin submitted BY <1>1, <1>2 DEF RecordOK
<1>7. submissions'[t] = SettledDuplicate /\ pc'[t] = "dup_announce" => TaskOK(t)' BY DEF TaskOK
<1>8. "dup_announce" \in Steps BY StepsIn
<1> QED BY <1>2, <1>4, <1>5, <1>6, <1>7, <1>8, SaveKeeps

-----------------------------------------------------------------------------
(* The steps that publish                                                   *)

\* invoice.submitted goes out, or perhaps it does, once PROCESSING is stored.
LEMMA AnnounceInvoiceKeeps ==
    ASSUME IntakeInv, NEW t \in TrackingIds, AnnounceInvoice(t)
    PROVE  /\ IntakeInv' /\ submissions' = submissions
           /\ \A u \in TrackingIds : pc'[u] \in {"fail", "ended"} \/ pc'[u] = pc[u]
<1>1. TypeOK /\ TaskOK(t) /\ RecordOK(t) BY DEF IntakeInv
<1>2. pc[t] = "announce" /\ submissions[t] = Processing /\ snapshot[t] = Received(FALSE)
  BY <1>1 DEF AnnounceInvoice, TaskOK
<1>3. /\ submissions' = submissions /\ pointer' = pointer /\ existing' = existing /\ snapshot' = snapshot
      /\ job' = job /\ seen' = seen /\ decisions' = decisions /\ acked' = acked
      /\ crashes' = crashes /\ overlaps' = overlaps
  BY DEF AnnounceInvoice, store, completers
<1>4. /\ submitted' \in {submitted, submitted \cup {t}}
      /\ pc' = [pc EXCEPT ![t] = "ended"] \/ pc' = [pc EXCEPT ![t] = "fail"]
  BY DEF AnnounceInvoice, Goto
<1>5. faults' \in 0..MaxFaults
  BY <1>1, IntakeAssumption DEF AnnounceInvoice, Fault, TypeOK
<1>6. pc' \in [TrackingIds -> Steps] /\ pc'[t] \in {"fail", "ended"}
  BY <1>1, <1>4, StepsIn DEF TypeOK
<1>7. TypeOK' BY <1>1, <1>3, <1>4, <1>5, <1>6 DEF TypeOK
<1>8. \A u \in TrackingIds \ {t} : pc'[u] = pc[u] BY <1>1, <1>4 DEF TypeOK
<1>9. TaskFrame(t) BY <1>3, <1>4, <1>8 DEF TaskFrame
<1>10. ~Processing.dup /\ Processing.status = "processing" BY DEF Processing
<1>11. TaskOK(t)' BY <1>2, <1>3, <1>6, <1>10 DEF TaskOK
<1>12. RecordOK(t)' BY <1>1, <1>2, <1>3, <1>6, <1>10 DEF RecordOK, Announced
<1>13. \A e \in decisions' : e.tid = t => EventOK(e)'
  <2> SUFFICES ASSUME NEW e \in decisions, e.tid = t PROVE FALSE
    BY <1>3
  <2>1. EventOK(e) BY DEF IntakeInv
  <2> QED BY <2>1, <1>1, <1>2 DEF EventOK, RecordOK
<1>14. IntakeInv' BY <1>7, <1>9, <1>11, <1>12, <1>13, TaskKeeps
<1> QED BY <1>3, <1>6, <1>8, <1>14

\* A duplicate's decision is announced once it is stored.
LEMMA AnnounceDuplicateKeeps ==
    ASSUME IntakeInv, NEW t \in TrackingIds, AnnounceDuplicate(t)
    PROVE  /\ IntakeInv' /\ submissions' = submissions
           /\ \A u \in TrackingIds : pc'[u] = "ended" \/ pc'[u] = pc[u]
<1> DEFINE d == [tid |-> t, route |-> "duplicate"]
<1>1. TypeOK /\ TaskOK(t) /\ RecordOK(t) BY DEF IntakeInv
<1>2. pc[t] = "dup_announce" /\ submissions[t] = SettledDuplicate
  BY <1>1 DEF AnnounceDuplicate, TaskOK
<1>3. /\ submissions' = submissions /\ pointer' = pointer /\ existing' = existing /\ snapshot' = snapshot
      /\ job' = job /\ seen' = seen /\ submitted' = submitted /\ acked' = acked
      /\ crashes' = crashes /\ overlaps' = overlaps
      /\ pc' = [pc EXCEPT ![t] = "ended"]
  BY DEF AnnounceDuplicate, Goto, store, completers
<1>4. decisions' = decisions \/ decisions' = decisions \cup {d}
  BY DEF AnnounceDuplicate, PublishDecision
<1>5. faults' \in 0..MaxFaults
  BY <1>1, IntakeAssumption DEF AnnounceDuplicate, PublishDecision, Fault, TypeOK
<1>6. d \in Events BY DEF Events
<1>7. pc' \in [TrackingIds -> Steps] /\ pc'[t] = "ended" /\ \A u \in TrackingIds \ {t} : pc'[u] = pc[u]
  BY <1>1, <1>3, StepsIn DEF TypeOK
<1>8. decisions' \subseteq Events /\ acked' \subseteq decisions' BY <1>1, <1>3, <1>4, <1>6 DEF TypeOK
<1>9. TypeOK' BY <1>1, <1>3, <1>5, <1>7, <1>8 DEF TypeOK
<1>10. TaskFrame(t) BY <1>3, <1>4, <1>7 DEF TaskFrame
<1>11. TaskOK(t)' BY <1>7 DEF TaskOK
<1>12. RecordOK(t)' BY <1>1, <1>2, <1>3, <1>7 DEF RecordOK
<1>13. \A e \in decisions' : e.tid = t => EventOK(e)'
  <2> SUFFICES ASSUME NEW e \in decisions', e.tid = t PROVE EventOK(e)'
    OBVIOUS
  <2>1. CASE e \in decisions
    <3>1. EventOK(e) BY <2>1 DEF IntakeInv
    <3> QED BY <3>1, <1>1, <1>2 DEF EventOK, RecordOK
  <2>2. CASE e = d
    BY <2>2, <1>2, <1>3, <1>7 DEF EventOK
  <2> QED BY <2>1, <2>2, <1>4
<1>14. IntakeInv' BY <1>9, <1>10, <1>11, <1>12, <1>13, TaskKeeps
<1> QED BY <1>3, <1>7, <1>14

-----------------------------------------------------------------------------
(* The handlers of decision.completed, Decision and crashes                 *)

\* What a handler is given was submitted, and is no duplicate.
LEMMA HandledIsSubmitted ==
    ASSUME IntakeInv, NEW h \in Handlers, job[h] # NoEvent
    PROVE  /\ job[h].tid \in submitted /\ job[h].tid \in TrackingIds
           /\ job[h].route \in Routes
<1>1. TypeOK /\ HandlerOK(h) BY DEF IntakeInv
<1>2. job[h] \in decisions /\ job[h].route # "duplicate" BY <1>1 DEF HandlerOK
<1>3. EventOK(job[h]) BY <1>2 DEF IntakeInv
<1>4. job[h] \in Events BY <1>1, <1>2 DEF TypeOK
<1> QED BY <1>2, <1>3, <1>4 DEF EventOK, Events

\* complete() reads the record of the event, and drops it or keeps a copy.
CompleteReadEffect(h, e) ==
    /\ \/ Ignored(submissions[e.tid].status) /\ acked' = acked \cup {e} /\ job' = job /\ seen' = seen
       \/ /\ ~Ignored(submissions[e.tid].status) /\ acked' = acked
          /\ job' = [job EXCEPT ![h] = e] /\ seen' = [seen EXCEPT ![h] = submissions[e.tid]]
    /\ submissions' = submissions /\ pointer' = pointer
    /\ pc' = pc /\ existing' = existing /\ snapshot' = snapshot
    /\ submitted' = submitted /\ decisions' = decisions /\ faults' = faults /\ crashes' = crashes

\* A copy is only kept of what Decision was given, and past RECEIVED.
LEMMA CompleteReadKeeps ==
    ASSUME IntakeInv, NEW h \in Handlers, NEW e \in decisions, CompleteRead(h, e)
    PROVE  IntakeInv' /\ CompleteReadEffect(h, e) /\ e.tid \in TrackingIds
<1>1. TypeOK /\ EventOK(e) /\ e \in Events BY DEF IntakeInv, TypeOK
<1>2. e.tid \in TrackingIds BY <1>1 DEF Events
<1>3. CompleteReadEffect(h, e)
  BY DEF CompleteRead, CompleteReadEffect, completers, store, tasks, topics
<1>4. overlaps' \in 0..MaxOverlaps
  BY <1>1, IntakeAssumption DEF CompleteRead, Overlapping, TypeOK
<1>5. submissions[e.tid] \in Submissions BY <1>1, <1>2 DEF TypeOK
<1>6. /\ job' \in [Handlers -> Events \cup {NoEvent}] /\ seen' \in [Handlers -> Submissions]
      /\ acked' \subseteq decisions
  BY <1>1, <1>3, <1>5 DEF CompleteReadEffect, TypeOK
<1>7. TypeOK' BY <1>1, <1>3, <1>4, <1>6 DEF CompleteReadEffect, TypeOK
<1>8. PointerHasRecord' BY <1>3 DEF IntakeInv, PointerHasRecord, CompleteReadEffect
<1>9. \A t \in TrackingIds : TaskOK(t)' /\ RecordOK(t)'
  BY <1>3 DEF IntakeInv, TaskOK, RecordOK, CompleteReadEffect
<1>10. \A d \in decisions' : EventOK(d)' BY <1>3 DEF IntakeInv, EventOK, CompleteReadEffect
<1>11. \A i \in Handlers : HandlerOK(i)'
  <2> TAKE i \in Handlers
  <2>1. HandlerOK(i) BY DEF IntakeInv
  <2>2. CASE job'[i] = job[i] /\ seen'[i] = seen[i]
    BY <2>1, <2>2, <1>3 DEF HandlerOK, CompleteReadEffect
  <2>3. CASE ~(job'[i] = job[i] /\ seen'[i] = seen[i])
    <3>1. /\ i = h /\ job'[i] = e /\ seen'[i] = submissions[e.tid]
          /\ submissions[e.tid].status \notin {"none", "completed"}
      BY <1>1, <1>3, <2>3 DEF CompleteReadEffect, TypeOK, Ignored
    <3>2. e.route # "duplicate" /\ e.tid \in submitted
      BY <1>1, <3>1 DEF EventOK, SettledDuplicate
    <3>3. RecordOK(e.tid) BY <1>2 DEF IntakeInv
    <3>4. ~submissions[e.tid].dup /\ submissions[e.tid].status \in {"processing", "failed"}
      BY <3>1, <3>2, <3>3 DEF RecordOK, Announced
    <3>5. e \in decisions' BY <1>3 DEF CompleteReadEffect
    <3> QED BY <3>1, <3>2, <3>4, <3>5 DEF HandlerOK
  <2> QED BY <2>2, <2>3
<1>12. IntakeInv' BY <1>7, <1>8, <1>9, <1>10, <1>11 DEF IntakeInv
<1> QED BY <1>2, <1>3, <1>12

\* complete() stores its copy as completed, or the save raises.
CompleteSaveEffect(h, t, s) ==
    /\ \/ submissions' = [submissions EXCEPT ![t] = s] /\ pointer' = [pointer EXCEPT ![Key[t]] = t]
       \/ submissions' = submissions /\ pointer' = pointer
    /\ job' = [job EXCEPT ![h] = NoEvent] /\ seen' = [seen EXCEPT ![h] = NoSubmission]
    /\ acked \subseteq acked' /\ acked' \subseteq acked \cup {job[h]}
    /\ pc' = pc /\ existing' = existing /\ snapshot' = snapshot
    /\ submitted' = submitted /\ decisions' = decisions
    /\ crashes' = crashes /\ overlaps' = overlaps

\* The copy completed is of a submitted invoice, so no duplicate.
LEMMA CompleteSaveKeeps ==
    ASSUME IntakeInv, NEW h \in Handlers, CompleteSave(h)
    PROVE  /\ IntakeInv'
           /\ \E t \in submitted, s \in Submissions :
                 /\ t = job[h].tid /\ ~s.dup /\ s.status = "completed"
                 /\ CompleteSaveEffect(h, t, s)
<1>1. TypeOK /\ HandlerOK(h) BY DEF IntakeInv
<1>2. job[h] # NoEvent BY DEF CompleteSave
<1>3. PICK t \in submitted : t = job[h].tid BY <1>1, <1>2, HandledIsSubmitted
<1>4. job[h].route \in Routes /\ t \in TrackingIds BY <1>2, <1>3, HandledIsSubmitted
<1>5. PICK s : s = Completed(seen[h], job[h].route) OBVIOUS
<1>6. seen[h] \in Submissions /\ ~seen[h].dup /\ job[h] \in decisions
  BY <1>1, <1>2 DEF TypeOK, HandlerOK
<1>7. s \in Submissions /\ ~s.dup /\ s.status = "completed" /\ s.route \in Routes
  BY <1>4, <1>5, <1>6, CompletedShape
<1>8. CompleteSaveEffect(h, t, s)
  BY <1>3, <1>5 DEF CompleteSave, CompleteSaveEffect, Written, store, tasks, topics
<1>9. faults' \in 0..MaxFaults BY <1>1, IntakeAssumption DEF CompleteSave, Fault, TypeOK
<1>10. Key[t] \in Keys /\ NoSubmission \in Submissions BY <1>4, KeyIsKey, RecordShapes
<1>11. /\ submissions' \in [TrackingIds -> Submissions] /\ pointer' \in [Keys -> TrackingIds \cup {NoId}]
       /\ job' \in [Handlers -> Events \cup {NoEvent}] /\ seen' \in [Handlers -> Submissions]
       /\ acked' \subseteq decisions'
  BY <1>1, <1>4, <1>6, <1>7, <1>8, <1>10 DEF CompleteSaveEffect, TypeOK
<1>12. TypeOK' BY <1>1, <1>8, <1>9, <1>11 DEF CompleteSaveEffect, TypeOK
<1>13. submissions'[t] = s \/ submissions'[t] = submissions[t]
  BY <1>1, <1>4, <1>8 DEF CompleteSaveEffect, TypeOK
<1>14. TaskOK(t) /\ RecordOK(t) BY <1>4 DEF IntakeInv
<1>15. TaskFrame(t)
  <2>1. \A i \in Handlers : job'[i] = NoEvent \/ (job'[i] = job[i] /\ seen'[i] = seen[i])
    BY <1>1, <1>8 DEF CompleteSaveEffect, TypeOK
  <2>2. \A u \in TrackingIds \ {t} : submissions'[u] = submissions[u]
    BY <1>1, <1>8 DEF CompleteSaveEffect, TypeOK
  <2>3. submissions' = [submissions EXCEPT ![t] = s] => submissions'[t] = s
    BY <1>1, <1>4 DEF TypeOK
  <2>4. s.status # "none" BY <1>7
  <2> QED BY <1>8, <2>1, <2>2, <2>3, <2>4, <1>13 DEF CompleteSaveEffect, TaskFrame
<1>16. pc[t] \in {"fail", "ended"} /\ pc'[t] = pc[t] /\ snapshot'[t] = snapshot[t]
  BY <1>3, <1>8, <1>14 DEF RecordOK, CompleteSaveEffect
<1>17. TaskOK(t)' BY <1>7, <1>13, <1>14, <1>16 DEF TaskOK
<1>18. pointer'[Key[t]] # NoId
  <2>1. pointer[Key[t]] # NoId BY <1>3, <1>14 DEF RecordOK, Announced
  <2> QED BY <2>1, <1>1, <1>4, <1>8, <1>10, IntakeAssumption DEF CompleteSaveEffect, TypeOK
<1>19. RecordOK(t)'
  BY <1>7, <1>8, <1>13, <1>14, <1>16, <1>18, IntakeAssumption
  DEF RecordOK, CompleteSaveEffect, Announced
<1>20. \A e \in decisions' : e.tid = t => EventOK(e)'
  <2> SUFFICES ASSUME NEW e \in decisions, e.tid = t PROVE EventOK(e)'
    BY <1>8 DEF CompleteSaveEffect
  <2>1. EventOK(e) BY DEF IntakeInv
  <2>2. submissions[t] # SettledDuplicate BY <1>3, <1>14 DEF RecordOK, SettledDuplicate
  <2>3. e.tid \in submitted BY <1>3
  <2> QED BY <2>1, <2>2, <2>3, <1>8 DEF EventOK, CompleteSaveEffect
<1>21. IntakeInv' BY <1>4, <1>12, <1>15, <1>17, <1>19, <1>20, TaskKeeps
<1> QED BY <1>3, <1>7, <1>8, <1>21

\* Decision answers what it was given.
LEMMA DecideKeeps ==
    ASSUME IntakeInv, NEW t \in TrackingIds, NEW route \in Routes, Decide(t, route)
    PROVE  /\ IntakeInv' /\ submissions' = submissions /\ pc' = pc
           /\ snapshot' = snapshot /\ job' = job /\ overlaps' = overlaps
<1> DEFINE d == [tid |-> t, route |-> route]
<1>1. TypeOK BY DEF IntakeInv
<1>2. /\ t \in submitted /\ decisions' = decisions \cup {d}
      /\ submissions' = submissions /\ pointer' = pointer
      /\ pc' = pc /\ existing' = existing /\ snapshot' = snapshot
      /\ job' = job /\ seen' = seen /\ submitted' = submitted /\ acked' = acked
      /\ faults' = faults /\ crashes' = crashes /\ overlaps' = overlaps
  BY DEF Decide, store, tasks, completers
<1>3. d \in Events BY DEF Events
<1>4. TypeOK' BY <1>1, <1>2, <1>3 DEF TypeOK
<1>5. PointerHasRecord' BY <1>2 DEF IntakeInv, PointerHasRecord
<1>6. \A u \in TrackingIds : TaskOK(u)' /\ RecordOK(u)'
  BY <1>2 DEF IntakeInv, TaskOK, RecordOK
<1>7. \A e \in decisions' : EventOK(e)'
  <2> TAKE e \in decisions'
  <2>1. CASE e \in decisions BY <2>1, <1>2 DEF IntakeInv, EventOK
  <2>2. CASE e = d BY <2>2, <1>2, IntakeAssumption DEF EventOK
  <2> QED BY <2>1, <2>2, <1>2
<1>8. \A h \in Handlers : HandlerOK(h)' BY <1>2 DEF IntakeInv, HandlerOK
<1>9. IntakeInv' BY <1>4, <1>5, <1>6, <1>7, <1>8 DEF IntakeInv
<1> QED BY <1>2, <1>9

\* A crash loses the coroutines and nothing that is stored.
LEMMA CrashKeeps ==
    ASSUME IntakeInv, Crash
    PROVE  /\ IntakeInv' /\ submissions' = submissions /\ overlaps' = overlaps
           /\ \A t \in TrackingIds : pc'[t] \in {"new", "ended"}
           /\ \A h \in Handlers : job'[h] = NoEvent
<1>1. TypeOK BY DEF IntakeInv
<1>2. /\ pc' = [t \in TrackingIds |-> IF pc[t] = "new" THEN "new" ELSE "ended"]
      /\ existing' = [t \in TrackingIds |-> NoId]
      /\ snapshot' = [t \in TrackingIds |-> NoSubmission]
      /\ job' = [h \in Handlers |-> NoEvent]
      /\ seen' = [h \in Handlers |-> NoSubmission]
      /\ submissions' = submissions /\ pointer' = pointer
      /\ submitted' = submitted /\ decisions' = decisions /\ acked' = acked
      /\ faults' = faults /\ overlaps' = overlaps
  BY DEF Crash, store, topics
<1>3. crashes' \in 0..MaxCrashes BY <1>1, IntakeAssumption DEF Crash, TypeOK
<1>4. NoSubmission \in Submissions BY RecordShapes
<1>5. TypeOK' BY <1>1, <1>2, <1>3, <1>4, StepsIn DEF TypeOK
<1>6. \A t \in TrackingIds : pc'[t] = "ended" \/ (pc[t] = "new" /\ pc'[t] = "new") BY <1>2
<1>7. PointerHasRecord' BY <1>2 DEF IntakeInv, PointerHasRecord
<1>8. \A t \in TrackingIds : TaskOK(t)' /\ RecordOK(t)'
  <2> TAKE t \in TrackingIds
  <2>1. TaskOK(t) /\ RecordOK(t) BY DEF IntakeInv
  <2>2. TaskOK(t)' BY <1>2, <1>6, <2>1 DEF TaskOK
  <2>3. RecordOK(t)' BY <1>2, <1>6, <2>1 DEF RecordOK
  <2> QED BY <2>2, <2>3
<1>9. \A e \in decisions' : EventOK(e)'
  <2> SUFFICES ASSUME NEW e \in decisions PROVE EventOK(e)' BY <1>2
  <2>1. EventOK(e) /\ e.tid \in TrackingIds BY <1>1 DEF IntakeInv, TypeOK, Events
  <2> QED BY <2>1, <1>2, <1>6 DEF EventOK
<1>10. \A h \in Handlers : HandlerOK(h)' BY <1>2 DEF HandlerOK
<1>11. IntakeInv' BY <1>5, <1>7, <1>8, <1>9, <1>10 DEF IntakeInv
<1> QED BY <1>2, <1>6, <1>11

\* Nothing is stored or told at first.
LEMMA IntakeInit == Init => IntakeInv
<1> SUFFICES ASSUME Init PROVE IntakeInv OBVIOUS
<1>1. NoSubmission \in Submissions /\ NoSubmission.status = "none" /\ NoSubmission.route = "none"
  BY RecordShapes DEF NoSubmission
<1>2. TypeOK BY <1>1, StepsIn, IntakeAssumption DEF Init, TypeOK
<1>3. PointerHasRecord BY DEF Init, PointerHasRecord
<1>4. \A t \in TrackingIds : pc[t] = "new" /\ submissions[t] = NoSubmission BY DEF Init
<1>5. \A t \in TrackingIds : TaskOK(t) BY <1>4 DEF TaskOK
<1>6. submitted = {} /\ decisions = {} BY DEF Init
<1>7. \A t \in TrackingIds : RecordOK(t) BY <1>1, <1>4, <1>6 DEF RecordOK
<1>8. \A h \in Handlers : HandlerOK(h) BY DEF Init, HandlerOK
<1> QED BY <1>2, <1>3, <1>5, <1>6, <1>7, <1>8 DEF IntakeInv

\* A step that changes nothing.
LEMMA IntakeStutter == IntakeInv /\ UNCHANGED vars => IntakeInv'
<1> SUFFICES ASSUME IntakeInv, UNCHANGED vars PROVE IntakeInv' OBVIOUS
<1>1. /\ submissions' = submissions /\ pointer' = pointer
      /\ pc' = pc /\ existing' = existing /\ snapshot' = snapshot
      /\ job' = job /\ seen' = seen /\ submitted' = submitted /\ decisions' = decisions
      /\ acked' = acked /\ faults' = faults /\ crashes' = crashes /\ overlaps' = overlaps
  BY DEF vars, store, tasks, completers, topics
<1>2. TypeOK' BY <1>1 DEF IntakeInv, TypeOK
<1>3. PointerHasRecord' BY <1>1 DEF IntakeInv, PointerHasRecord
<1>4. \A t \in TrackingIds : TaskOK(t)' BY <1>1 DEF IntakeInv, TaskOK
<1>5. \A t \in TrackingIds : RecordOK(t)' BY <1>1 DEF IntakeInv, RecordOK
<1>6. \A e \in decisions' : EventOK(e)' BY <1>1 DEF IntakeInv, EventOK
<1>7. \A h \in Handlers : HandlerOK(h)' BY <1>1 DEF IntakeInv, HandlerOK
<1> QED BY <1>2, <1>3, <1>4, <1>5, <1>6, <1>7 DEF IntakeInv

\* Every step keeps the invariant.
LEMMA IntakeNext == IntakeInv /\ [Next]_vars => IntakeInv'
<1> SUFFICES ASSUME IntakeInv, [Next]_vars PROVE IntakeInv' OBVIOUS
<1>1. ASSUME NEW t \in TrackingIds, LookUpPointer(t) PROVE IntakeInv'
  BY <1>1, LookUpPointerKeeps
<1>2. ASSUME NEW t \in TrackingIds, TaskStep(t) PROVE IntakeInv'
  BY <1>2, LookUpRecordKeeps, StoreKeeps, ProcessKeeps, MarkProcessingKeeps, AnnounceInvoiceKeeps,
     MarkFailedKeeps, CompleteDuplicateReadKeeps, CompleteDuplicateSaveKeeps, AnnounceDuplicateKeeps
  DEF TaskStep
<1>3. ASSUME NEW t \in TrackingIds, ReadFails(t) PROVE IntakeInv'
  BY <1>3, ReadFailsKeeps
<1>4. ASSUME NEW h \in Handlers, CompleteSave(h) PROVE IntakeInv'
  BY <1>4, CompleteSaveKeeps
<1>5. ASSUME NEW h \in Handlers, NEW e \in decisions, CompleteRead(h, e) PROVE IntakeInv'
  BY <1>5, CompleteReadKeeps
<1>6. ASSUME NEW t \in TrackingIds, NEW route \in Routes, Decide(t, route) PROVE IntakeInv'
  BY <1>6, DecideKeeps
<1>7. CASE Crash BY <1>7, CrashKeeps
<1>8. CASE UNCHANGED vars BY <1>8, IntakeStutter
<1> QED BY <1>1, <1>2, <1>3, <1>4, <1>5, <1>6, <1>7, <1>8 DEF Next

-----------------------------------------------------------------------------
(* What holds whatever overlaps, fails or crashes                           *)

\* The inductive invariant: the record fits where the coroutine is and what was told.
THEOREM IntakeInvariant == Spec => []IntakeInv
  BY IntakeInit, IntakeNext, PTL DEF Spec

\* Every variable stays in its range, the dedup pointers included.
THEOREM IntakeTyped == Spec => []TypeOK
<1>1. IntakeInv => TypeOK BY DEF IntakeInv
<1> QED BY <1>1, IntakeInvariant, PTL

\* find_by_dedup_key() never meets a pointer without its record.
THEOREM PointersHaveRecords == Spec => []PointerHasRecord
<1>1. IntakeInv => PointerHasRecord BY DEF IntakeInv
<1> QED BY <1>1, IntakeInvariant, PTL

\* Intake decides the duplicates and nothing else, and Decision the others.
THEOREM DuplicatesStayHere == Spec => []DuplicatesAreDecidedHere
<1>1. IntakeInv => DuplicatesAreDecidedHere
  <2> SUFFICES ASSUME IntakeInv, NEW t \in TrackingIds
               PROVE  /\ t \in submitted => ~submissions[t].dup
                      /\ \/ submissions[t].route = "duplicate"
                         \/ [tid |-> t, route |-> "duplicate"] \in decisions
                         => t \notin submitted /\ submissions[t].dup /\ submissions[t].status = "completed"
    BY DEF DuplicatesAreDecidedHere
  <2>1. RecordOK(t) BY DEF IntakeInv
  <2>2. [tid |-> t, route |-> "duplicate"] \in decisions => submissions[t] = SettledDuplicate
    <3> SUFFICES ASSUME [tid |-> t, route |-> "duplicate"] \in decisions PROVE submissions[t] = SettledDuplicate
      OBVIOUS
    <3>1. EventOK([tid |-> t, route |-> "duplicate"]) BY DEF IntakeInv
    <3> QED BY <3>1 DEF EventOK
  <2>3. SettledDuplicate.dup /\ SettledDuplicate.status = "completed" BY DEF SettledDuplicate
  <2> QED BY <2>1, <2>2, <2>3 DEF RecordOK
<1> QED BY <1>1, IntakeInvariant, PTL

\* A decision finds its submission PROCESSING or FAILED, however early it comes.
THEOREM DecisionsFindProcessing == Spec => []DecisionFindsProcessing
<1>1. IntakeInv => DecisionFindsProcessing
  BY DEF IntakeInv, HandlerOK, DecisionFindsProcessing
<1> QED BY <1>1, IntakeInvariant, PTL

-----------------------------------------------------------------------------
(* As long as nothing has overlapped                                        *)

\* Overlaps are counted and never forgotten.
LEMMA OverlapsGrow ==
    ASSUME TypeOK, [Next]_vars, overlaps' = 0
    PROVE  overlaps = 0
<1>1. \A other : Overlapping(other) => overlaps = 0
  BY DEF Overlapping, TypeOK
<1>2. \/ overlaps' = overlaps \/ \E other : Overlapping(other)
  BY DEF Next, vars, LookUpPointer, TaskStep, ReadFails, LookUpRecord, Store, Process, MarkProcessing,
         AnnounceInvoice, MarkFailed, CompleteDuplicateRead, CompleteDuplicateSave, AnnounceDuplicate,
         CompleteSave, CompleteRead, Decide, Crash, Save
<1> QED BY <1>1, <1>2

\* Only the two reads that may overlap can disturb Serial; any other step keeps
\* it that makes no invoice a first one and takes no completed one in hand.
LEMMA SerialKeeps ==
    ASSUME Serial,
           \A t \in TrackingIds : pc'[t] \in {"record", "store"} => pc[t] \in {"record", "store"},
           \A t \in TrackingIds : First(t)' => First(t),
           \A h \in Handlers : job'[h] = NoEvent \/ job'[h] = job[h],
           \A h \in Handlers : job'[h] # NoEvent =>
               submissions'[job[h].tid].status \in {"processing", "failed"}
    PROVE  Serial'
<1>1. LookUpAlone' BY DEF Serial, LookUpAlone
<1>2. OneFirst' BY DEF Serial, OneFirst
<1>3. CompleteAlone' BY DEF Serial, CompleteAlone
<1>4. NotYetCompleted'
  <2> SUFFICES ASSUME NEW h \in Handlers, job'[h] # NoEvent
               PROVE  submissions'[job'[h].tid].status \in {"processing", "failed"}
    BY DEF NotYetCompleted
  <2>1. job'[h] = job[h] OBVIOUS
  <2> QED BY <2>1
<1> QED BY <1>1, <1>2, <1>3, <1>4 DEF Serial

\* No handler has an invoice that was not submitted.
LEMMA HandlersElsewhere ==
    ASSUME IntakeInv, NEW t \in TrackingIds, pc[t] \notin {"fail", "ended"},
           NEW h \in Handlers, job[h] # NoEvent
    PROVE  job[h].tid # t
<1>1. job[h].tid \in submitted BY HandledIsSubmitted
<1>2. RecordOK(t) BY DEF IntakeInv
<1> QED BY <1>1, <1>2 DEF RecordOK

\* A save keeps Serial if it stores a duplicate or what already was the first one.
LEMMA SerialSave ==
    ASSUME IntakeInv, Serial, NEW t \in TrackingIds, NEW s \in Submissions, NEW next \in Steps,
           SaveEffect(t, s, next), next \notin {"record", "store"},
           s.dup \/ First(t),
           pc[t] \notin {"fail", "ended"} \/ s.status = "failed"
    PROVE  Serial'
<1>1. TypeOK BY DEF IntakeInv
<1>2. \A u \in TrackingIds : pc'[u] \in {"record", "store"} => pc[u] \in {"record", "store"}
  BY DEF SaveEffect
<1>3. \A u \in TrackingIds : First(u)' => First(u)
  <2> TAKE u \in TrackingIds
  <2>1. CASE u # t BY <2>1 DEF First, SaveEffect
  <2>2. CASE u = t
    <3>1. pc'[t] # "store" BY DEF SaveEffect
    <3>2. CASE submissions'[t] = s BY <2>2, <3>1, <3>2 DEF First
    <3>3. CASE submissions'[t] = submissions[t] BY <2>2, <3>1, <3>3 DEF First
    <3> QED BY <3>2, <3>3 DEF SaveEffect
  <2> QED BY <2>1, <2>2
<1>4. \A h \in Handlers : job'[h] # NoEvent =>
               submissions'[job[h].tid].status \in {"processing", "failed"}
  <2> SUFFICES ASSUME NEW h \in Handlers, job[h] # NoEvent
               PROVE  submissions'[job[h].tid].status \in {"processing", "failed"}
    BY DEF SaveEffect
  <2>1. submissions[job[h].tid].status \in {"processing", "failed"} BY DEF Serial, NotYetCompleted
  <2>2. job[h].tid \in TrackingIds BY HandledIsSubmitted
  <2>3. CASE job[h].tid # t BY <2>1, <2>2, <2>3 DEF SaveEffect
  <2>4. CASE job[h].tid = t
    <3>1. s.status = "failed" BY <2>4, HandlersElsewhere
    <3> QED BY <2>1, <2>4, <3>1 DEF SaveEffect
  <2> QED BY <2>3, <2>4
<1>5. \A h \in Handlers : job'[h] = NoEvent \/ job'[h] = job[h] BY DEF SaveEffect
<1> QED BY <1>2, <1>3, <1>4, <1>5, SerialKeeps

\* The steps that leave the records alone and do not go to where one is stored.
LEMMA SerialElse ==
    ASSUME IntakeInv, Serial, submissions' = submissions,
           \A t \in TrackingIds : \/ pc'[t] \notin {"record", "store"}
                                  \/ pc'[t] = pc[t] /\ snapshot'[t] = snapshot[t],
           \A h \in Handlers : job'[h] = NoEvent \/ job'[h] = job[h]
    PROVE  Serial'
<1>1. \A t \in TrackingIds : First(t)' => First(t) BY DEF First
<1>2. \A h \in Handlers : job'[h] # NoEvent =>
          submissions'[job[h].tid].status \in {"processing", "failed"}
  BY DEF Serial, NotYetCompleted
<1>3. \A t \in TrackingIds : pc'[t] \in {"record", "store"} => pc[t] \in {"record", "store"}
  OBVIOUS
<1> QED BY <1>1, <1>2, <1>3, SerialKeeps

\* The lookup that finds no pointer: no other invoice of the key is stored, or
\* looking, so this is the first one.
LEMMA SerialLookUp ==
    ASSUME IntakeInv, Serial, NEW t \in TrackingIds, LookUpPointer(t), overlaps = 0, overlaps' = 0
    PROVE  Serial'
<1>1. TypeOK /\ TaskOK(t) /\ Key[t] \in Keys BY KeyIsKey DEF IntakeInv
<1>2. pc[t] = "new" /\ submissions[t].status = "none"
  BY <1>1 DEF LookUpPointer, TaskOK, NoSubmission
<1>3. \A u \in TrackingIds \ {t} : ~(Key[u] = Key[t] /\ pc[u] \in {"record", "store"})
  BY DEF LookUpPointer, Overlapping, LookingUp
<1>4. /\ \/ pointer[Key[t]] = NoId /\ pc' = [pc EXCEPT ![t] = "store"]
         \/ pointer[Key[t]] # NoId /\ pc' = [pc EXCEPT ![t] = "record"]
      /\ \A u \in TrackingIds \ {t} : snapshot'[u] = snapshot[u] /\ pc'[u] = pc[u]
      /\ submissions' = submissions /\ job' = job
  BY <1>1 DEF LookUpPointer, Goto, store, completers, TypeOK
<1>5. LookUpAlone' BY <1>3, <1>4 DEF Serial, LookUpAlone
<1>6. \A u \in TrackingIds \ {t} : First(u)' => First(u) BY <1>4 DEF First
<1>7. \A u \in TrackingIds \ {t} : Key[u] = Key[t] => ~(First(t)' /\ First(u)')
  <2> SUFFICES ASSUME NEW u \in TrackingIds \ {t}, Key[u] = Key[t], First(t)', First(u) PROVE FALSE
    BY <1>6
  <2>1. pc'[t] = "store" BY <1>2, <1>4 DEF First
  <2>2. pointer[Key[t]] = NoId BY <1>1, <1>4, <2>1 DEF TypeOK
  <2>3. submissions[u].status # "none" BY <1>3 DEF First
  <2>4. RecordOK(u) BY DEF IntakeInv
  <2> QED BY <2>2, <2>3, <2>4 DEF RecordOK
<1>8. OneFirst' BY <1>6, <1>7 DEF Serial, OneFirst
<1>9. CompleteAlone' BY <1>4 DEF Serial, CompleteAlone
<1>10. NotYetCompleted' BY <1>4 DEF Serial, NotYetCompleted
<1> QED BY <1>5, <1>8, <1>9, <1>10 DEF Serial

\* The read of a record for an event nobody else is handling.
LEMMA SerialCompleteRead ==
    ASSUME IntakeInv, Serial, NEW h \in Handlers, NEW e \in decisions, CompleteRead(h, e),
           overlaps = 0, overlaps' = 0
    PROVE  Serial'
<1>1. TypeOK /\ IntakeInv' /\ CompleteReadEffect(h, e) BY CompleteReadKeeps DEF IntakeInv
<1>2. \A i \in Handlers : job[i] # NoEvent => job[i].tid # e.tid
  BY DEF CompleteRead, Overlapping, InFlight
<1>3. /\ submissions' = submissions /\ pc' = pc /\ snapshot' = snapshot
  BY <1>1 DEF CompleteReadEffect
<1>4. LookUpAlone' BY <1>3 DEF Serial, LookUpAlone
<1>5. OneFirst' BY <1>3 DEF Serial, OneFirst, First
<1>6. \A i \in Handlers : \/ job'[i] = job[i]
                          \/ i = h /\ job'[i] = e /\ seen'[i] = submissions[e.tid]
  BY <1>1 DEF CompleteReadEffect, TypeOK
<1>7. CompleteAlone' BY <1>2, <1>6 DEF Serial, CompleteAlone
<1>8. NotYetCompleted'
  <2> SUFFICES ASSUME NEW i \in Handlers, job'[i] # NoEvent
               PROVE  submissions'[job'[i].tid].status \in {"processing", "failed"}
    BY DEF NotYetCompleted
  <2>1. CASE job'[i] = job[i] BY <2>1, <1>3 DEF Serial, NotYetCompleted
  <2>2. CASE i = h /\ job'[i] = e /\ seen'[i] = submissions[e.tid]
    <3>1. HandlerOK(i)' BY <1>1 DEF IntakeInv
    <3> QED BY <3>1, <2>2, <1>3 DEF HandlerOK
  <2> QED BY <1>6, <2>1, <2>2
<1> QED BY <1>4, <1>5, <1>7, <1>8 DEF Serial

\* The only handler of an invoice completes it.
LEMMA SerialCompleteSave ==
    ASSUME IntakeInv, Serial, NEW h \in Handlers, CompleteSave(h)
    PROVE  Serial'
<1>1. TypeOK BY DEF IntakeInv
<1>2. PICK t \in submitted, s \in Submissions :
        /\ t = job[h].tid /\ ~s.dup /\ s.status = "completed"
        /\ CompleteSaveEffect(h, t, s)
  BY CompleteSaveKeeps
<1>3. t \in TrackingIds /\ RecordOK(t) /\ job[h] # NoEvent BY <1>1, <1>2 DEF IntakeInv, TypeOK, CompleteSave
<1>4. /\ \A u \in TrackingIds \ {t} : submissions'[u] = submissions[u]
      /\ \A i \in Handlers : (i = h /\ job'[i] = NoEvent) \/ (i # h /\ job'[i] = job[i])
      /\ pc' = pc /\ snapshot' = snapshot
  BY <1>1, <1>2 DEF CompleteSaveEffect, TypeOK
<1>5. First(t) BY <1>2, <1>3 DEF RecordOK, First, Announced
<1>6. \A u \in TrackingIds : First(u)' => First(u) BY <1>4, <1>5 DEF First
<1>7. \A i \in Handlers : job'[i] # NoEvent =>
          submissions'[job[i].tid].status \in {"processing", "failed"}
  <2> SUFFICES ASSUME NEW i \in Handlers, i # h, job[i] # NoEvent
               PROVE  submissions'[job[i].tid].status \in {"processing", "failed"}
    BY <1>4
  <2>1. job[i].tid # t BY <1>2, <1>3 DEF Serial, CompleteAlone
  <2>2. job[i].tid \in TrackingIds BY HandledIsSubmitted
  <2> QED BY <1>4, <2>1, <2>2 DEF Serial, NotYetCompleted
<1>8. \A i \in Handlers : job'[i] = NoEvent \/ job'[i] = job[i] BY <1>4
<1>9. \A u \in TrackingIds : pc'[u] \in {"record", "store"} => pc[u] \in {"record", "store"} BY <1>4
<1> QED BY <1>6, <1>7, <1>8, <1>9, SerialKeeps

\* A step of t's coroutine after its lookups.
LEMMA SerialTask ==
    ASSUME IntakeInv, Serial, NEW t \in TrackingIds, TaskStep(t)
    PROVE  Serial'
<1>1. TypeOK /\ TaskOK(t) /\ RecordOK(t) BY DEF IntakeInv
<1>2. CASE LookUpRecord(t)
  <2>1. snapshot'[t] = Received(TRUE) /\ pc'[t] = "store" /\ pc[t] = "record"
        /\ submissions' = submissions /\ job' = job
    BY <1>2, LookUpRecordKeeps DEF LookUpRecord, store, completers
  <2>2. \A u \in TrackingIds \ {t} : pc'[u] = pc[u] /\ snapshot'[u] = snapshot[u]
    BY <1>1, <1>2 DEF LookUpRecord, Goto, TypeOK
  <2>3. submissions[t].status = "none" /\ Received(TRUE).dup
    BY <1>1, <2>1 DEF TaskOK, NoSubmission, Received
  <2>4. ~First(t)' BY <2>1, <2>3 DEF First
  <2>5. \A u \in TrackingIds : First(u)' => First(u)
    <3> SUFFICES ASSUME NEW u \in TrackingIds \ {t}, First(u)' PROVE First(u) BY <2>4
    <3> QED BY <2>1, <2>2 DEF First
  <2>6. \A h \in Handlers : job'[h] # NoEvent =>
            submissions'[job[h].tid].status \in {"processing", "failed"}
    BY <2>1 DEF Serial, NotYetCompleted
  <2>7. \A u \in TrackingIds : pc'[u] \in {"record", "store"} => pc[u] \in {"record", "store"}
    BY <2>1, <2>2
  <2> QED BY <2>1, <2>5, <2>6, <2>7, SerialKeeps
<1>3. CASE Store(t)
  <2>1. SaveEffect(t, snapshot[t], "scheduled") /\ pc[t] = "store" BY <1>3, StoreKeeps DEF Store
  <2>2. snapshot[t] \in Submissions BY <1>1 DEF TypeOK
  <2>3. snapshot[t].dup \/ First(t) BY <2>1 DEF First
  <2> QED BY <2>1, <2>2, <2>3, SerialSave, StepsIn
<1>4. CASE Process(t)
  <2>1. ReadFrame(t) /\ pc'[t] \in {"mark", "dup_read"} BY <1>4, ProcessKeeps
  <2> QED BY <2>1, SerialElse DEF ReadFrame
<1>5. CASE MarkProcessing(t)
  <2>1. SaveEffect(t, Processing, "announce") /\ pc[t] = "mark" BY <1>5, MarkProcessingKeeps DEF MarkProcessing
  <2>2. submissions[t] = Received(FALSE) BY <1>1, <2>1 DEF TaskOK
  <2>3. First(t) BY <2>2 DEF First, Received
  <2> QED BY <2>1, <2>3, RecordShapes, SerialSave, StepsIn
<1>6. CASE AnnounceInvoice(t)
  <2>1. /\ submissions' = submissions /\ job' = job /\ snapshot' = snapshot
        /\ \A u \in TrackingIds : pc'[u] \in {"fail", "ended"} \/ pc'[u] = pc[u]
    BY <1>6, AnnounceInvoiceKeeps DEF AnnounceInvoice, completers
  <2> QED BY <2>1, SerialElse
<1>7. CASE MarkFailed(t)
  <2>1. SaveEffect(t, Failed, "ended") /\ pc[t] = "fail" BY <1>7, MarkFailedKeeps DEF MarkFailed
  <2>2. First(t) BY <1>1, <2>1 DEF First, TaskOK
  <2>3. Failed \in Submissions /\ Failed.status = "failed" BY RecordShapes DEF Failed
  <2> QED BY <2>1, <2>2, <2>3, SerialSave, StepsIn
<1>8. CASE CompleteDuplicateRead(t)
  <2>1. ReadFrame(t) /\ pc'[t] = "dup_save" BY <1>8, CompleteDuplicateReadKeeps
  <2> QED BY <2>1, SerialElse DEF ReadFrame
<1>9. CASE CompleteDuplicateSave(t)
  <2>1. SaveEffect(t, SettledDuplicate, "dup_announce") /\ pc[t] = "dup_save"
    BY <1>9, CompleteDuplicateSaveKeeps DEF CompleteDuplicateSave
  <2>2. SettledDuplicate \in Submissions /\ SettledDuplicate.dup BY RecordShapes DEF SettledDuplicate
  <2> QED BY <2>1, <2>2, SerialSave, StepsIn
<1>10. CASE AnnounceDuplicate(t)
  <2>1. /\ submissions' = submissions /\ job' = job /\ snapshot' = snapshot
        /\ \A u \in TrackingIds : pc'[u] = "ended" \/ pc'[u] = pc[u]
    BY <1>10, AnnounceDuplicateKeeps DEF AnnounceDuplicate, completers
  <2> QED BY <2>1, SerialElse
<1> QED BY <1>2, <1>3, <1>4, <1>5, <1>6, <1>7, <1>8, <1>9, <1>10 DEF TaskStep

\* At first nobody looks anything up.
LEMMA SerialInit == Init => SerialInv
<1> SUFFICES ASSUME Init PROVE Serial BY IntakeInit DEF SerialInv
<1>1. \A t \in TrackingIds : pc[t] = "new" /\ submissions[t].status = "none"
  BY DEF Init, NoSubmission
<1>2. \A h \in Handlers : job[h] = NoEvent BY DEF Init
<1>3. LookUpAlone BY <1>1 DEF LookUpAlone
<1>4. OneFirst BY <1>1 DEF OneFirst, First
<1> QED BY <1>2, <1>3, <1>4 DEF Serial, CompleteAlone, NotYetCompleted

\* A step that does not overlap keeps Serial.
LEMMA SerialNext == SerialInv /\ [Next]_vars => SerialInv'
<1> SUFFICES ASSUME SerialInv, [Next]_vars, overlaps' = 0 PROVE Serial'
  BY IntakeNext DEF SerialInv
<1>1. IntakeInv /\ TypeOK /\ overlaps = 0 /\ Serial BY OverlapsGrow DEF SerialInv, IntakeInv
<1>2. ASSUME NEW t \in TrackingIds, LookUpPointer(t) PROVE Serial'
  BY <1>1, <1>2, SerialLookUp
<1>3. ASSUME NEW t \in TrackingIds, TaskStep(t) PROVE Serial'
  BY <1>1, <1>3, SerialTask
<1>4. ASSUME NEW t \in TrackingIds, ReadFails(t) PROVE Serial'
  <2>1. ReadFrame(t) /\ pc'[t] = "ended" BY <1>1, <1>4, ReadFailsKeeps
  <2> QED BY <1>1, <2>1, SerialElse DEF ReadFrame
<1>5. ASSUME NEW h \in Handlers, CompleteSave(h) PROVE Serial'
  BY <1>1, <1>5, SerialCompleteSave
<1>6. ASSUME NEW h \in Handlers, NEW e \in decisions, CompleteRead(h, e) PROVE Serial'
  BY <1>1, <1>6, SerialCompleteRead
<1>7. ASSUME NEW t \in TrackingIds, NEW route \in Routes, Decide(t, route) PROVE Serial'
  BY <1>1, <1>7, DecideKeeps, SerialElse
<1>8. CASE Crash
  BY <1>1, <1>8, CrashKeeps, SerialElse
<1>9. CASE UNCHANGED vars
  <2>1. submissions' = submissions /\ pc' = pc /\ snapshot' = snapshot /\ job' = job
    BY <1>9 DEF vars, store, tasks, completers
  <2> QED BY <1>1, <2>1, SerialElse
<1> QED BY <1>2, <1>3, <1>4, <1>5, <1>6, <1>7, <1>8, <1>9 DEF Next

\* Without overlaps the reads of one key, and of one record, are serial.
THEOREM SerialInvariant == Spec => []SerialInv
  BY SerialInit, SerialNext, PTL DEF Spec

\* F3: without overlapping posts, one invoice of a key at most reaches Decision.
THEOREM OnePerKeyAtMost == Spec => []OnePerKeyReachesDecision
<1>1. SerialInv => OnePerKeyReachesDecision
  <2> SUFFICES ASSUME SerialInv, overlaps = 0, NEW t \in submitted, NEW u \in submitted, Key[t] = Key[u]
               PROVE  t = u
    BY DEF OnePerKeyReachesDecision
  <2>1. t \in TrackingIds /\ u \in TrackingIds BY DEF SerialInv, IntakeInv, TypeOK
  <2>2. RecordOK(t) /\ RecordOK(u) BY <2>1 DEF SerialInv, IntakeInv
  <2>3. First(t) /\ First(u) BY <2>2 DEF RecordOK, First, Announced
  <2> QED BY <2>1, <2>3 DEF SerialInv, Serial, OneFirst
<1> QED BY <1>1, SerialInvariant, PTL

-----------------------------------------------------------------------------
(* The status moves forward                                                 *)

\* What a step may do to the status of t.
Forward(t) ==
    submissions'[t] # submissions[t] =>
        \/ submissions[t].status = "none" /\ submissions'[t].status = "received"
        \/ submissions[t].status = "received" /\ submissions'[t].status \in {"processing", "completed"}
        \/ submissions[t].status = "processing" /\ submissions'[t].status \in {"completed", "failed"}
        \/ submissions[t].status = "failed" /\ submissions'[t].status = "completed"
        \/ submissions[t].status = "completed" /\ pc[t] = "fail"

\* The statuses that the coroutine of an invoice sets.
LEMMA ForwardTask ==
    ASSUME IntakeInv, NEW t \in TrackingIds, TaskStep(t), NEW u \in TrackingIds
    PROVE  Forward(u)
<1>1. TypeOK /\ TaskOK(t) /\ RecordOK(t) BY DEF IntakeInv
<1>2. CASE LookUpRecord(t) \/ Process(t) \/ AnnounceInvoice(t) \/ CompleteDuplicateRead(t) \/ AnnounceDuplicate(t)
  <2>1. submissions' = submissions
    BY <1>2 DEF LookUpRecord, Process, AnnounceInvoice, CompleteDuplicateRead, AnnounceDuplicate, store
  <2> QED BY <2>1 DEF Forward
<1>3. ASSUME NEW s, NEW next, SaveEffect(t, s, next), u # t \/ submissions'[t] # s PROVE Forward(u)
  BY <1>3 DEF Forward, SaveEffect
<1>4. CASE Store(t)
  <2>1. SaveEffect(t, snapshot[t], "scheduled") BY <1>4, StoreKeeps
  <2>2. snapshot[t] \in {Received(TRUE), Received(FALSE)} /\ submissions[t] = NoSubmission
    BY <1>1, <1>4 DEF Store, TaskOK
  <2>3. snapshot[t].status = "received" /\ submissions[t].status = "none"
    BY <2>2 DEF Received, NoSubmission
  <2> QED BY <1>3, <2>1, <2>3 DEF Forward
<1>5. CASE MarkProcessing(t)
  <2>1. SaveEffect(t, Processing, "announce") BY <1>5, MarkProcessingKeeps
  <2>2. submissions[t] = Received(FALSE) BY <1>1, <1>5 DEF MarkProcessing, TaskOK
  <2>3. Processing.status = "processing" /\ submissions[t].status = "received"
    BY <2>2 DEF Received, Processing
  <2> QED BY <1>3, <2>1, <2>3 DEF Forward
<1>6. CASE MarkFailed(t)
  <2>1. SaveEffect(t, Failed, "ended") BY <1>6, MarkFailedKeeps
  <2>2. pc[t] = "fail" /\ submissions[t].status \in {"processing", "completed"}
    BY <1>1, <1>6 DEF MarkFailed, TaskOK
  <2>3. Failed.status = "failed" BY DEF Failed
  <2> QED BY <1>3, <2>1, <2>2, <2>3 DEF Forward
<1>7. CASE CompleteDuplicateSave(t)
  <2>1. SaveEffect(t, SettledDuplicate, "dup_announce") BY <1>7, CompleteDuplicateSaveKeeps
  <2>2. submissions[t] = Received(TRUE) BY <1>1, <1>7 DEF CompleteDuplicateSave, TaskOK
  <2>3. SettledDuplicate.status = "completed" /\ submissions[t].status = "received"
    BY <2>2 DEF Received, SettledDuplicate
  <2> QED BY <1>3, <2>1, <2>3 DEF Forward
<1> QED BY <1>2, <1>4, <1>5, <1>6, <1>7 DEF TaskStep

\* complete() takes a record from PROCESSING or FAILED, if nothing overlapped.
LEMMA ForwardComplete ==
    ASSUME IntakeInv, Serial, NEW h \in Handlers, CompleteSave(h), NEW u \in TrackingIds
    PROVE  Forward(u)
<1>1. PICK t \in submitted, s \in Submissions :
        /\ t = job[h].tid /\ ~s.dup /\ s.status = "completed"
        /\ CompleteSaveEffect(h, t, s)
  BY CompleteSaveKeeps
<1>2. TypeOK /\ t \in TrackingIds BY DEF IntakeInv, TypeOK
<1>3. submissions[t].status \in {"processing", "failed"}
  BY <1>1 DEF CompleteSave, Serial, NotYetCompleted
<1>4. \/ submissions' = submissions
      \/ submissions'[t] = s /\ \A v \in TrackingIds \ {t} : submissions'[v] = submissions[v]
  BY <1>1, <1>2 DEF CompleteSaveEffect, TypeOK
<1> QED BY <1>1, <1>3, <1>4 DEF Forward

\* Every step without overlaps moves statuses forward.
LEMMA ForwardStep ==
    ASSUME SerialInv, [Next]_vars, overlaps' = 0, NEW u \in TrackingIds
    PROVE  Forward(u)
<1>1. IntakeInv /\ TypeOK /\ Serial BY OverlapsGrow DEF SerialInv, IntakeInv
<1>2. ASSUME NEW t \in TrackingIds, TaskStep(t) PROVE Forward(u)
  BY <1>1, <1>2, ForwardTask
<1>3. ASSUME NEW h \in Handlers, CompleteSave(h) PROVE Forward(u)
  BY <1>1, <1>3, ForwardComplete
<1>4. CASE \/ \E t \in TrackingIds : LookUpPointer(t) \/ ReadFails(t)
           \/ \E h \in Handlers, e \in decisions : CompleteRead(h, e)
           \/ \E t \in TrackingIds, route \in Routes : Decide(t, route)
           \/ Crash \/ UNCHANGED vars
  <2>1. submissions' = submissions
    BY <1>4 DEF LookUpPointer, ReadFails, CompleteRead, Decide, Crash, vars, store
  <2> QED BY <2>1 DEF Forward
<1> QED BY <1>2, <1>3, <1>4 DEF Next

\* Without overlaps a status only moves forward; a recorded decision is only undone by
\* process() recording that its publish failed.
THEOREM StatusesMoveForward == Spec => StatusMovesForward
<1>1. SerialInv /\ [Next]_vars =>
        [overlaps' = 0 => \A t \in TrackingIds :
            submissions'[t] # submissions[t] =>
            \/ submissions[t].status = "none" /\ submissions'[t].status = "received"
            \/ submissions[t].status = "received" /\ submissions'[t].status \in {"processing", "completed"}
            \/ submissions[t].status = "processing" /\ submissions'[t].status \in {"completed", "failed"}
            \/ submissions[t].status = "failed" /\ submissions'[t].status = "completed"
            \/ submissions[t].status = "completed" /\ pc[t] = "fail"]_vars
  BY ForwardStep DEF Forward
<1> QED BY <1>1, SerialInvariant, PTL DEF Spec, StatusMovesForward

=============================================================================
